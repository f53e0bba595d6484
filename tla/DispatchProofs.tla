--------------------------- MODULE DispatchProofs ---------------------------
(* Proofs about project work, for any tasks, threads, handoffs, dispatches,  *)
(* executions and processes.                                                *)
EXTENDS DispatchProperties, TLAPS, SequenceTheorems

\* The statements of an execution; the others are operations'.
OfExec(s) == s.do \in {"accept", "event", "results"}

-----------------------------------------------------------------------------
(* Types: what statements and executions are about is there. *)

\* A row that a statement changes is there, or made by a statement before it.
Refers(p, i) ==
  LET s == todo[p][i]
  IN /\ OfExec(s) => dispatch[s.d] # None
     /\ s.do = "attach" => handoff[s.h] # None
     /\ s.do = "requeue" =>
          \/ thread[s.thread] # None
          \/ \E j \in 1..i - 1 : todo[p][j].do = "thread" /\ todo[p][j].thread = s.thread

Employed(e) ==
  UnderWay(e) => /\ exec[e].by \in Process /\ exec[e].dispatch \in Dispatch
                 /\ dispatch[exec[e].dispatch] # None

TypeInv ==
  /\ TypeOK
  /\ \A p \in Process : \A i \in 1..Len(todo[p]) : Refers(p, i)
  /\ \A e \in Exec : Employed(e)

-----------------------------------------------------------------------------
(* Executions. *)

\* A statement of an execution is made by its process, in its phase.
Phased(p, i) ==
  LET s == todo[p][i]
  IN OfExec(s) =>
       /\ exec[s.e].by = p /\ exec[s.e].dispatch = s.d
       /\ s.do = "accept"  => exec[s.e].pc = "accepting"
       /\ s.do = "event"   => \/ s.status \in {"running", "waiting_approval"} /\ exec[s.e].pc = "chatting"
                              \/ s.status \in Outcomes /\ exec[s.e].pc \in {"ended", "reporting"}
       /\ s.do = "results" => exec[s.e].pc = "reporting"

\* A dispatch on which work has begun names its execution.
Named(d) ==
  dispatch[d] # None =>
    /\ dispatch[d].status \in Started => dispatch[d].exec # None
    /\ dispatch[d].exec # None => /\ exec[dispatch[d].exec].dispatch = d
                                  /\ exec[dispatch[d].exec].pc # "free"

\* An execution that is over has settled its dispatch, or is about to.
Reported(e) ==
  (/\ exec[e].pc \in {"reporting", "done"} /\ exec[e].dispatch \in Dispatch
   /\ dispatch[exec[e].dispatch] # None /\ dispatch[exec[e].dispatch].exec = e
   /\ dispatch[exec[e].dispatch].status \in Started) =>
    /\ exec[e].pc = "reporting" /\ exec[e].by \in Process /\ todo[exec[e].by] # <<>>
    /\ LET last == todo[exec[e].by][Len(todo[exec[e].by])]
       IN last.do = "event" /\ last.e = e /\ last.status \in Outcomes

ExecInv ==
  /\ \A p \in Process : \A i \in 1..Len(todo[p]) : Phased(p, i)
  /\ \A d \in Dispatch : Named(d)
  /\ \A e \in Exec : Reported(e)
  /\ \A e \in Exec : exec[e].pc = "dead" => "crash" \in lapse

\* Unless a cancellation comes between the check and the write, nothing is to
\* be written to a cancelled dispatch.
CancelInv ==
  Without({"again", "overlap"}) =>
    \A p \in Process : \A i \in 1..Len(todo[p]) :
      OfExec(todo[p][i]) => dispatch[todo[p][i].d].status # "cancelled"

-----------------------------------------------------------------------------
(* What kinds of statements there are. *)

LEMMA StatementKinds ==
  ASSUME NEW s \in Statement
  PROVE  /\ s.do \in {"queue", "thread", "requeue", "attach", "handoff", "accept", "event", "results"}
         /\ s.do = "queue"   => /\ s.d \in Dispatch /\ s.thread \in Thread
                                /\ s.task \in Task \union {None} /\ s.who \in {"planner", "handoff"}
         /\ s.do = "thread"  => s.thread \in Thread /\ s.row \in ThreadRow
         /\ s.do = "requeue" => s.thread \in Thread
         /\ s.do = "attach"  => s.h \in Handoff /\ s.d \in Dispatch
         /\ s.do = "handoff" => s.h \in Handoff /\ s.row \in HandoffRow
         /\ s.do = "accept"  => s.d \in Dispatch /\ s.e \in Exec
         /\ s.do = "event"   => s.d \in Dispatch /\ s.e \in Exec /\ s.status \in DispatchStatus
         /\ s.do = "results" => s.d \in Dispatch /\ s.e \in Exec
<1>1. CASE s \in {Queue(d, x, k, w) : d \in Dispatch, x \in Thread, k \in Task \union {None},
                                      w \in {"planner", "handoff"}}
  BY <1>1 DEF Queue
<1>2. CASE s \in {PutThread(x, r) : x \in Thread, r \in ThreadRow}
  BY <1>2 DEF PutThread
<1>3. CASE s \in {Requeue(x) : x \in Thread}
  BY <1>3 DEF Requeue
<1>4. CASE s \in {Attach(h, d) : h \in Handoff, d \in Dispatch}
  BY <1>4 DEF Attach
<1>5. CASE s \in {PutHandoff(h, r) : h \in Handoff, r \in HandoffRow}
  BY <1>5 DEF PutHandoff
<1>6. CASE s \in {Accept(d, e) : d \in Dispatch, e \in Exec}
  BY <1>6 DEF Accept
<1>7. CASE s \in {Event(d, e, t) : d \in Dispatch, e \in Exec, t \in DispatchStatus}
  BY <1>7 DEF Event
<1>8. CASE s \in {Results(d, e) : d \in Dispatch, e \in Exec}
  BY <1>8 DEF Results
<1> QED BY <1>1, <1>2, <1>3, <1>4, <1>5, <1>6, <1>7, <1>8 DEF Statement

LEMMA StatementsMade ==
  /\ \A d \in Dispatch, x \in Thread, k \in Task \union {None}, w \in {"planner", "handoff"} :
       Queue(d, x, k, w) \in Statement
  /\ \A x \in Thread, r \in ThreadRow : PutThread(x, r) \in Statement
  /\ \A x \in Thread : Requeue(x) \in Statement
  /\ \A h \in Handoff, d \in Dispatch : Attach(h, d) \in Statement
  /\ \A h \in Handoff, r \in HandoffRow : PutHandoff(h, r) \in Statement
  /\ \A d \in Dispatch, e \in Exec : Accept(d, e) \in Statement /\ Results(d, e) \in Statement
  /\ \A d \in Dispatch, e \in Exec, t \in DispatchStatus : Event(d, e, t) \in Statement
<1>1. \A d \in Dispatch, x \in Thread, k \in Task \union {None}, w \in {"planner", "handoff"} :
        Queue(d, x, k, w) \in Statement
  BY DEF Statement
<1>2. \A x \in Thread, r \in ThreadRow : PutThread(x, r) \in Statement
  BY DEF Statement
<1>3. \A x \in Thread : Requeue(x) \in Statement
  BY DEF Statement
<1>4. \A h \in Handoff, d \in Dispatch : Attach(h, d) \in Statement
  BY DEF Statement
<1>5. \A h \in Handoff, r \in HandoffRow : PutHandoff(h, r) \in Statement
  BY DEF Statement
<1>6. \A d \in Dispatch, e \in Exec : Accept(d, e) \in Statement /\ Results(d, e) \in Statement
  BY DEF Statement
<1>7. \A d \in Dispatch, e \in Exec, t \in DispatchStatus : Event(d, e, t) \in Statement
  BY DEF Statement
<1> QED BY <1>1, <1>2, <1>3, <1>4, <1>5, <1>6, <1>7

\* What is still pending when a process has made a statement or got new ones.
LEMMA PendingTail ==
  ASSUME NEW q \in Seq(Statement), q # <<>>
  PROVE  /\ Head(q) = q[1] /\ Head(q) \in Statement
         /\ Tail(q) \in Seq(Statement) /\ Len(Tail(q)) = Len(q) - 1
         /\ \A i \in 1..Len(Tail(q)) : Tail(q)[i] = q[i + 1] /\ i + 1 \in 1..Len(q)
  OBVIOUS

-----------------------------------------------------------------------------
(* Types are kept. *)

\* Rows stay, and only what is there is referred to.
RowsStay ==
  /\ \A d \in Dispatch : dispatch[d] # None => dispatch'[d] # None
  /\ \A h \in Handoff : handoff[h] # None => handoff'[h] # None
  /\ \A x \in Thread : thread[x] # None => thread'[x] # None

RowTypes ==
  /\ task \in [Task -> BOOLEAN]
  /\ thread \in [Thread -> ThreadRow \union {None}]
  /\ dispatch \in [Dispatch -> DispatchRow \union {None}]
  /\ handoff \in [Handoff -> HandoffRow \union {None}]
  /\ artifact \in [Dispatch -> SUBSET Exec]
  /\ planned \subseteq Dispatch /\ lapse \subseteq Lapses

LEMMA NoneIsNoRow == None \notin ThreadRow /\ None \notin DispatchRow /\ None \notin HandoffRow
  BY NoRowAssumption

\* The rows' types when an operation begins that leaves them alone.
LEMMA LapsesKept ==
  ASSUME TypeInv, NEW p \in Process, NEW more \in SUBSET {"again", "overlap"}, Begins(p, more)
  PROVE  /\ lapse' \in SUBSET Lapses /\ lapse \subseteq lapse' /\ more \subseteq lapse'
         /\ todo[p] = <<>>
         /\ "crash" \notin lapse => "crash" \notin lapse'
         /\ \A e \in Exec : (exec[e].by = p /\ UnderWay(e)) => exec[e].pc \in {"chatting", "ended"}
  BY DEF Begins, Free, Lapses, TypeInv, TypeOK

\* New statements of a process that has none keep the types.
LEMMA NewStatements ==
  ASSUME TypeInv, NEW p \in Process, NEW q \in Seq(Statement), todo' = [todo EXCEPT ![p] = q]
  PROVE  /\ todo' \in [Process -> Seq(Statement)]
         /\ todo'[p] = q
         /\ \A r \in Process : r # p => todo'[r] = todo[r]
  BY DEF TypeInv, TypeOK

\* What a statement refers to stays there.
LEMMA RefersStay ==
  ASSUME TypeInv, RowsStay, NEW r \in Process, NEW i \in 1..Len(todo[r]), todo'[r] = todo[r]
  PROVE  Refers(r, i)'
<1> DEFINE s == todo[r][i]
<1>1. /\ s \in Statement /\ todo'[r][i] = s /\ Refers(r, i)
      /\ \A j \in 1..i - 1 : j \in 1..Len(todo[r]) /\ todo[r][j] \in Statement
  BY DEF TypeInv, TypeOK
<1>2. OfExec(s) => s.d \in Dispatch
  BY <1>1, StatementKinds DEF OfExec
<1>3. s.do = "attach" => s.h \in Handoff
  BY <1>1, StatementKinds
<1>4. s.do = "requeue" => s.thread \in Thread
  BY <1>1, StatementKinds
<1> QED BY <1>1, <1>2, <1>3, <1>4 DEF Refers, RowsStay, OfExec

\* Executions that are under way keep their dispatch.
LEMMA EmployedStay ==
  ASSUME TypeInv, RowsStay, NEW e \in Exec, exec'[e].by = exec[e].by, exec'[e].dispatch = exec[e].dispatch,
         UnderWay(e)' => UnderWay(e)
  PROVE  Employed(e)'
  BY DEF TypeInv, TypeOK, Employed, RowsStay, Execution

LEMMA TypeParts ==
  ASSUME TypeInv, RowTypes', RowsStay,
         todo' \in [Process -> Seq(Statement)], exec' \in [Exec -> Execution],
         \A r \in Process : \/ todo'[r] = todo[r]
                            \/ \A i \in 1..Len(todo'[r]) : Refers(r, i)',
         \A e \in Exec : Employed(e)'
  PROVE  TypeInv'
<1>1. TypeOK'
  BY DEF TypeOK, RowTypes
<1>2. ASSUME NEW r \in Process, NEW i \in 1..Len(todo'[r])
      PROVE  Refers(r, i)'
  <2>1. CASE todo'[r] = todo[r]
    BY <2>1, <1>2, RefersStay
  <2> QED BY <2>1, <1>2
<1> QED BY <1>1, <1>2 DEF TypeInv

\* An operation that is one statement.
LEMMA RowsOnly ==
  ASSUME TypeInv, RowTypes', RowsStay, todo' = todo, exec' = exec
  PROVE  TypeInv'
<1>1. \A e \in Exec : Employed(e)'
  <2> TAKE e \in Exec
  <2>1. UnderWay(e)' => UnderWay(e)
    BY DEF UnderWay
  <2> QED BY <2>1, EmployedStay
<1> QED BY <1>1, TypeParts DEF TypeInv, TypeOK

\* An operation that has statements to make.
LEMMA StatementsOnly ==
  ASSUME TypeInv, lapse' \in SUBSET Lapses, NEW p \in Process, NEW q \in Seq(Statement),
         todo' = [todo EXCEPT ![p] = q], exec' = exec, UNCHANGED <<rows, planned>>,
         \A i \in 1..Len(q) : Refers(p, i)'
  PROVE  TypeInv'
<1>1. RowTypes' /\ RowsStay
  BY DEF TypeInv, TypeOK, RowTypes, RowsStay, rows
<1>2. \A e \in Exec : Employed(e)'
  <2> TAKE e \in Exec
  <2>1. UnderWay(e)' => UnderWay(e)
    BY DEF UnderWay
  <2> QED BY <2>1, <1>1, EmployedStay
<1> QED BY <1>1, <1>2, NewStatements, TypeParts DEF TypeInv, TypeOK

\* Reports of executions.
LEMMA ReportTypes ==
  ASSUME TypeInv, NEW e \in Exec, UnderWay(e), NEW f \in Execution, NEW q \in Seq(Statement),
         Reports(e, q), exec' = [exec EXCEPT ![e] = f],
         f.by = exec[e].by, f.dispatch = exec[e].dispatch,
         UNCHANGED <<rows, planned, lapse>>,
         \A i \in 1..Len(q) : OfExec(q[i]) /\ q[i].d = exec[e].dispatch
  PROVE  TypeInv'
<1> DEFINE p == exec[e].by
           o == IF IsCancelled(exec[e].dispatch) THEN <<>> ELSE q
<1>1. RowTypes' /\ RowsStay
  BY DEF TypeInv, TypeOK, RowTypes, RowsStay, rows
<1>2. p \in Process /\ exec[e].dispatch \in Dispatch /\ dispatch[exec[e].dispatch] # None
  BY DEF TypeInv, Employed
<1>3. o \in Seq(Statement) /\ todo' = [todo EXCEPT ![p] = o]
  BY DEF Reports
<1>4. exec' \in [Exec -> Execution]
  BY DEF TypeInv, TypeOK
<1>5. \A g \in Exec : Employed(g)'
  <2> TAKE g \in Exec
  <2>1. exec'[g].by = exec[g].by /\ exec'[g].dispatch = exec[g].dispatch
    BY DEF TypeInv, TypeOK
  <2>2. UnderWay(g)' => UnderWay(g)
    BY DEF UnderWay, TypeInv, TypeOK
  <2> QED BY <2>1, <2>2, <1>1, EmployedStay
<1>6. \A r \in Process : todo'[r] = todo[r] \/ \A i \in 1..Len(todo'[r]) : Refers(r, i)'
  <2> TAKE r \in Process
  <2>1. CASE r # p
    BY <2>1, <1>2, <1>3, NewStatements
  <2>2. CASE r = p
    <3>1. todo'[r] = o
      BY <2>2, <1>2, <1>3, NewStatements
    <3>2. \A i \in 1..Len(o) : OfExec(o[i]) /\ o[i].d = exec[e].dispatch
      OBVIOUS
    <3>3. dispatch' = dispatch
      BY DEF rows
    <3> QED BY <3>1, <3>2, <3>3, <1>2 DEF Refers, OfExec
  <2> QED BY <2>1, <2>2
<1>7. todo' \in [Process -> Seq(Statement)]
  BY <1>2, <1>3, NewStatements
<1> QED BY <1>1, <1>4, <1>5, <1>6, <1>7, TypeParts

LEMMA OperationTypes ==
  ASSUME TypeInv,
         \/ \E p \in Cli, k \in Task : TaskStatus(p, k)
         \/ \E p \in Cli, x \in Thread, s \in ThreadStatus, k \in Task \union {None} :
              ThreadCreate(p, x, s, k)
         \/ \E p \in Process, d \in Dispatch, x \in Thread, k \in Task \union {None} :
              QueueDispatch(p, d, x, k)
         \/ \E d \in Dispatch : CancelDispatch(d)
  PROVE  TypeInv'
<1>1. ASSUME NEW p \in Cli, NEW k \in Task, TaskStatus(p, k)
      PROVE  RowTypes' /\ RowsStay /\ todo' = todo /\ exec' = exec
  <2>1. p \in Process /\ Begins(p, {})
    BY <1>1 DEF TaskStatus, Process
  <2> QED BY <1>1, <2>1, LapsesKept DEF TaskStatus, TypeInv, TypeOK, RowTypes, RowsStay
<1>2. ASSUME NEW p \in Cli, NEW x \in Thread, NEW s \in ThreadStatus, NEW k \in Task \union {None},
             ThreadCreate(p, x, s, k)
      PROVE  RowTypes' /\ RowsStay /\ todo' = todo /\ exec' = exec
  <2>1. p \in Process /\ Begins(p, {})
    BY <1>2 DEF ThreadCreate, Process
  <2> DEFINE row == [status |-> s, task |-> IF k = None /\ thread[x] # None THEN thread[x].task ELSE k]
  <2>2. row \in ThreadRow
    BY DEF TypeInv, TypeOK, ThreadRow
  <2>3. thread' = [thread EXCEPT ![x] = row]
    BY <1>2 DEF ThreadCreate
  <2> QED BY <1>2, <2>1, <2>2, <2>3, LapsesKept, NoneIsNoRow
          DEF ThreadCreate, TypeInv, TypeOK, RowTypes, RowsStay
<1>3. ASSUME NEW p \in Process, NEW d \in Dispatch, NEW x \in Thread, NEW k \in Task \union {None},
             QueueDispatch(p, d, x, k)
      PROVE  RowTypes' /\ RowsStay /\ todo' = todo /\ exec' = exec
  <2> DEFINE row == NewRow(x, IF k = None THEN thread[x].task ELSE k)
  <2>1. lapse' \in SUBSET Lapses
    BY <1>3, LapsesKept DEF QueueDispatch
  <2>2. row \in DispatchRow
    BY <1>3 DEF QueueDispatch, NewRow, DispatchRow, DispatchStatus, Active, TypeInv, TypeOK, ThreadRow
  <2>3. dispatch' = [dispatch EXCEPT ![d] = row]
    BY <1>3 DEF QueueDispatch
  <2> QED BY <1>3, <2>1, <2>2, <2>3, NoneIsNoRow DEF QueueDispatch, TypeInv, TypeOK, RowTypes, RowsStay
<1>4. ASSUME NEW d \in Dispatch, CancelDispatch(d)
      PROVE  RowTypes' /\ RowsStay /\ todo' = todo /\ exec' = exec
  <2>1. lapse' \in SUBSET Lapses
    BY <1>4, LapsesKept DEF CancelDispatch, Process, Overlap
  <2>2. [dispatch[d] EXCEPT !.status = "cancelled"] \in DispatchRow
    <3>1. dispatch[d] \in DispatchRow /\ "cancelled" \in DispatchStatus
      BY <1>4 DEF CancelDispatch, DispatchStatus, Settled, TypeInv, TypeOK
    <3> QED BY <3>1 DEF DispatchRow
  <2> QED BY <1>4, <2>1, <2>2, NoneIsNoRow DEF CancelDispatch, TypeInv, TypeOK, RowTypes, RowsStay
<1> QED BY <1>1, <1>2, <1>3, <1>4, RowsOnly

\* The statements of a plan: a dispatch and then a status for each thread.
LEMMA PlanStatements ==
  ASSUME TypeInv, NEW p \in Cli, PlanQueue(p)
  PROVE  \E s, id : \E n \in Nat \ {0} :
           /\ s \in [1..n -> {x \in Thread : Plannable(x)}] /\ IsInjective(s)
           /\ id \in [1..n -> {d \in Dispatch : /\ dispatch[d] = None
                                                /\ \A h \in Handoff : d # DispatchOf(h)}]
           /\ IsInjective(id)
           /\ todo' = [todo EXCEPT ![p] = [m \in 1..2 * n |->
                         LET i == (m + 1) \div 2
                         IN IF m % 2 = 1
                            THEN Queue(id[i], s[i], thread[s[i]].task, "planner")
                            ELSE PutThread(s[i], [thread[s[i]] EXCEPT !.status = "queued"])]]
<1> DEFINE able == {x \in Thread : Plannable(x)}
           free == {d \in Dispatch : /\ dispatch[d] = None
                                     /\ \A h \in Handoff : d # DispatchOf(h)}
<1>1. PICK s \in Plans : \E id \in [DOMAIN s -> free] :
         /\ IsInjective(id)
         /\ todo' = [todo EXCEPT ![p] = [m \in 1..2 * Len(s) |->
              LET i == (m + 1) \div 2
              IN IF m % 2 = 1
                 THEN Queue(id[i], s[i], thread[s[i]].task, "planner")
                 ELSE PutThread(s[i], [thread[s[i]] EXCEPT !.status = "queued"])]]
  BY DEF PlanQueue
<1>2. PICK n \in 1..Cardinality(able) : s \in [1..n -> able]
  BY DEF Plans
<1>3. n \in Nat \ {0}
  OBVIOUS
<1>4. IsInjective(s)
  BY DEF Plans
<1>5. DOMAIN s = 1..n /\ Len(s) = n
  BY <1>2, <1>3
<1> HIDE DEF able, free
<1>6. PICK id \in [1..n -> free] :
         /\ IsInjective(id)
         /\ todo' = [todo EXCEPT ![p] = [m \in 1..2 * n |->
              LET i == (m + 1) \div 2
              IN IF m % 2 = 1
                 THEN Queue(id[i], s[i], thread[s[i]].task, "planner")
                 ELSE PutThread(s[i], [thread[s[i]] EXCEPT !.status = "queued"])]]
  BY <1>1, <1>5
<1> QED BY <1>2, <1>3, <1>4, <1>6 DEF able, free

LEMMA FourStatements ==
  ASSUME NEW a \in Statement, NEW b \in Statement, NEW c \in Statement, NEW d \in Statement
  PROVE  <<a>> \o <<b, c, d>> = <<a, b, c, d>>
<1> DEFINE l == <<a>> \o <<b, c, d>>
           r == <<a, b, c, d>>
<1>1. <<a>> \in Seq(Statement) /\ <<b, c, d>> \in Seq(Statement)
  OBVIOUS
<1>2. l \in Seq(Statement) /\ Len(l) = 4
  BY <1>1, ConcatProperties
<1>3. r \in Seq(Statement) /\ Len(r) = 4
  OBVIOUS
<1>4. l[1] = a /\ l[2] = b /\ l[3] = c /\ l[4] = d
  BY <1>1, ConcatProperties
<1>5. r[1] = a /\ r[2] = b /\ r[3] = c /\ r[4] = d
  OBVIOUS
<1> HIDE DEF l, r
<1>6. \A i \in 1..Len(l) : l[i] = r[i]
  BY <1>2, <1>4, <1>5
<1>7. l = r
  BY <1>2, <1>3, <1>6, SeqEqual
<1> QED BY <1>7 DEF l, r

\* What an operation leaves to be made.
PlanShaped(q) ==
  /\ \A m \in 1..Len(q) :
       /\ q[m].do \in {"queue", "thread"}
       /\ q[m].do = "queue" =>
            /\ q[m].who = "planner" /\ dispatch[q[m].d] = None
            /\ \A h \in Handoff : q[m].d # DispatchOf(h)
            /\ Plannable(q[m].thread) /\ q[m].task = thread[q[m].thread].task
  /\ \A m, l \in 1..Len(q) :
       (q[m].do = "queue" /\ q[l].do = "queue" /\ m # l) =>
         q[m].d # q[l].d /\ q[m].thread # q[l].thread

SubmitShaped(q, h) ==
  /\ Len(q) = 1
  /\ \A i \in 1..Len(q) : q[i].do = "handoff" /\ q[i].h = h /\ q[i].row.dispatch = None

MaterializeShaped(q, h) ==
  /\ \A i \in 1..Len(q) :
       /\ q[i].do \in {"thread", "queue", "requeue", "attach"}
       /\ q[i].do = "queue" => /\ q[i].d = DispatchOf(h) /\ q[i].who = "handoff"
                               /\ \E j \in i + 1..Len(q) : q[j].do = "attach" /\ q[j].h = h
       /\ q[i].do = "attach" => q[i].h = h /\ q[i].d = DispatchOf(h)
       /\ q[i].do = "requeue" =>
            \/ thread[q[i].thread] # None
            \/ \E j \in 1..i - 1 : q[j].do = "thread" /\ q[j].thread = q[i].thread
  /\ \A i, j \in 1..Len(q) : (q[i].do = "queue" /\ q[j].do = "queue") => i = j

LEMMA PlanShape ==
  ASSUME TypeInv, NEW p \in Cli, PlanQueue(p)
  PROVE  \E q \in Seq(Statement) : todo' = [todo EXCEPT ![p] = q] /\ PlanShaped(q)
<1> DEFINE able == {x \in Thread : Plannable(x)}
           free == {d \in Dispatch : /\ dispatch[d] = None
                                     /\ \A h \in Handoff : d # DispatchOf(h)}
<1>1. PICK s, id : \E n \in Nat \ {0} :
           /\ s \in [1..n -> {x \in Thread : Plannable(x)}] /\ IsInjective(s)
           /\ id \in [1..n -> {d \in Dispatch : /\ dispatch[d] = None
                                                /\ \A h \in Handoff : d # DispatchOf(h)}]
           /\ IsInjective(id)
           /\ todo' = [todo EXCEPT ![p] = [m \in 1..2 * n |->
                         LET i == (m + 1) \div 2
                         IN IF m % 2 = 1
                            THEN Queue(id[i], s[i], thread[s[i]].task, "planner")
                            ELSE PutThread(s[i], [thread[s[i]] EXCEPT !.status = "queued"])]]
  BY PlanStatements
<1>2. PICK n \in Nat \ {0} :
           /\ s \in [1..n -> able] /\ IsInjective(s)
           /\ id \in [1..n -> free] /\ IsInjective(id)
           /\ todo' = [todo EXCEPT ![p] = [m \in 1..2 * n |->
                         LET i == (m + 1) \div 2
                         IN IF m % 2 = 1
                            THEN Queue(id[i], s[i], thread[s[i]].task, "planner")
                            ELSE PutThread(s[i], [thread[s[i]] EXCEPT !.status = "queued"])]]
  BY <1>1
<1> DEFINE q == [m \in 1..2 * n |->
                    LET i == (m + 1) \div 2
                    IN IF m % 2 = 1
                       THEN Queue(id[i], s[i], thread[s[i]].task, "planner")
                       ELSE PutThread(s[i], [thread[s[i]] EXCEPT !.status = "queued"])]
           half(m) == (m + 1) \div 2
<1>3. ASSUME NEW m \in 1..2 * n
      PROVE  /\ q[m] \in Statement
             /\ m % 2 = 1 => /\ q[m].do = "queue" /\ q[m].who = "planner"
                             /\ q[m].d = id[half(m)] /\ q[m].thread = s[half(m)]
                             /\ q[m].task = thread[s[half(m)]].task
             /\ m % 2 # 1 => q[m].do = "thread"
             /\ half(m) \in 1..n /\ id[half(m)] \in free /\ s[half(m)] \in able
  <2> DEFINE i == (m + 1) \div 2
  <2>1. i \in 1..n
    OBVIOUS
  <2>2. s[i] \in able /\ id[i] \in free
    BY <1>2, <2>1
  <2>3. s[i] \in Thread /\ thread[s[i]] \in ThreadRow /\ id[i] \in Dispatch
    BY <2>2 DEF Plannable, Runnable, TypeInv, TypeOK
  <2> HIDE DEF i
  <2>4. thread[s[i]].task \in Task \union {None}
    BY <2>3 DEF ThreadRow
  <2>5. [thread[s[i]] EXCEPT !.status = "queued"] \in ThreadRow
    BY <2>3 DEF ThreadRow, ThreadStatus
  <2>6. CASE m % 2 = 1
    <3>1. q[m] = Queue(id[i], s[i], thread[s[i]].task, "planner")
      BY <2>6 DEF i
    <3>2. Queue(id[i], s[i], thread[s[i]].task, "planner") \in Statement
      BY <2>3, <2>4, StatementsMade
    <3>3. half(m) = i
      BY DEF i
    <3> HIDE DEF q, half, able, free
    <3> QED BY <3>1, <3>2, <3>3, <2>1, <2>2, <2>6 DEF Queue
  <2>7. CASE m % 2 # 1
    <3>1. q[m] = PutThread(s[i], [thread[s[i]] EXCEPT !.status = "queued"])
      BY <2>7 DEF i
    <3>2. PutThread(s[i], [thread[s[i]] EXCEPT !.status = "queued"]) \in Statement
      BY <2>3, <2>5, StatementsMade
    <3>3. half(m) = i
      BY DEF i
    <3> HIDE DEF q, half, able, free
    <3> QED BY <3>1, <3>2, <3>3, <2>1, <2>2, <2>7 DEF PutThread
  <2> QED BY <2>6, <2>7
<1>4. todo' = [todo EXCEPT ![p] = q]
  BY <1>2
<1>5. q \in [1..2 * n -> Statement] /\ 2 * n \in Nat
  BY <1>3
<1>6. \A m, l \in 1..2 * n : (m % 2 = 1 /\ l % 2 = 1 /\ m # l) => half(m) # half(l)
  OBVIOUS
<1>7. \A i, j \in 1..n : i # j => s[i] # s[j] /\ id[i] # id[j]
  BY <1>2 DEF IsInjective
<1> HIDE DEF q, half
<1>8. q \in Seq(Statement) /\ Len(q) = 2 * n
  BY <1>5, SeqDef
<1>9. ASSUME NEW m \in 1..Len(q)
      PROVE  /\ q[m].do \in {"queue", "thread"}
             /\ q[m].do = "queue" => m % 2 = 1
             /\ q[m].do = "queue" =>
                     /\ q[m].who = "planner" /\ dispatch[q[m].d] = None
                     /\ \A h \in Handoff : q[m].d # DispatchOf(h)
                     /\ Plannable(q[m].thread) /\ q[m].task = thread[q[m].thread].task
  BY <1>3, <1>8, <1>9
<1>10. ASSUME NEW m \in 1..Len(q), NEW l \in 1..Len(q), q[m].do = "queue", q[l].do = "queue", m # l
       PROVE  q[m].d # q[l].d /\ q[m].thread # q[l].thread
  <2>1. half(m) # half(l)
    BY <1>6, <1>8, <1>9, <1>10
  <2> QED BY <2>1, <1>3, <1>7, <1>8, <1>9, <1>10
<1>11. PlanShaped(q)
  BY <1>9, <1>10 DEF PlanShaped
<1> QED BY <1>4, <1>8, <1>11

LEMMA SubmitShape ==
  ASSUME TypeInv, NEW p \in Process, NEW h \in Handoff, NEW x \in Thread, NEW k \in Task \union {None},
         Submit(p, h, x, k)
  PROVE  \E q \in Seq(Statement) : todo' = [todo EXCEPT ![p] = q] /\ SubmitShaped(q, h)
<1> DEFINE st == PutHandoff(h, [thread |-> x, task |-> k, dispatch |-> None])
<1>1. st \in Statement /\ st.do = "handoff" /\ st.h = h /\ st.row.dispatch = None
  BY StatementsMade DEF HandoffRow, PutHandoff
<1>2. todo' = [todo EXCEPT ![p] = <<st>>]
  BY DEF Submit
<1> HIDE DEF st
<1>3. <<st>> \in Seq(Statement) /\ Len(<<st>>) = 1 /\ <<st>>[1] = st
  BY <1>1
<1>4. SubmitShaped(<<st>>, h)
  BY <1>1, <1>3 DEF SubmitShaped
<1> QED BY <1>2, <1>3, <1>4

LEMMA MaterializeShape ==
  ASSUME TypeInv, NEW p \in Process, NEW h \in Handoff, Materialize(p, h)
  PROVE  \E q \in Seq(Statement) : todo' = [todo EXCEPT ![p] = q] /\ MaterializeShaped(q, h)
<1> DEFINE x == handoff[h].thread
           k == handoff[h].task
           d == DispatchOf(h)
           put == PutThread(x, [status |-> "queued", task |-> k])
           a == Queue(d, x, k, "handoff")
           b == Requeue(x)
           c == Attach(h, d)
<1>1. x \in Thread /\ k \in Task \union {None} /\ d \in Dispatch /\ handoff[h] # None
  BY DispatchAssumption DEF Materialize, TypeInv, TypeOK, HandoffRow
<1>2. todo' = [todo EXCEPT ![p] = (IF thread[x] = None THEN <<put>> ELSE <<>>) \o <<a, b, c>>]
  BY DEF Materialize
<1>3. [status |-> "queued", task |-> k] \in ThreadRow
  BY <1>1 DEF ThreadRow, ThreadStatus
<1>4. a \in Statement /\ b \in Statement /\ c \in Statement /\ put \in Statement
  BY <1>1, <1>3, StatementsMade
<1>5. /\ a.do = "queue" /\ a.d = d /\ a.who = "handoff"
      /\ b.do = "requeue" /\ b.thread = x
      /\ c.do = "attach" /\ c.h = h /\ c.d = d
      /\ put.do = "thread" /\ put.thread = x
  BY DEF Queue, Requeue, Attach, PutThread
<1> HIDE DEF put, a, b, c
<1>6. CASE thread[x] = None
  <2> DEFINE q == <<put, a, b, c>>
  <2>1. todo' = [todo EXCEPT ![p] = q]
    BY <1>2, <1>4, <1>6, FourStatements
  <2>2. q \in Seq(Statement) /\ Len(q) = 4
    BY <1>4
  <2>3. q[1] = put /\ q[2] = a /\ q[3] = b /\ q[4] = c
    OBVIOUS
  <2> HIDE DEF q
  <2>4. \A i \in 1..Len(q) : i \in {1, 2, 3, 4}
    BY <2>2
  <2>5. 4 \in 2 + 1..Len(q) /\ 1 \in 1..3 - 1
    BY <2>2
  <2>6. MaterializeShaped(q, h)
    BY <2>3, <2>4, <2>5, <1>5 DEF MaterializeShaped
  <2> QED BY <2>1, <2>2, <2>6
<1>7. CASE thread[x] # None
  <2> DEFINE q == <<a, b, c>>
  <2>1. todo' = [todo EXCEPT ![p] = q]
    BY <1>2, <1>4, <1>7
  <2>2. q \in Seq(Statement) /\ Len(q) = 3
    BY <1>4
  <2>3. q[1] = a /\ q[2] = b /\ q[3] = c
    OBVIOUS
  <2> HIDE DEF q
  <2>4. \A i \in 1..Len(q) : i \in {1, 2, 3}
    BY <2>2
  <2>5. 3 \in 1 + 1..Len(q)
    BY <2>2
  <2>6. MaterializeShaped(q, h)
    BY <2>3, <2>4, <2>5, <1>5, <1>7 DEF MaterializeShaped
  <2> QED BY <2>1, <2>2, <2>6
<1> QED BY <1>6, <1>7

LEMMA HandoffTypes ==
  ASSUME TypeInv,
         \/ \E p \in Cli : PlanQueue(p)
         \/ \E p \in Process, h \in Handoff, x \in Thread, k \in Task \union {None} :
              Submit(p, h, x, k)
         \/ \E p \in Process, h \in Handoff : Materialize(p, h)
  PROVE  TypeInv'
<1>1. ASSUME NEW p \in Cli, PlanQueue(p)
      PROVE  TypeInv'
  <2>1. p \in Process /\ lapse' \in SUBSET Lapses
    BY <1>1, LapsesKept DEF PlanQueue, Process, Overlap
  <2>2. PICK q \in Seq(Statement) : todo' = [todo EXCEPT ![p] = q] /\ PlanShaped(q)
    BY <1>1, PlanShape
  <2>3. todo'[p] = q
    BY <2>1, <2>2, NewStatements
  <2>4. \A i \in 1..Len(q) : Refers(p, i)'
    BY <2>2, <2>3 DEF Refers, OfExec, PlanShaped
  <2> QED BY <1>1, <2>1, <2>2, <2>4, StatementsOnly DEF PlanQueue
<1>2. ASSUME NEW p \in Process, NEW h \in Handoff, NEW x \in Thread, NEW k \in Task \union {None},
             Submit(p, h, x, k)
      PROVE  TypeInv'
  <2>1. PICK q \in Seq(Statement) : todo' = [todo EXCEPT ![p] = q] /\ SubmitShaped(q, h)
    BY <1>2, SubmitShape
  <2>2. todo'[p] = q /\ lapse' \in SUBSET Lapses
    BY <1>2, <2>1, NewStatements, LapsesKept DEF Submit, Overlap
  <2>3. \A i \in 1..Len(q) : Refers(p, i)'
    BY <2>1, <2>2 DEF Refers, OfExec, SubmitShaped
  <2> QED BY <1>2, <2>1, <2>2, <2>3, StatementsOnly DEF Submit
<1>3. ASSUME NEW p \in Process, NEW h \in Handoff, Materialize(p, h)
      PROVE  TypeInv'
  <2>1. PICK q \in Seq(Statement) : todo' = [todo EXCEPT ![p] = q] /\ MaterializeShaped(q, h)
    BY <1>3, MaterializeShape
  <2>2. todo'[p] = q /\ lapse' \in SUBSET Lapses
    <3>1. PICK more \in SUBSET {"again", "overlap"} : Begins(p, more)
      BY <1>3 DEF Materialize, Overlap
    <3> QED BY <2>1, <3>1, NewStatements, LapsesKept
  <2>3. handoff' = handoff /\ thread' = thread /\ handoff[h] # None
    BY <1>3 DEF Materialize, rows
  <2>4. \A i \in 1..Len(q) : Refers(p, i)'
    BY <2>1, <2>2, <2>3 DEF Refers, OfExec, MaterializeShaped
  <2> QED BY <1>3, <2>1, <2>2, <2>4, StatementsOnly DEF Materialize
<1> QED BY <1>1, <1>2, <1>3

\* Where an execution takes its statements from.
LEMMA ExecutionTypes ==
  ASSUME TypeInv,
         \/ \E p \in Process, d \in Dispatch, e \in Exec : RunDispatch(p, d, e)
         \/ \E e \in Exec : Runner(e)
  PROVE  TypeInv'
<1>1. ASSUME NEW p \in Process, NEW d \in Dispatch, NEW e \in Exec, RunDispatch(p, d, e)
      PROVE  TypeInv'
  <2> DEFINE f == [exec[e] EXCEPT !.pc = "accepting", !.dispatch = d, !.by = p]
             st == Accept(d, e)
  <2>1. lapse' \in SUBSET Lapses
    <3>1. Begins(p, {"again"}) \/ Begins(p, {})
      BY <1>1 DEF RunDispatch
    <3> QED BY <3>1, LapsesKept
  <2>2. f \in Execution /\ f.pc = "accepting" /\ f.dispatch = d /\ f.by = p
    BY DEF TypeInv, TypeOK, Execution, ExecPhases
  <2>3. exec' = [exec EXCEPT ![e] = f]
    BY <1>1 DEF RunDispatch
  <2>4. exec' \in [Exec -> Execution]
    BY <2>2, <2>3 DEF TypeInv, TypeOK
  <2>5. RowTypes' /\ RowsStay /\ dispatch' = dispatch
    BY <1>1, <2>1 DEF RunDispatch, TypeInv, TypeOK, RowTypes, RowsStay, rows
  <2>6. st \in Statement /\ st.do = "accept" /\ st.d = d
    BY StatementsMade DEF Accept, OfExec
  <2> HIDE DEF f, st
  <2>7. <<st>> \in Seq(Statement) /\ Len(<<st>>) = 1 /\ <<st>>[1] = st
    BY <2>6
  <2>8. todo' = [todo EXCEPT ![p] = <<st>>]
    BY <1>1 DEF RunDispatch, st
  <2>9. /\ todo' \in [Process -> Seq(Statement)] /\ todo'[p] = <<st>>
        /\ \A r \in Process : r # p => todo'[r] = todo[r]
    BY <2>7, <2>8, NewStatements
  <2>10. \A i \in 1..Len(todo'[p]) : Refers(p, i)'
    <3>1. dispatch'[st.d] # None
      BY <1>1, <2>5, <2>6 DEF RunDispatch
    <3> QED BY <3>1, <2>6, <2>7, <2>9 DEF Refers, OfExec
  <2>11. \A g \in Exec : Employed(g)'
    <3> TAKE g \in Exec
    <3>1. CASE g = e
      <4>1. exec'[e] = f
        BY <2>3 DEF TypeInv, TypeOK
      <4> QED BY <1>1, <3>1, <4>1, <2>2, <2>5 DEF Employed, RunDispatch
    <3>2. CASE g # e
      <4>1. exec'[g] = exec[g]
        BY <3>2, <2>3 DEF TypeInv, TypeOK
      <4> QED BY <4>1, <2>5, EmployedStay DEF UnderWay
    <3> QED BY <3>1, <3>2
  <2> QED BY <2>4, <2>5, <2>9, <2>10, <2>11, TypeParts
<1>2. ASSUME NEW e \in Exec, Runner(e)
      PROVE  TypeInv'
  <2> DEFINE d == exec[e].dispatch
  <2>1. exec[e] \in Execution /\ exec[e].outcome \in Outcomes
    BY DEF TypeInv, TypeOK, Execution
  <2>2. UnderWay(e)
    BY <1>2 DEF Runner, Announce, AskApproval, ChatEnds, ChatThrows, Conclude, Return, UnderWay
  <2>3. d \in Dispatch /\ exec[e].by \in Process
    BY <2>2 DEF TypeInv, Employed
  <2>4. \A t \in DispatchStatus : /\ <<Event(d, e, t)>> \in Seq(Statement)
                                  /\ \A i \in 1..Len(<<Event(d, e, t)>>) :
                                       OfExec(<<Event(d, e, t)>>[i]) /\ <<Event(d, e, t)>>[i].d = d
    <3> TAKE t \in DispatchStatus
    <3> DEFINE st == Event(d, e, t)
    <3>1. st \in Statement /\ OfExec(st) /\ st.d = d
      BY <2>3, StatementsMade DEF Event, OfExec
    <3> HIDE DEF st
    <3>2. <<st>> \in Seq(Statement) /\ \A i \in 1..Len(<<st>>) : <<st>>[i] = st
      BY <3>1
    <3> QED BY <3>1, <3>2 DEF st
  <2>5. "running" \in DispatchStatus /\ "waiting_approval" \in DispatchStatus /\ Outcomes \subseteq DispatchStatus
        /\ "failed" \in Outcomes
    BY DEF DispatchStatus, Active, Started, Settled, Outcomes
  <2>6. CASE Announce(e)
    <3>1. [exec[e] EXCEPT !.pc = "chatting"] \in Execution
      BY <2>1 DEF Execution, ExecPhases
    <3> QED BY <2>1, <2>2, <2>4, <2>5, <2>6, <3>1, ReportTypes DEF Announce, Execution
  <2>7. CASE AskApproval(e)
    <3>1. [exec[e] EXCEPT !.asked = TRUE] \in Execution
      BY <2>1 DEF Execution, ExecPhases
    <3> QED BY <2>1, <2>2, <2>4, <2>5, <2>7, <3>1, ReportTypes DEF AskApproval, Execution
  <2>8. ASSUME NEW o \in Outcomes, ChatEnds(e, o)
        PROVE  TypeInv'
    <3> DEFINE f == [exec[e] EXCEPT !.pc = "ended", !.outcome = o]
    <3>1. f \in Execution /\ f.by = exec[e].by /\ f.dispatch = d
      BY <2>1 DEF Execution, ExecPhases
    <3>2. exec' = [exec EXCEPT ![e] = f]
      BY <2>8 DEF ChatEnds
    <3> HIDE DEF f
    <3> QED BY <2>2, <2>4, <2>5, <2>8, <3>1, <3>2, ReportTypes DEF ChatEnds
  <2>9. CASE ChatThrows(e)
    <3> DEFINE f == [exec[e] EXCEPT !.pc = "reporting", !.outcome = "failed"]
    <3>1. f \in Execution /\ f.by = exec[e].by /\ f.dispatch = d
      BY <2>1, <2>5 DEF Execution, ExecPhases
    <3>2. exec' = [exec EXCEPT ![e] = f]
      BY <2>9 DEF ChatThrows
    <3> HIDE DEF f
    <3> QED BY <2>2, <2>4, <2>5, <2>9, <3>1, <3>2, ReportTypes DEF ChatThrows
  <2>10. CASE Conclude(e)
    <3> DEFINE f == [exec[e] EXCEPT !.pc = "reporting"]
               a == Results(d, e)
               b == Event(d, e, exec[e].outcome)
    <3>1. f \in Execution /\ f.by = exec[e].by /\ f.dispatch = d
      BY <2>1, <2>5 DEF Execution, ExecPhases
    <3>2. exec' = [exec EXCEPT ![e] = f]
      BY <2>10 DEF Conclude
    <3>3. a \in Statement /\ OfExec(a) /\ a.d = d
      BY <2>3, StatementsMade DEF Results, OfExec
    <3>4. b \in Statement /\ OfExec(b) /\ b.d = d
      BY <2>1, <2>3, <2>5, StatementsMade DEF Event, OfExec
    <3>5. Reports(e, <<a, b>>)
      BY <2>10 DEF Conclude
    <3> HIDE DEF f, a, b
    <3>6. <<a, b>> \in Seq(Statement) /\ \A i \in 1..Len(<<a, b>>) : <<a, b>>[i] \in {a, b}
      BY <3>3, <3>4
    <3> QED BY <2>2, <2>10, <3>1, <3>2, <3>3, <3>4, <3>5, <3>6, ReportTypes DEF Conclude
  <2>11. CASE Return(e)
    <3>1. [exec[e] EXCEPT !.pc = "done"] \in Execution
      BY <2>1 DEF Execution, ExecPhases
    <3>2. exec' \in [Exec -> Execution]
      BY <2>11, <3>1 DEF Return, TypeInv, TypeOK
    <3>3. RowTypes' /\ RowsStay /\ todo' = todo
      BY <2>11 DEF Return, TypeInv, TypeOK, RowTypes, RowsStay, rows
    <3>4. \A g \in Exec : Employed(g)'
      <4> TAKE g \in Exec
      <4>1. exec'[g].by = exec[g].by /\ exec'[g].dispatch = exec[g].dispatch /\ (UnderWay(g)' => UnderWay(g))
        BY <2>11, <2>1 DEF Return, UnderWay, TypeInv, TypeOK, Execution
      <4> QED BY <4>1, <3>3, EmployedStay
    <3> QED BY <3>2, <3>3, <3>4, TypeParts DEF TypeInv, TypeOK
  <2> QED BY <1>2, <2>6, <2>7, <2>8, <2>9, <2>10, <2>11 DEF Runner
<1> QED BY <1>1, <1>2

\* What is left when the first statement is made.
LEMMA WriteLeaves ==
  ASSUME TypeInv, NEW p \in Process, Write(p)
  PROVE  /\ Head(todo[p]) = todo[p][1] /\ todo[p][1] \in Statement /\ 1 \in 1..Len(todo[p])
         /\ todo' \in [Process -> Seq(Statement)]
         /\ Len(todo'[p]) = Len(todo[p]) - 1
         /\ \A i \in 1..Len(todo'[p]) : todo'[p][i] = todo[p][i + 1] /\ i + 1 \in 1..Len(todo[p])
         /\ \A r \in Process : r # p => todo'[r] = todo[r]
<1>1. todo[p] \in Seq(Statement) /\ todo[p] # <<>> /\ todo' = [todo EXCEPT ![p] = Tail(todo[p])]
  BY DEF Write, TypeInv, TypeOK
<1>2. todo'[p] = Tail(todo[p])
  BY <1>1 DEF TypeInv, TypeOK
<1>3. Len(todo[p]) \in Nat \ {0} /\ todo[p][1] \in Statement
  BY <1>1, EmptySeq, ElementOfSeq
<1> QED BY <1>1, <1>2, <1>3, PendingTail DEF TypeInv, TypeOK

LEMMA WriteTypes ==
  ASSUME TypeInv, NEW p \in Process, Write(p)
  PROVE  TypeInv' /\ RowsStay
<1> DEFINE s == todo[p][1]
<1>1. /\ s \in Statement /\ Refers(p, 1)
      /\ \/ WriteQueue(s)   \/ WriteThread(s)  \/ WriteRequeue(s) \/ WriteAttach(s)
         \/ WriteHandoff(s) \/ WriteAccept(s)  \/ WriteEvent(s)   \/ WriteResults(s)
  BY WriteLeaves DEF Write, TypeInv
<1>2. UNCHANGED <<exec, lapse>>
  BY DEF Write
<1>3. RowTypes' /\ RowsStay
  <2>1. CASE WriteQueue(s)
    <3>1. NewRow(s.thread, s.task) \in DispatchRow /\ s.d \in Dispatch
      BY <2>1, <1>1, StatementKinds DEF WriteQueue, NewRow, DispatchRow, DispatchStatus, Active
    <3> QED BY <2>1, <1>2, <3>1, NoneIsNoRow DEF WriteQueue, TypeInv, TypeOK, RowTypes, RowsStay
  <2>2. CASE WriteThread(s)
    <3>1. s.row \in ThreadRow /\ s.thread \in Thread
      BY <2>2, <1>1, StatementKinds DEF WriteThread
    <3> QED BY <2>2, <1>2, <3>1, NoneIsNoRow DEF WriteThread, TypeInv, TypeOK, RowTypes, RowsStay
  <2>3. CASE WriteRequeue(s)
    <3>1. s.thread \in Thread
      BY <2>3, <1>1, StatementKinds DEF WriteRequeue
    <3>2. thread[s.thread] \in ThreadRow
      BY <2>3, <1>1, <3>1 DEF WriteRequeue, Refers, TypeInv, TypeOK
    <3>3. [thread[s.thread] EXCEPT !.status = "queued"] \in ThreadRow
      BY <3>2 DEF ThreadRow, ThreadStatus
    <3> QED BY <2>3, <1>2, <3>1, <3>3, NoneIsNoRow DEF WriteRequeue, TypeInv, TypeOK, RowTypes, RowsStay
  <2>4. CASE WriteAttach(s)
    <3>1. s.h \in Handoff /\ s.d \in Dispatch
      BY <2>4, <1>1, StatementKinds DEF WriteAttach
    <3>2. handoff[s.h] \in HandoffRow
      BY <2>4, <1>1, <3>1 DEF WriteAttach, Refers, TypeInv, TypeOK
    <3>3. [handoff[s.h] EXCEPT !.dispatch = s.d] \in HandoffRow
      BY <3>1, <3>2 DEF HandoffRow
    <3> QED BY <2>4, <1>2, <3>1, <3>3, NoneIsNoRow DEF WriteAttach, TypeInv, TypeOK, RowTypes, RowsStay
  <2>5. CASE WriteHandoff(s)
    <3>1. s.h \in Handoff /\ s.row \in HandoffRow
      BY <2>5, <1>1, StatementKinds DEF WriteHandoff
    <3> QED BY <2>5, <1>2, <3>1, NoneIsNoRow DEF WriteHandoff, TypeInv, TypeOK, RowTypes, RowsStay
  <2>6. CASE WriteAccept(s)
    <3>1. s.d \in Dispatch /\ s.e \in Exec
      BY <2>6, <1>1, StatementKinds DEF WriteAccept
    <3>2. dispatch[s.d] \in DispatchRow
      BY <2>6, <1>1, <3>1 DEF WriteAccept, Refers, OfExec, TypeInv, TypeOK
    <3> DEFINE row == [dispatch[s.d] EXCEPT !.status = "accepted", !.exec = s.e]
    <3>3. row \in DispatchRow
      BY <3>1, <3>2 DEF DispatchRow, DispatchStatus, Active, Started
    <3>4. dispatch' = [dispatch EXCEPT ![s.d] = row] /\ UNCHANGED <<task, thread, handoff, artifact, planned>>
      BY <2>6 DEF WriteAccept
    <3> HIDE DEF row
    <3> QED BY <1>2, <3>1, <3>3, <3>4, NoneIsNoRow DEF TypeInv, TypeOK, RowTypes, RowsStay
  <2>7. CASE WriteEvent(s)
    <3>1. s.d \in Dispatch /\ s.e \in Exec /\ s.status \in DispatchStatus
      BY <2>7, <1>1, StatementKinds DEF WriteEvent
    <3>2. dispatch[s.d] \in DispatchRow
      BY <2>7, <1>1, <3>1 DEF WriteEvent, Refers, OfExec, TypeInv, TypeOK
    <3> DEFINE row == [dispatch[s.d] EXCEPT !.status = s.status, !.exec = s.e]
    <3>3. row \in DispatchRow
      BY <3>1, <3>2 DEF DispatchRow
    <3>4. dispatch' = [dispatch EXCEPT ![s.d] = row] /\ UNCHANGED <<task, thread, handoff, artifact, planned>>
      BY <2>7 DEF WriteEvent
    <3> HIDE DEF row
    <3> QED BY <1>2, <3>1, <3>3, <3>4, NoneIsNoRow DEF TypeInv, TypeOK, RowTypes, RowsStay
  <2>8. CASE WriteResults(s)
    <3>1. s.d \in Dispatch /\ s.e \in Exec
      BY <2>8, <1>1, StatementKinds DEF WriteResults
    <3> QED BY <2>8, <1>2, <3>1 DEF WriteResults, TypeInv, TypeOK, RowTypes, RowsStay
  <2> QED BY <1>1, <2>1, <2>2, <2>3, <2>4, <2>5, <2>6, <2>7, <2>8
<1>4. ASSUME NEW i \in 1..Len(todo'[p])
      PROVE  Refers(p, i)'
  <2> DEFINE t == todo[p][i + 1]
  <2>1. todo'[p][i] = t /\ i + 1 \in 1..Len(todo[p]) /\ t \in Statement /\ Refers(p, i + 1) /\ i \in Nat \ {0}
    BY <1>4, WriteLeaves DEF TypeInv, TypeOK
  <2>2. OfExec(t) => dispatch'[t.d] # None
    BY <2>1, <1>3, StatementKinds DEF Refers, RowsStay, OfExec
  <2>3. t.do = "attach" => handoff'[t.h] # None
    BY <2>1, <1>3, StatementKinds DEF Refers, RowsStay
  <2>4. ASSUME t.do = "requeue", thread'[t.thread] = None
        PROVE  \E j \in 1..i - 1 : todo'[p][j].do = "thread" /\ todo'[p][j].thread = t.thread
    <3>1. thread[t.thread] = None /\ t.thread \in Thread
      BY <2>1, <2>4, <1>3, StatementKinds DEF RowsStay
    <3>2. PICK j \in 1..i : todo[p][j].do = "thread" /\ todo[p][j].thread = t.thread
      BY <2>1, <2>4, <3>1 DEF Refers
    <3>3. j # 1
      <4> SUFFICES ASSUME j = 1 PROVE FALSE
        OBVIOUS
      <4>1. WriteThread(s)
        BY <1>1, <3>2 DEF WriteQueue, WriteRequeue, WriteAttach, WriteHandoff, WriteAccept, WriteEvent, WriteResults
      <4>2. s.row \in ThreadRow /\ s.thread = t.thread
        BY <3>2, <1>1, StatementKinds
      <4> QED BY <4>1, <4>2, <3>1, <2>4, NoneIsNoRow DEF WriteThread, TypeInv, TypeOK
    <3>4. j - 1 \in 1..i - 1 /\ todo'[p][j - 1] = todo[p][j]
      <4> DEFINE k == j - 1
      <4>1. k \in 1..i - 1 /\ k + 1 = j
        BY <3>2, <3>3, <2>1
      <4>2. k \in 1..Len(todo'[p])
        BY <4>1, <1>4, <2>1, WriteLeaves DEF TypeInv, TypeOK
      <4>3. todo'[p][k] = todo[p][k + 1]
        BY <4>2, WriteLeaves
      <4> QED BY <4>1, <4>3
    <3> QED BY <3>2, <3>4
  <2> QED BY <2>1, <2>2, <2>3, <2>4 DEF Refers, OfExec
<1>5. \A e \in Exec : Employed(e)'
  BY <1>2, <1>3, EmployedStay DEF UnderWay
<1>6. exec' \in [Exec -> Execution]
  BY <1>2 DEF TypeInv, TypeOK
<1> QED BY <1>3, <1>4, <1>5, <1>6, WriteLeaves, TypeParts

LEMMA CrashTypes ==
  ASSUME TypeInv, NEW p \in Process, Crash(p)
  PROVE  TypeInv'
<1>1. RowTypes' /\ RowsStay
  BY DEF Crash, Lapses, TypeInv, TypeOK, RowTypes, RowsStay, rows
<1>2. /\ todo' \in [Process -> Seq(Statement)] /\ todo'[p] = <<>>
      /\ \A r \in Process : r # p => todo'[r] = todo[r]
  BY DEF Crash, TypeInv, TypeOK
<1>3. ASSUME NEW e \in Exec
      PROVE  /\ exec'[e] \in Execution /\ exec'[e].by = exec[e].by /\ exec'[e].dispatch = exec[e].dispatch
             /\ UnderWay(e)' => UnderWay(e)
  <2>1. exec[e] \in Execution
    BY DEF TypeInv, TypeOK
  <2>2. exec'[e] = IF exec[e].by = p /\ UnderWay(e) THEN [exec[e] EXCEPT !.pc = "dead"] ELSE exec[e]
    BY DEF Crash
  <2> QED BY <2>1, <2>2 DEF Execution, ExecPhases, UnderWay
<1>4. exec' \in [Exec -> Execution]
  BY <1>3 DEF Crash
<1>5. \A e \in Exec : Employed(e)'
  BY <1>1, <1>3, EmployedStay
<1>6. \A i \in 1..Len(todo'[p]) : FALSE
  BY <1>2
<1> QED BY <1>1, <1>2, <1>4, <1>5, <1>6, TypeParts

LEMMA InitTypes == Init => TypeInv
<1> SUFFICES ASSUME Init PROVE TypeInv
  OBVIOUS
<1>1. NoExec \in Execution /\ NoExec.pc = "free"
  BY DEF NoExec, Execution, ExecPhases, Outcomes
<1>2. TypeOK
  BY <1>1 DEF Init, TypeOK, Lapses
<1>3. \A p \in Process : Len(todo[p]) = 0
  BY DEF Init
<1> QED BY <1>1, <1>2, <1>3 DEF TypeInv, Init, Employed, UnderWay

LEMMA TypeStep == TypeInv /\ [Next]_vars => TypeInv'
<1> SUFFICES ASSUME TypeInv, [Next]_vars PROVE TypeInv'
  OBVIOUS
<1>1. CASE UNCHANGED vars
  <2>1. RowTypes' /\ RowsStay
    BY <1>1 DEF vars, rows, TypeInv, TypeOK, RowTypes, RowsStay
  <2> QED BY <1>1, <2>1, RowsOnly DEF vars
<1>2. CASE Next
  BY <1>2, OperationTypes, HandoffTypes, ExecutionTypes, WriteTypes, CrashTypes DEF Next
<1> QED BY <1>1, <1>2

\* The variables of project work keep their types: no statement is about a row
\* that is not there.
THEOREM DispatchTypesCorrect == Spec => []TypeOK
<1>1. TypeInv => TypeOK
  BY DEF TypeInv
<1> QED BY <1>1, InitTypes, TypeStep, PTL DEF Spec

-----------------------------------------------------------------------------
(* Executions settle their dispatches. *)

\* A statement that stays, of an execution that stays in its phase.
LEMMA PhasedStays ==
  ASSUME TypeInv, ExecInv, NEW r \in Process, NEW i \in 1..Len(todo[r]), todo'[r] = todo[r],
         OfExec(todo[r][i]) => exec'[todo[r][i].e] = exec[todo[r][i].e]
  PROVE  Phased(r, i)'
  BY DEF ExecInv, Phased, OfExec

\* What an execution with nothing left to write does.
LEMMA ExecutionMoves ==
  ASSUME TypeInv, ExecInv, NEW p \in Process, NEW e \in Exec, NEW q \in Seq(Statement),
         NEW f \in Execution,
         todo[p] = <<>>, todo' = [todo EXCEPT ![p] = q], exec' = [exec EXCEPT ![e] = f],
         f.pc \notin {"free", "dead"}, dispatch' = dispatch, lapse \subseteq lapse',
         \A d \in Dispatch : (dispatch[d] # None /\ dispatch[d].exec = e) => f.dispatch = d,
         \A r \in Process : \A i \in 1..Len(todo[r]) : OfExec(todo[r][i]) => todo[r][i].e # e,
         \A i \in 1..Len(q) : Phased(p, i)',
         Reported(e)'
  PROVE  ExecInv'
<1>1. /\ todo'[p] = q
      /\ \A r \in Process : r # p => todo'[r] = todo[r]
  BY NewStatements
<1>2. /\ exec'[e] = f
      /\ \A g \in Exec : g # e => exec'[g] = exec[g]
  BY DEF TypeInv, TypeOK
<1>3. ASSUME NEW r \in Process, NEW i \in 1..Len(todo'[r])
      PROVE  Phased(r, i)'
  <2>1. CASE r = p
    BY <2>1, <1>1, <1>3
  <2>2. CASE r # p
    <3>1. todo'[r] = todo[r] /\ todo[r][i] \in Statement
      BY <2>2, <1>1, <1>3 DEF TypeInv, TypeOK
    <3>2. OfExec(todo[r][i]) => exec'[todo[r][i].e] = exec[todo[r][i].e]
      BY <3>1, <1>2, <1>3, StatementKinds DEF OfExec
    <3> QED BY <3>1, <3>2, <1>3, PhasedStays
  <2> QED BY <2>1, <2>2
<1>4. ASSUME NEW d \in Dispatch
      PROVE  Named(d)'
  <2>1. dispatch[d] # None => dispatch[d].exec \in Exec \union {None}
    BY DEF TypeInv, TypeOK, DispatchRow
  <2>2. Named(d)
    BY DEF ExecInv
  <2> QED BY <2>1, <2>2, <1>2 DEF Named
<1>5. ASSUME NEW g \in Exec
      PROVE  Reported(g)'
  <2>1. CASE g = e
    BY <2>1
  <2>2. CASE g # e
    <3>1. exec'[g] = exec[g] /\ Reported(g)
      BY <2>2, <1>2 DEF ExecInv
    <3>2. exec[g].by \in Process /\ todo[exec[g].by] # <<>> => todo'[exec[g].by] = todo[exec[g].by]
      BY <1>1
    <3> QED BY <3>1, <3>2 DEF Reported
  <2> QED BY <2>1, <2>2
<1>6. \A g \in Exec : exec'[g].pc = "dead" => "crash" \in lapse'
  BY <1>2 DEF ExecInv
<1> QED BY <1>3, <1>4, <1>5, <1>6 DEF ExecInv

\* Operations and stutters leave executions and their statements alone.
LEMMA RowsStep ==
  ASSUME TypeInv, ExecInv, exec' = exec, todo' = todo, lapse \subseteq lapse',
         \A d \in Dispatch :
           \/ dispatch'[d] = dispatch[d]
           \/ dispatch'[d].exec = None /\ dispatch'[d].status \notin Started
           \/ /\ dispatch[d] # None /\ dispatch'[d].exec = dispatch[d].exec
              /\ dispatch'[d].status \notin Started
  PROVE  ExecInv'
<1>1. \A r \in Process : \A i \in 1..Len(todo[r]) : Phased(r, i)'
  BY PhasedStays
<1>2. \A d \in Dispatch : Named(d)'
  BY DEF ExecInv, Named
<1>3. ASSUME NEW e \in Exec
      PROVE  Reported(e)'
  <2>1. Reported(e)
    BY DEF ExecInv
  <2>2. None \notin Exec
    BY DispatchAssumption
  <2> QED BY <2>1, <2>2 DEF Reported
<1> QED BY <1>1, <1>2, <1>3 DEF ExecInv

\* Operations that leave statements to be made, none of them an execution's.
LEMMA StatementsStep ==
  ASSUME TypeInv, ExecInv, NEW p \in Process, NEW q \in Seq(Statement), todo[p] = <<>>,
         todo' = [todo EXCEPT ![p] = q], exec' = exec, dispatch' = dispatch, lapse \subseteq lapse',
         \A i \in 1..Len(q) : ~OfExec(q[i])
  PROVE  ExecInv'
<1>1. /\ todo'[p] = q
      /\ \A r \in Process : r # p => todo'[r] = todo[r]
  BY NewStatements
<1>2. ASSUME NEW r \in Process, NEW i \in 1..Len(todo'[r])
      PROVE  Phased(r, i)'
  <2>1. CASE r = p
    BY <2>1, <1>1, <1>2 DEF Phased, OfExec
  <2>2. CASE r # p
    BY <2>2, <1>1, <1>2, PhasedStays
  <2> QED BY <2>1, <2>2
<1>3. \A d \in Dispatch : Named(d)'
  BY DEF ExecInv, Named
<1>4. \A e \in Exec : Reported(e)'
  BY <1>1 DEF ExecInv, Reported
<1> QED BY <1>2, <1>3, <1>4 DEF ExecInv

LEMMA OperationsKeepExec ==
  ASSUME TypeInv, ExecInv,
         \/ \E p \in Cli, k \in Task : TaskStatus(p, k)
         \/ \E p \in Cli, x \in Thread, s \in ThreadStatus, k \in Task \union {None} :
              ThreadCreate(p, x, s, k)
         \/ \E p \in Process, d \in Dispatch, x \in Thread, k \in Task \union {None} :
              QueueDispatch(p, d, x, k)
         \/ \E d \in Dispatch : CancelDispatch(d)
         \/ \E p \in Cli : PlanQueue(p)
         \/ \E p \in Process, h \in Handoff, x \in Thread, k \in Task \union {None} :
              Submit(p, h, x, k)
         \/ \E p \in Process, h \in Handoff : Materialize(p, h)
  PROVE  ExecInv'
<1>1. ASSUME NEW p \in Cli, NEW k \in Task, TaskStatus(p, k)
      PROVE  ExecInv'
  BY <1>1, RowsStep DEF TaskStatus, Begins
<1>2. ASSUME NEW p \in Cli, NEW x \in Thread, NEW s \in ThreadStatus, NEW k \in Task \union {None},
             ThreadCreate(p, x, s, k)
      PROVE  ExecInv'
  BY <1>2, RowsStep DEF ThreadCreate, Begins
<1>3. ASSUME NEW p \in Process, NEW d \in Dispatch, NEW x \in Thread, NEW k \in Task \union {None},
             QueueDispatch(p, d, x, k)
      PROVE  ExecInv'
  <2> DEFINE row == NewRow(x, IF k = None THEN thread[x].task ELSE k)
  <2>1. row.exec = None /\ row.status \notin Started
    BY DEF NewRow, Started
  <2>2. dispatch' = [dispatch EXCEPT ![d] = row] /\ lapse \subseteq lapse' /\ exec' = exec /\ todo' = todo
    BY <1>3 DEF QueueDispatch, Begins
  <2> HIDE DEF row
  <2>3. \A c \in Dispatch : dispatch'[c] = IF c = d THEN row ELSE dispatch[c]
    BY <2>2 DEF TypeInv, TypeOK
  <2> QED BY <2>1, <2>2, <2>3, RowsStep
<1>4. ASSUME NEW d \in Dispatch, CancelDispatch(d)
      PROVE  ExecInv'
  <2>1. dispatch[d] # None /\ dispatch[d] \in DispatchRow
    BY <1>4 DEF CancelDispatch, TypeInv, TypeOK
  <2>2. lapse \subseteq lapse' /\ exec' = exec /\ todo' = todo
    BY <1>4 DEF CancelDispatch, Begins
  <2>3. \A c \in Dispatch : dispatch'[c] = IF c = d THEN [dispatch[d] EXCEPT !.status = "cancelled"] ELSE dispatch[c]
    BY <1>4 DEF CancelDispatch, TypeInv, TypeOK
  <2>4. dispatch'[d].exec = dispatch[d].exec /\ dispatch'[d].status \notin Started
    BY <2>1, <2>3 DEF Started, DispatchRow
  <2> QED BY <2>1, <2>2, <2>3, <2>4, RowsStep
<1>5. ASSUME NEW p \in Cli, PlanQueue(p)
      PROVE  ExecInv'
  <2>1. PICK q \in Seq(Statement) : todo' = [todo EXCEPT ![p] = q] /\ PlanShaped(q)
    BY <1>5, PlanShape
  <2> QED BY <1>5, <2>1, StatementsStep DEF PlanQueue, Process, Begins, Free, PlanShaped, OfExec, rows
<1>6. ASSUME NEW p \in Process, NEW h \in Handoff, NEW x \in Thread, NEW k \in Task \union {None},
             Submit(p, h, x, k)
      PROVE  ExecInv'
  <2>1. PICK q \in Seq(Statement) : todo' = [todo EXCEPT ![p] = q] /\ SubmitShaped(q, h)
    BY <1>6, SubmitShape
  <2> QED BY <1>6, <2>1, StatementsStep DEF Submit, Begins, Free, SubmitShaped, OfExec, rows
<1>7. ASSUME NEW p \in Process, NEW h \in Handoff, Materialize(p, h)
      PROVE  ExecInv'
  <2>1. PICK q \in Seq(Statement) : todo' = [todo EXCEPT ![p] = q] /\ MaterializeShaped(q, h)
    BY <1>7, MaterializeShape
  <2>2. todo[p] = <<>> /\ lapse \subseteq lapse' /\ exec' = exec /\ dispatch' = dispatch
    BY <1>7 DEF Materialize, Begins, Free, rows
  <2>3. \A i \in 1..Len(q) : ~OfExec(q[i])
    BY <2>1 DEF MaterializeShaped, OfExec
  <2> QED BY <2>1, <2>2, <2>3, StatementsStep
<1> QED BY <1>1, <1>2, <1>3, <1>4, <1>5, <1>6, <1>7

\* The statements of an execution are in its process.
LEMMA StatementsAtHome ==
  ASSUME TypeInv, ExecInv, NEW e \in Exec,
         exec[e].pc = "free" \/ (exec[e].by \in Process /\ todo[exec[e].by] = <<>>)
  PROVE  \A r \in Process : \A i \in 1..Len(todo[r]) : OfExec(todo[r][i]) => todo[r][i].e # e
<1> SUFFICES ASSUME NEW r \in Process, NEW i \in 1..Len(todo[r]), OfExec(todo[r][i]), todo[r][i].e = e
             PROVE  FALSE
  OBVIOUS
<1>1. Phased(r, i)
  BY DEF ExecInv
<1>2. exec[e].by = r /\ exec[e].pc # "free"
  BY <1>1 DEF Phased, OfExec, Outcomes
<1>3. Len(todo[r]) # 0
  BY DEF TypeInv, TypeOK
<1> QED BY <1>2, <1>3

\* A report, and the phase it takes the execution to.
LEMMA ReportMoves ==
  ASSUME TypeInv, ExecInv, NEW e \in Exec, UnderWay(e), NEW q \in Seq(Statement), Reports(e, q),
         NEW f \in Execution, exec' = [exec EXCEPT ![e] = f],
         f.by = exec[e].by, f.dispatch = exec[e].dispatch, f.pc \notin {"free", "dead", "done"},
         UNCHANGED <<rows, lapse>>,
         \A i \in 1..Len(q) :
           /\ q[i].e = e /\ q[i].d = exec[e].dispatch
           /\ \/ q[i].do = "results" /\ f.pc = "reporting"
              \/ /\ q[i].do = "event"
                 /\ \/ q[i].status \in {"running", "waiting_approval"} /\ f.pc = "chatting"
                    \/ q[i].status \in Outcomes /\ f.pc \in {"ended", "reporting"},
         f.pc = "reporting" =>
           q # <<>> /\ q[Len(q)].do = "event" /\ q[Len(q)].status \in Outcomes
  PROVE  ExecInv'
<1> DEFINE d == exec[e].dispatch
           o == IF IsCancelled(d) THEN <<>> ELSE q
<1>1. d \in Dispatch /\ dispatch[d] # None
  BY DEF TypeInv, Employed
<1> PICK p \in Process : p = exec[e].by
  BY DEF TypeInv, Employed
<1>2. o \in Seq(Statement) /\ todo' = [todo EXCEPT ![p] = o] /\ todo[p] = <<>>
  BY DEF Reports
<1>3. exec'[e] = f /\ dispatch' = dispatch
  BY DEF TypeInv, TypeOK, rows
<1>4. \A r \in Process : \A i \in 1..Len(todo[r]) : OfExec(todo[r][i]) => todo[r][i].e # e
  BY <1>1, <1>2, StatementsAtHome
<1>5. \A c \in Dispatch : (dispatch[c] # None /\ dispatch[c].exec = e) => f.dispatch = c
  BY DispatchAssumption DEF ExecInv, Named
<1>6. todo'[p] = o
  BY <1>1, <1>2, NewStatements
<1>7. \A i \in 1..Len(o) : o = q
  OBVIOUS
<1>8. \A i \in 1..Len(o) : Phased(p, i)'
  BY <1>3, <1>6, <1>7 DEF Phased, OfExec, Outcomes
<1>9. Reported(e)'
  <2>1. CASE IsCancelled(d)
    BY <2>1, <1>3 DEF Reported, IsCancelled, Started
  <2>2. CASE ~IsCancelled(d)
    <3>1. o = q
      BY <2>2
    <3>2. q # <<>> => Len(q) \in 1..Len(q)
      OBVIOUS
    <3> QED BY <3>1, <3>2, <1>1, <1>3, <1>6 DEF Reported
  <2> QED BY <2>1, <2>2
<1>10. lapse \subseteq lapse'
  OBVIOUS
<1> HIDE DEF o, d
<1> QED BY <1>1, <1>2, <1>3, <1>4, <1>5, <1>8, <1>9, <1>10, ExecutionMoves

LEMMA ExecutionsKeepExec ==
  ASSUME TypeInv, ExecInv,
         \/ \E p \in Process, d \in Dispatch, e \in Exec : RunDispatch(p, d, e)
         \/ \E e \in Exec : Runner(e)
  PROVE  ExecInv'
<1>1. ASSUME NEW p \in Process, NEW d \in Dispatch, NEW e \in Exec, RunDispatch(p, d, e)
      PROVE  ExecInv'
  <2> DEFINE f == [exec[e] EXCEPT !.pc = "accepting", !.dispatch = d, !.by = p]
             st == Accept(d, e)
  <2>1. f \in Execution /\ f.pc = "accepting" /\ f.dispatch = d /\ f.by = p
    BY DEF TypeInv, TypeOK, Execution, ExecPhases
  <2>2. exec' = [exec EXCEPT ![e] = f] /\ exec[e].pc = "free" /\ todo[p] = <<>>
    BY <1>1 DEF RunDispatch, Begins, Free
  <2>3. dispatch' = dispatch /\ lapse \subseteq lapse'
    BY <1>1 DEF RunDispatch, Begins, rows
  <2>4. st \in Statement /\ st.do = "accept" /\ st.d = d /\ st.e = e
    BY StatementsMade DEF Accept
  <2>5. todo' = [todo EXCEPT ![p] = <<st>>]
    BY <1>1 DEF RunDispatch
  <2> HIDE DEF f, st
  <2>6. <<st>> \in Seq(Statement) /\ Len(<<st>>) = 1 /\ <<st>>[1] = st
    BY <2>4
  <2>7. todo'[p] = <<st>> /\ exec'[e] = f
    BY <2>2, <2>5, <2>6, NewStatements DEF TypeInv, TypeOK
  <2>8. \A c \in Dispatch : (dispatch[c] # None /\ dispatch[c].exec = e) => f.dispatch = c
    BY <2>2, DispatchAssumption DEF ExecInv, Named
  <2>9. \A r \in Process : \A i \in 1..Len(todo[r]) : OfExec(todo[r][i]) => todo[r][i].e # e
    BY <2>2, StatementsAtHome
  <2>10. \A i \in 1..Len(<<st>>) : Phased(p, i)'
    BY <2>1, <2>4, <2>6, <2>7 DEF Phased, OfExec
  <2>11. Reported(e)'
    BY <2>1, <2>7 DEF Reported
  <2> QED BY <2>1, <2>2, <2>3, <2>5, <2>6, <2>8, <2>9, <2>10, <2>11, ExecutionMoves
<1>2. ASSUME NEW e \in Exec, Runner(e)
      PROVE  ExecInv'
  <2> DEFINE d == exec[e].dispatch
  <2>1. exec[e] \in Execution /\ exec[e].outcome \in Outcomes
    BY DEF TypeInv, TypeOK, Execution
  <2>2. UnderWay(e)
    BY <1>2 DEF Runner, Announce, AskApproval, ChatEnds, ChatThrows, Conclude, Return, UnderWay
  <2>3. d \in Dispatch /\ exec[e].by \in Process
    BY <2>2 DEF TypeInv, Employed
  <2>4. \A t \in DispatchStatus :
          /\ <<Event(d, e, t)>> \in Seq(Statement) /\ <<Event(d, e, t)>> # <<>>
          /\ Len(<<Event(d, e, t)>>) = 1
          /\ <<Event(d, e, t)>>[1].do = "event" /\ <<Event(d, e, t)>>[1].e = e
          /\ <<Event(d, e, t)>>[1].d = d /\ <<Event(d, e, t)>>[1].status = t
    <3> TAKE t \in DispatchStatus
    <3> DEFINE st == Event(d, e, t)
    <3>1. st \in Statement /\ st.do = "event" /\ st.d = d /\ st.e = e /\ st.status = t
      BY <2>3, StatementsMade DEF Event
    <3> HIDE DEF st
    <3>2. /\ <<st>> \in Seq(Statement) /\ <<st>> # <<>> /\ Len(<<st>>) = 1 /\ <<st>>[1] = st
      BY <3>1
    <3> QED BY <3>1, <3>2 DEF st
  <2>5. "running" \in DispatchStatus /\ "waiting_approval" \in DispatchStatus /\ Outcomes \subseteq DispatchStatus
        /\ "failed" \in Outcomes
    BY DEF DispatchStatus, Active, Started, Settled, Outcomes
  <2>6. CASE Announce(e)
    <3> DEFINE f == [exec[e] EXCEPT !.pc = "chatting"]
               q == <<Event(d, e, "running")>>
    <3>1. f \in Execution /\ f.pc = "chatting" /\ f.by = exec[e].by /\ f.dispatch = d
      BY <2>1 DEF Execution, ExecPhases
    <3>2. exec' = [exec EXCEPT ![e] = f] /\ Reports(e, q) /\ UNCHANGED <<rows, lapse>>
      BY <2>6 DEF Announce
    <3>3. /\ q \in Seq(Statement) /\ Len(q) = 1 /\ q[1].do = "event" /\ q[1].e = e
          /\ q[1].d = d /\ q[1].status = "running"
      BY <2>4, <2>5
    <3> HIDE DEF f, q
    <3>4. \A i \in 1..Len(q) : i = 1
      BY <3>3
    <3> QED BY <2>2, <3>1, <3>2, <3>3, <3>4, ReportMoves
  <2>7. CASE AskApproval(e)
    <3> DEFINE f == [exec[e] EXCEPT !.asked = TRUE]
               q == <<Event(d, e, "waiting_approval")>>
    <3>1. f \in Execution /\ f.pc = "chatting" /\ f.by = exec[e].by /\ f.dispatch = d
      BY <2>1, <2>7 DEF AskApproval, Execution, ExecPhases
    <3>2. exec' = [exec EXCEPT ![e] = f] /\ Reports(e, q) /\ UNCHANGED <<rows, lapse>>
      BY <2>7 DEF AskApproval
    <3>3. /\ q \in Seq(Statement) /\ Len(q) = 1 /\ q[1].do = "event" /\ q[1].e = e
          /\ q[1].d = d /\ q[1].status = "waiting_approval"
      BY <2>4, <2>5
    <3> HIDE DEF f, q
    <3>4. \A i \in 1..Len(q) : i = 1
      BY <3>3
    <3> QED BY <2>2, <3>1, <3>2, <3>3, <3>4, ReportMoves
  <2>8. ASSUME NEW o \in Outcomes, ChatEnds(e, o)
        PROVE  ExecInv'
    <3> DEFINE f == [exec[e] EXCEPT !.pc = "ended", !.outcome = o]
               q == <<Event(d, e, o)>>
    <3>1. f \in Execution /\ f.pc = "ended" /\ f.by = exec[e].by /\ f.dispatch = d
      BY <2>1 DEF Execution, ExecPhases
    <3>2. exec' = [exec EXCEPT ![e] = f] /\ Reports(e, q) /\ UNCHANGED <<rows, lapse>>
      BY <2>8 DEF ChatEnds
    <3>3. /\ q \in Seq(Statement) /\ Len(q) = 1 /\ q[1].do = "event" /\ q[1].e = e
          /\ q[1].d = d /\ q[1].status = o
      BY <2>4, <2>5
    <3> HIDE DEF f, q
    <3>4. \A i \in 1..Len(q) : i = 1
      BY <3>3
    <3> QED BY <2>2, <3>1, <3>2, <3>3, <3>4, ReportMoves
  <2>9. CASE ChatThrows(e)
    <3> DEFINE f == [exec[e] EXCEPT !.pc = "reporting", !.outcome = "failed"]
               q == <<Event(d, e, "failed")>>
    <3>1. f \in Execution /\ f.pc = "reporting" /\ f.by = exec[e].by /\ f.dispatch = d
      BY <2>1, <2>5 DEF Execution, ExecPhases
    <3>2. exec' = [exec EXCEPT ![e] = f] /\ Reports(e, q) /\ UNCHANGED <<rows, lapse>>
      BY <2>9 DEF ChatThrows
    <3>3. /\ q \in Seq(Statement) /\ Len(q) = 1 /\ q[1].do = "event" /\ q[1].e = e
          /\ q[1].d = d /\ q[1].status = "failed" /\ q # <<>>
      BY <2>4, <2>5
    <3> HIDE DEF f, q
    <3>4. \A i \in 1..Len(q) : i = 1
      BY <3>3
    <3>5. q # <<>> /\ q[Len(q)].do = "event" /\ q[Len(q)].status \in Outcomes /\ q[1].status \in Outcomes
      BY <2>5, <3>3
    <3> QED BY <2>2, <3>1, <3>2, <3>3, <3>4, <3>5, ReportMoves
  <2>10. CASE Conclude(e)
    <3> DEFINE f == [exec[e] EXCEPT !.pc = "reporting"]
               a == Results(d, e)
               b == Event(d, e, exec[e].outcome)
               q == <<a, b>>
    <3>1. f \in Execution /\ f.pc = "reporting" /\ f.by = exec[e].by /\ f.dispatch = d
      BY <2>1 DEF Execution, ExecPhases
    <3>2. exec' = [exec EXCEPT ![e] = f] /\ Reports(e, q) /\ UNCHANGED <<rows, lapse>>
      BY <2>10 DEF Conclude
    <3>3. a \in Statement /\ a.do = "results" /\ a.d = d /\ a.e = e
      BY <2>3, StatementsMade DEF Results
    <3>4. b \in Statement /\ b.do = "event" /\ b.d = d /\ b.e = e /\ b.status \in Outcomes
      BY <2>1, <2>3, <2>5, StatementsMade DEF Event
    <3> HIDE DEF a, b
    <3>5. q \in Seq(Statement) /\ Len(q) = 2 /\ q[1] = a /\ q[2] = b /\ q # <<>>
      BY <3>3, <3>4
    <3> HIDE DEF f, q
    <3>6. \A i \in 1..Len(q) : i = 1 \/ i = 2
      BY <3>5
    <3> QED BY <2>2, <3>1, <3>2, <3>3, <3>4, <3>5, <3>6, ReportMoves
  <2>11. CASE Return(e)
    <3> DEFINE f == [exec[e] EXCEPT !.pc = "done"]
    <3> PICK p \in Process : p = exec[e].by
      BY <2>3
    <3>1. f \in Execution /\ f.pc = "done" /\ f.by = exec[e].by /\ f.dispatch = d
      BY <2>1 DEF Execution, ExecPhases
    <3>2. exec' = [exec EXCEPT ![e] = f] /\ todo[p] = <<>>
          /\ exec[e].pc = "reporting" /\ todo' = todo /\ dispatch' = dispatch /\ lapse' = lapse
      BY <2>11 DEF Return, rows
    <3>3. todo' = [todo EXCEPT ![p] = <<>>] /\ <<>> \in Seq(Statement)
      BY <2>3, <3>2 DEF TypeInv, TypeOK
    <3> HIDE DEF f
    <3>4. \A c \in Dispatch : (dispatch[c] # None /\ dispatch[c].exec = e) => f.dispatch = c
      BY <3>1, DispatchAssumption DEF ExecInv, Named
    <3>5. \A r \in Process : \A i \in 1..Len(todo[r]) : OfExec(todo[r][i]) => todo[r][i].e # e
      BY <2>3, <3>2, StatementsAtHome
    <3>6. exec'[e] = f
      BY <3>2 DEF TypeInv, TypeOK
    <3>7. Reported(e)'
      <4>1. Reported(e)
        BY DEF ExecInv
      <4> QED BY <4>1, <3>1, <3>2, <3>6 DEF Reported
    <3>8. \A i \in 1..Len(<<>>) : Phased(p, i)'
      OBVIOUS
    <3> QED BY <2>3, <3>1, <3>2, <3>3, <3>4, <3>5, <3>7, <3>8, ExecutionMoves
  <2> QED BY <1>2, <2>6, <2>7, <2>8, <2>9, <2>10, <2>11 DEF Runner
<1> QED BY <1>1, <1>2

LEMMA CrashKeepsExec ==
  ASSUME TypeInv, ExecInv, NEW p \in Process, Crash(p)
  PROVE  ExecInv'
<1>1. /\ todo'[p] = <<>>
      /\ \A r \in Process : r # p => todo'[r] = todo[r]
  BY DEF Crash, TypeInv, TypeOK
<1>2. \A e \in Exec :
        exec'[e] = IF exec[e].by = p /\ UnderWay(e) THEN [exec[e] EXCEPT !.pc = "dead"] ELSE exec[e]
  BY DEF Crash
<1>3. \A e \in Exec : exec[e] \in Execution
  BY DEF TypeInv, TypeOK
<1>4. dispatch' = dispatch /\ "crash" \in lapse' /\ lapse \subseteq lapse'
  BY DEF Crash, rows
<1>5. ASSUME NEW r \in Process, NEW i \in 1..Len(todo'[r])
      PROVE  Phased(r, i)'
  <2>1. r # p
    BY <1>1, <1>5
  <2>2. todo'[r] = todo[r] /\ todo[r][i] \in Statement /\ Phased(r, i)
    BY <1>1, <1>5, <2>1 DEF ExecInv, TypeInv, TypeOK
  <2>3. OfExec(todo[r][i]) => exec'[todo[r][i].e] = exec[todo[r][i].e]
    BY <2>1, <2>2, <1>2, StatementKinds DEF Phased, OfExec
  <2> QED BY <2>2, <2>3, <1>5, PhasedStays
<1>6. \A d \in Dispatch : Named(d)'
  <2> TAKE d \in Dispatch
  <2>1. dispatch[d] # None => dispatch[d].exec \in Exec \union {None}
    BY DEF TypeInv, TypeOK, DispatchRow
  <2>2. Named(d)
    BY DEF ExecInv
  <2> QED BY <2>1, <2>2, <1>2, <1>3, <1>4 DEF Named, Execution
<1>7. \A e \in Exec : Reported(e)'
  <2> TAKE e \in Exec
  <2>1. Reported(e)
    BY DEF ExecInv
  <2>2. CASE exec'[e] = exec[e]
    <3>1. exec[e].pc = "reporting" => UnderWay(e)
      BY DEF UnderWay
    <3>2. exec[e].pc = "reporting" /\ exec[e].by = p => exec'[e].pc = "dead"
      BY <3>1, <1>2, <1>3 DEF Execution
    <3> QED BY <2>1, <2>2, <3>2, <1>1, <1>4 DEF Reported
  <2>3. CASE exec'[e] # exec[e]
    <3>1. exec'[e].pc = "dead"
      BY <2>3, <1>2, <1>3 DEF Execution
    <3> QED BY <3>1 DEF Reported
  <2> QED BY <2>2, <2>3
<1> QED BY <1>4, <1>5, <1>6, <1>7 DEF ExecInv

\* What a statement does to the rows.
LEMMA WriteEffect ==
  ASSUME TypeInv, NEW p \in Process, Write(p), NEW s, s = todo[p][1]
  PROVE  /\ s \in Statement
         /\ UNCHANGED <<exec, lapse>>
         /\ \A c \in Dispatch : c # s.d \/ s.do \notin {"queue", "accept", "event"} => dispatch'[c] = dispatch[c]
         /\ s.do = "queue" => dispatch'[s.d] = NewRow(s.thread, s.task)
         /\ s.do = "accept" => /\ dispatch'[s.d].status = "accepted" /\ dispatch'[s.d].exec = s.e
                               /\ dispatch'[s.d].thread = dispatch[s.d].thread
                               /\ dispatch'[s.d].task = dispatch[s.d].task
         /\ s.do = "event" => /\ dispatch'[s.d].status = s.status /\ dispatch'[s.d].exec = s.e
                              /\ dispatch'[s.d].thread = dispatch[s.d].thread
                              /\ dispatch'[s.d].task = dispatch[s.d].task
         /\ planned' = IF s.do = "queue" /\ s.who = "planner" THEN planned \union {s.d} ELSE planned
         /\ s.do \notin {"attach", "handoff"} => handoff' = handoff
         /\ s.do = "attach" => handoff' = [handoff EXCEPT ![s.h].dispatch = s.d]
         /\ s.do = "handoff" => handoff' = [handoff EXCEPT ![s.h] = s.row] \/ handoff' = handoff
         /\ s.do # "results" => artifact' = artifact
         /\ s.do = "results" => artifact' = [artifact EXCEPT ![s.d] = @ \union {s.e}]
<1>1. /\ s \in Statement /\ Refers(p, 1)
      /\ \/ WriteQueue(s)   \/ WriteThread(s)  \/ WriteRequeue(s) \/ WriteAttach(s)
         \/ WriteHandoff(s) \/ WriteAccept(s)  \/ WriteEvent(s)   \/ WriteResults(s)
  BY WriteLeaves DEF Write, TypeInv
<1>2. UNCHANGED <<exec, lapse>>
  BY DEF Write
<1>3. s.do \in {"accept", "event"} => s.d \in Dispatch /\ dispatch[s.d] \in DispatchRow
  BY <1>1, StatementKinds DEF Refers, OfExec, TypeInv, TypeOK
<1>4. dispatch \in [Dispatch -> DispatchRow \union {None}]
  BY DEF TypeInv, TypeOK
<1>5. CASE WriteQueue(s)
  BY <1>1, <1>2, <1>4, <1>5, StatementKinds DEF WriteQueue
<1>6. CASE WriteThread(s)
  BY <1>1, <1>2, <1>6 DEF WriteThread
<1>7. CASE WriteRequeue(s)
  BY <1>1, <1>2, <1>7 DEF WriteRequeue
<1>8. CASE WriteAttach(s)
  BY <1>1, <1>2, <1>8 DEF WriteAttach
<1>9. CASE WriteHandoff(s)
  BY <1>1, <1>2, <1>9 DEF WriteHandoff
<1>10. CASE WriteAccept(s)
  <2> DEFINE row == [dispatch[s.d] EXCEPT !.status = "accepted", !.exec = s.e]
  <2>1. s.do = "accept" /\ dispatch' = [dispatch EXCEPT ![s.d] = row]
        /\ handoff' = handoff /\ artifact' = artifact /\ planned' = planned
    BY <1>10 DEF WriteAccept
  <2>2. row.status = "accepted" /\ row.exec = s.e /\ row.thread = dispatch[s.d].thread
        /\ row.task = dispatch[s.d].task
    BY <1>3, <2>1 DEF DispatchRow
  <2> HIDE DEF row
  <2> QED BY <1>1, <1>2, <1>3, <1>4, <2>1, <2>2
<1>11. CASE WriteEvent(s)
  <2> DEFINE row == [dispatch[s.d] EXCEPT !.status = s.status, !.exec = s.e]
  <2>1. s.do = "event" /\ dispatch' = [dispatch EXCEPT ![s.d] = row]
        /\ handoff' = handoff /\ artifact' = artifact /\ planned' = planned
    BY <1>11 DEF WriteEvent
  <2>2. row.status = s.status /\ row.exec = s.e /\ row.thread = dispatch[s.d].thread
        /\ row.task = dispatch[s.d].task
    BY <1>3, <2>1 DEF DispatchRow
  <2> HIDE DEF row
  <2> QED BY <1>1, <1>2, <1>3, <1>4, <2>1, <2>2
<1>12. CASE WriteResults(s)
  BY <1>1, <1>2, <1>12 DEF WriteResults
<1> QED BY <1>1, <1>5, <1>6, <1>7, <1>8, <1>9, <1>10, <1>11, <1>12

LEMMA WriteKeepsExec ==
  ASSUME TypeInv, ExecInv, NEW p \in Process, Write(p)
  PROVE  ExecInv'
<1> DEFINE s == todo[p][1]
<1>1. s \in Statement /\ exec' = exec /\ lapse' = lapse
  BY WriteEffect
<1>2. Phased(p, 1) /\ 1 \in 1..Len(todo[p])
  BY WriteLeaves DEF ExecInv
<1>3. s.do \in {"queue", "accept", "event"} => s.d \in Dispatch
  BY <1>1, StatementKinds
<1>4. ASSUME NEW r \in Process, NEW i \in 1..Len(todo'[r])
      PROVE  Phased(r, i)'
  <2>1. CASE r # p
    <3>1. todo'[r] = todo[r]
      BY <2>1, WriteLeaves
    <3> QED BY <3>1, <1>1, <1>4, PhasedStays
  <2>2. CASE r = p
    <3>1. todo'[r][i] = todo[p][i + 1] /\ Phased(p, i + 1)
      BY <2>2, <1>4, WriteLeaves DEF ExecInv
    <3> QED BY <3>1, <1>1, <2>2 DEF Phased, OfExec
  <2> QED BY <2>1, <2>2
<1>5. ASSUME NEW c \in Dispatch
      PROVE  \/ dispatch'[c] = dispatch[c]
             \/ c = s.d /\ s.do = "queue" /\ dispatch'[c].status = "queued" /\ dispatch'[c].exec = None
             \/ /\ c = s.d /\ s.do = "accept" /\ dispatch'[c].exec = s.e
                /\ exec[s.e].pc = "accepting" /\ exec[s.e].dispatch = c /\ s.e # None
             \/ /\ c = s.d /\ s.do = "event" /\ dispatch'[c].exec = s.e /\ dispatch'[c].status = s.status
                /\ exec[s.e].dispatch = c /\ s.e # None
                /\ \/ exec[s.e].pc = "chatting"
                   \/ s.status \in Outcomes /\ exec[s.e].pc \in {"ended", "reporting"}
  <2>1. NewRow(s.thread, s.task).status = "queued" /\ NewRow(s.thread, s.task).exec = None
    BY DEF NewRow
  <2>2. s.do \in {"accept", "event"} => s.e \in Exec /\ s.e # None
    BY <1>1, StatementKinds, DispatchAssumption
  <2>3. c # s.d \/ s.do \notin {"queue", "accept", "event"} => dispatch'[c] = dispatch[c]
    BY WriteEffect
  <2>4. s.do = "queue" => dispatch'[s.d] = NewRow(s.thread, s.task)
    BY WriteEffect
  <2>5. s.do = "accept" => dispatch'[s.d].exec = s.e
    BY WriteEffect
  <2>6. s.do = "event" => dispatch'[s.d].exec = s.e /\ dispatch'[s.d].status = s.status
    BY WriteEffect
  <2>7. s.do = "accept" => exec[s.e].pc = "accepting" /\ exec[s.e].dispatch = s.d
    BY <1>2 DEF Phased, OfExec
  <2>8. s.do = "event" => /\ exec[s.e].dispatch = s.d
                          /\ \/ exec[s.e].pc = "chatting"
                             \/ s.status \in Outcomes /\ exec[s.e].pc \in {"ended", "reporting"}
    BY <1>2 DEF Phased, OfExec
  <2> HIDE DEF s
  <2> QED BY <2>1, <2>2, <2>3, <2>4, <2>5, <2>6, <2>7, <2>8
<1>6. \A c \in Dispatch : Named(c)'
  <2> TAKE c \in Dispatch
  <2>1. Named(c)
    BY DEF ExecInv
  <2>2. "queued" \notin Started
    BY DEF Started
  <2> QED BY <1>1, <1>5, <2>1, <2>2 DEF Named, Outcomes
<1>7. \A e \in Exec : Reported(e)'
  <2> SUFFICES ASSUME NEW e \in Exec, exec[e].pc \in {"reporting", "done"}, exec[e].dispatch \in Dispatch,
                      dispatch'[exec[e].dispatch] # None, dispatch'[exec[e].dispatch].exec = e,
                      dispatch'[exec[e].dispatch].status \in Started
               PROVE  /\ exec[e].pc = "reporting" /\ exec[e].by \in Process /\ todo'[exec[e].by] # <<>>
                      /\ LET last == todo'[exec[e].by][Len(todo'[exec[e].by])]
                         IN last.do = "event" /\ last.e = e /\ last.status \in Outcomes
    BY <1>1 DEF Reported
  <2> DEFINE c == exec[e].dispatch
  <2>1. Outcomes \cap Started = {} /\ "queued" \notin Started
    BY DEF Outcomes, Started
  <2>2. dispatch'[c] = dispatch[c]
    BY <1>5, <2>1, DispatchAssumption
  <2>3. /\ exec[e].pc = "reporting" /\ exec[e].by \in Process /\ todo[exec[e].by] # <<>>
        /\ LET last == todo[exec[e].by][Len(todo[exec[e].by])]
           IN last.do = "event" /\ last.e = e /\ last.status \in Outcomes
    BY <2>2 DEF ExecInv, Reported
  <2>4. CASE exec[e].by # p
    BY <2>3, <2>4, WriteLeaves
  <2>5. CASE exec[e].by = p
    <3>1. Len(todo[p]) # 1
      <4> SUFFICES ASSUME Len(todo[p]) = 1 PROVE FALSE
        OBVIOUS
      <4>1. s.do = "event" /\ s.e = e /\ s.status \in Outcomes
        BY <2>3, <2>5
      <4>2. dispatch'[s.d].status = s.status
        BY <4>1, WriteEffect
      <4>3. s.d = c
        BY <4>1, <1>2 DEF Phased, OfExec
      <4> QED BY <4>1, <4>2, <4>3, <2>1
    <3>2. Len(todo[p]) \in Nat /\ Len(todo'[p]) = Len(todo[p]) - 1 /\ Len(todo[p]) > 1
      <4>1. todo[p] \in Seq(Statement)
        BY DEF TypeInv, TypeOK
      <4>2. Len(todo[p]) \in Nat
        BY <4>1, LenProperties
      <4>3. Len(todo'[p]) = Len(todo[p]) - 1
        BY WriteLeaves
      <4>4. 1 \in 1..Len(todo[p])
        BY <1>2
      <4>5. \A n \in Nat : (n # 1 /\ 1 \in 1..n) => n > 1
        OBVIOUS
      <4>6. Len(todo[p]) > 1
        BY <3>1, <4>2, <4>4, <4>5
      <4> QED BY <4>2, <4>3, <4>6
    <3>3. Len(todo'[p]) \in 1..Len(todo'[p])
      BY <3>2
    <3>4. todo'[p][Len(todo'[p])] = todo[p][Len(todo'[p]) + 1]
      BY <3>3, WriteLeaves
    <3>5. Len(todo'[p]) + 1 = Len(todo[p])
      BY <3>2
    <3>6. todo'[p] # <<>>
      BY <3>2, EmptySeq
    <3> QED BY <2>3, <2>5, <3>4, <3>5, <3>6
  <2> QED BY <2>4, <2>5
<1> QED BY <1>1, <1>4, <1>6, <1>7 DEF ExecInv

LEMMA InitExec == Init => ExecInv
<1> SUFFICES ASSUME Init PROVE ExecInv
  OBVIOUS
<1>1. \A p \in Process : Len(todo[p]) = 0
  BY DEF Init
<1>2. \A e \in Exec : exec[e].pc = "free"
  BY DEF Init, NoExec
<1>3. \A d \in Dispatch : dispatch[d] = None
  BY DEF Init
<1> QED BY <1>1, <1>2, <1>3 DEF ExecInv, Named, Reported

LEMMA ExecStep == TypeInv /\ ExecInv /\ [Next]_vars => ExecInv'
<1> SUFFICES ASSUME TypeInv, ExecInv, [Next]_vars PROVE ExecInv'
  OBVIOUS
<1>1. CASE UNCHANGED vars
  BY <1>1, RowsStep DEF vars, rows
<1>2. CASE Next
  BY <1>2, OperationsKeepExec, ExecutionsKeepExec, WriteKeepsExec, CrashKeepsExec DEF Next
<1> QED BY <1>1, <1>2

\* A dispatch on which work has begun has an execution that is still going to
\* settle it, if no process dies.
THEOREM StartedAreUnderWay == Spec => []StartedIsUnderWay
<1>1. TypeInv /\ ExecInv => StartedIsUnderWay
  <2> SUFFICES ASSUME TypeInv, ExecInv, Without({"crash"}), NEW d \in Dispatch, Status(d) \in Started
               PROVE  UnderWay(dispatch[d].exec)
    BY DEF StartedIsUnderWay
  <2> DEFINE e == dispatch[d].exec
  <2>1. dispatch[d] # None /\ dispatch[d].status \in Started
    <3>1. dispatch[d] = None => Status(d) = None
      BY DEF Status
    <3>2. None \notin Started
      BY NoRowAssumption DEF DispatchStatus, Active
    <3> QED BY <3>1, <3>2 DEF Status
  <2>2. e \in Exec /\ exec[e].dispatch = d /\ exec[e].pc # "free"
    BY <2>1 DEF ExecInv, Named, TypeInv, TypeOK, DispatchRow
  <2>3. exec[e].pc # "dead"
    BY <2>2 DEF ExecInv, Without
  <2>4. exec[e].pc # "done"
    BY <2>1, <2>2 DEF ExecInv, Reported
  <2> QED BY <2>2, <2>3, <2>4 DEF UnderWay
<1> QED BY <1>1, InitTypes, TypeStep, InitExec, ExecStep, PTL DEF Spec

-----------------------------------------------------------------------------
(* Cancelled dispatches stay so. *)

\* What the steps of an execution have in common.
LEMMA RunnerShape ==
  ASSUME TypeInv, NEW e \in Exec, Runner(e)
  PROVE  /\ UnderWay(e) /\ exec[e].by \in Process /\ exec[e].dispatch \in Dispatch
         /\ UNCHANGED <<rows, planned, lapse>>
         /\ \A g \in Exec : g # e => exec'[g] = exec[g]
         /\ exec'[e].dispatch = exec[e].dispatch /\ exec'[e].by = exec[e].by
         /\ exec'[e].pc \in {"accepting", "chatting"} => exec[e].pc \in {"accepting", "chatting"}
         /\ \/ todo' = todo
            \/ \E q \in Seq(Statement) :
                 /\ Reports(e, q)
                 /\ \A i \in 1..Len(q) : OfExec(q[i]) /\ q[i].d = exec[e].dispatch
<1> DEFINE d == exec[e].dispatch
<1>1. exec[e] \in Execution /\ exec[e].outcome \in Outcomes
  BY DEF TypeInv, TypeOK, Execution
<1>2. UnderWay(e)
  BY DEF Runner, Announce, AskApproval, ChatEnds, ChatThrows, Conclude, Return, UnderWay
<1>3. d \in Dispatch /\ exec[e].by \in Process
  BY <1>2 DEF TypeInv, Employed
<1>4. UNCHANGED <<rows, planned, lapse>>
  BY DEF Runner, Announce, AskApproval, ChatEnds, ChatThrows, Conclude, Return
<1>5. \A t \in DispatchStatus :
        /\ <<Event(d, e, t)>> \in Seq(Statement)
        /\ \A i \in 1..Len(<<Event(d, e, t)>>) :
             OfExec(<<Event(d, e, t)>>[i]) /\ <<Event(d, e, t)>>[i].d = d
  <2> TAKE t \in DispatchStatus
  <2> DEFINE st == Event(d, e, t)
  <2>1. st \in Statement /\ OfExec(st) /\ st.d = d
    BY <1>3, StatementsMade DEF Event, OfExec
  <2> HIDE DEF st
  <2>2. <<st>> \in Seq(Statement) /\ \A i \in 1..Len(<<st>>) : <<st>>[i] = st
    BY <2>1
  <2> QED BY <2>1, <2>2 DEF st
<1>6. "running" \in DispatchStatus /\ "waiting_approval" \in DispatchStatus /\ Outcomes \subseteq DispatchStatus
      /\ "failed" \in Outcomes
  BY DEF DispatchStatus, Active, Started, Settled, Outcomes
<1>7. \/ todo' = todo
      \/ \E q \in Seq(Statement) :
           /\ Reports(e, q)
           /\ \A i \in 1..Len(q) : OfExec(q[i]) /\ q[i].d = exec[e].dispatch
  <2>1. CASE Announce(e)
    BY <2>1, <1>5, <1>6 DEF Announce
  <2>2. CASE AskApproval(e)
    BY <2>2, <1>5, <1>6 DEF AskApproval
  <2>3. CASE \E o \in Outcomes : ChatEnds(e, o)
    BY <2>3, <1>5, <1>6 DEF ChatEnds
  <2>4. CASE ChatThrows(e)
    BY <2>4, <1>5, <1>6 DEF ChatThrows
  <2>5. CASE Conclude(e)
    <3> DEFINE a == Results(d, e)
               b == Event(d, e, exec[e].outcome)
    <3>1. a \in Statement /\ OfExec(a) /\ a.d = d
      BY <1>3, StatementsMade DEF Results, OfExec
    <3>2. b \in Statement /\ OfExec(b) /\ b.d = d
      BY <1>1, <1>3, <1>6, StatementsMade DEF Event, OfExec
    <3>3. Reports(e, <<a, b>>)
      BY <2>5 DEF Conclude
    <3> HIDE DEF a, b
    <3>4. <<a, b>> \in Seq(Statement) /\ \A i \in 1..Len(<<a, b>>) : <<a, b>>[i] \in {a, b}
      BY <3>1, <3>2
    <3> QED BY <3>1, <3>2, <3>3, <3>4
  <2>6. CASE Return(e)
    BY <2>6 DEF Return
  <2> QED BY <2>1, <2>2, <2>3, <2>4, <2>5, <2>6 DEF Runner
<1>8. /\ \A g \in Exec : g # e => exec'[g] = exec[g]
      /\ exec'[e].dispatch = exec[e].dispatch /\ exec'[e].by = exec[e].by
      /\ exec'[e].pc \in {"accepting", "chatting"} => exec[e].pc \in {"accepting", "chatting"}
  <2>1. exec \in [Exec -> Execution]
    BY DEF TypeInv, TypeOK
  <2>2. CASE Announce(e)
    BY <2>1, <2>2 DEF Announce
  <2>3. CASE AskApproval(e)
    BY <2>1, <2>3 DEF AskApproval
  <2>4. CASE \E o \in Outcomes : ChatEnds(e, o)
    BY <2>1, <2>4 DEF ChatEnds
  <2>5. CASE ChatThrows(e)
    BY <2>1, <2>5 DEF ChatThrows
  <2>6. CASE Conclude(e)
    BY <2>1, <2>6 DEF Conclude
  <2>7. CASE Return(e)
    BY <2>1, <2>7 DEF Return
  <2> QED BY <2>2, <2>3, <2>4, <2>5, <2>6, <2>7 DEF Runner
<1> QED BY <1>2, <1>3, <1>4, <1>7, <1>8

\* A dispatch queued over is queued; another is left.
LEMMA QueueEffect ==
  ASSUME TypeInv, NEW p \in Process, NEW d \in Dispatch, NEW x \in Thread, NEW k \in Task \union {None},
         QueueDispatch(p, d, x, k)
  PROVE  /\ todo' = todo /\ exec' = exec /\ handoff' = handoff /\ planned' = planned /\ lapse \subseteq lapse'
         /\ dispatch'[d] # None /\ dispatch'[d].status = "queued"
         /\ \A c \in Dispatch : c # d => dispatch'[c] = dispatch[c]
         /\ "again" \notin lapse' => dispatch[d] = None /\ \A h \in Handoff : d # DispatchOf(h)
<1> DEFINE row == NewRow(x, IF k = None THEN thread[x].task ELSE k)
<1>1. dispatch' = [dispatch EXCEPT ![d] = row]
  BY DEF QueueDispatch
<1>2. row.status = "queued"
  BY DEF NewRow
<1>3. row \in DispatchRow
  BY DEF QueueDispatch, NewRow, DispatchRow, DispatchStatus, Active, TypeInv, TypeOK, ThreadRow
<1> HIDE DEF row
<1>4. /\ dispatch'[d] # None /\ dispatch'[d].status = "queued"
      /\ \A c \in Dispatch : c # d => dispatch'[c] = dispatch[c]
  BY <1>1, <1>2, <1>3, NoneIsNoRow DEF TypeInv, TypeOK
<1>5. PICK more \in SUBSET {"again"} : Begins(p, more) /\ (dispatch[d] # None => more = {"again"})
  BY DEF QueueDispatch
<1> QED BY <1>4, <1>5, LapsesKept DEF QueueDispatch

LEMMA CancelEffect ==
  ASSUME TypeInv, NEW d \in Dispatch, CancelDispatch(d)
  PROVE  /\ todo' = todo /\ exec' = exec /\ handoff' = handoff /\ planned' = planned /\ lapse \subseteq lapse'
         /\ dispatch[d] # None /\ dispatch'[d] # None /\ dispatch'[d].status = "cancelled"
         /\ dispatch'[d].thread = dispatch[d].thread /\ dispatch'[d].task = dispatch[d].task
         /\ \A c \in Dispatch : c # d => dispatch'[c] = dispatch[c]
         /\ "overlap" \notin lapse' => \A r \in Process : ~Reporting(r, d)
<1>1. dispatch[d] \in DispatchRow
      /\ dispatch' = [dispatch EXCEPT ![d] = [dispatch[d] EXCEPT !.status = "cancelled"]]
  BY DEF CancelDispatch, TypeInv, TypeOK
<1>2. /\ [dispatch[d] EXCEPT !.status = "cancelled"] \in DispatchRow
      /\ [dispatch[d] EXCEPT !.status = "cancelled"].status = "cancelled"
      /\ [dispatch[d] EXCEPT !.status = "cancelled"].thread = dispatch[d].thread
      /\ [dispatch[d] EXCEPT !.status = "cancelled"].task = dispatch[d].task
  BY <1>1 DEF DispatchRow, DispatchStatus, Settled
<1>3. /\ dispatch'[d] # None /\ dispatch'[d].status = "cancelled"
      /\ dispatch'[d].thread = dispatch[d].thread /\ dispatch'[d].task = dispatch[d].task
      /\ \A c \in Dispatch : c # d => dispatch'[c] = dispatch[c]
  BY <1>1, <1>2, NoneIsNoRow DEF TypeInv, TypeOK
<1>4. PICK more \in SUBSET {"again", "overlap"} :
        /\ Begins(Engine, more)
        /\ (\E r \in Process : Reporting(r, d)) => more = {"overlap"}
  BY DEF CancelDispatch, Overlap
<1>5. Engine \in Process
  BY DEF Process
<1> QED BY <1>3, <1>4, <1>5, LapsesKept DEF CancelDispatch

LEMMA LapsesGrow ==
  ASSUME [Next]_vars
  PROVE  lapse \subseteq lapse'
  BY DEF Next, vars, TaskStatus, ThreadCreate, QueueDispatch, CancelDispatch, PlanQueue, Submit,
         Materialize, RunDispatch, Begins, Runner, Announce, AskApproval, ChatEnds, ChatThrows,
         Conclude, Return, Write, Crash

\* While no cancellation comes between a check and its write, what is checked
\* is not cancelled when it is written.
LEMMA CancelStep ==
  ASSUME TypeInv, ExecInv, CancelInv, [Next]_vars
  PROVE  CancelInv'
<1> SUFFICES ASSUME Without({"again", "overlap"})', NEW r \in Process, NEW i \in 1..Len(todo'[r]),
                    OfExec(todo'[r][i])
             PROVE  dispatch'[todo'[r][i].d].status # "cancelled"
  BY DEF CancelInv, OfExec
<1> DEFINE s == todo'[r][i]
<1>1. "again" \notin lapse' /\ "overlap" \notin lapse'
  BY DEF Without
<1>2. ASSUME "again" \notin lapse, "overlap" \notin lapse, NEW q \in Process, NEW j \in 1..Len(todo[q]),
             OfExec(todo[q][j])
      PROVE  dispatch[todo[q][j].d].status # "cancelled"
  BY <1>2 DEF CancelInv, Without
<1>3. \A q \in Process : todo[q] = <<>> => \A j \in 1..Len(todo[q]) : FALSE
  OBVIOUS
<1>4. CASE UNCHANGED vars
  BY <1>1, <1>2, <1>4 DEF vars, rows
<1>5. CASE todo' = todo /\ dispatch' = dispatch /\ lapse \subseteq lapse'
  BY <1>1, <1>2, <1>5
<1>6. ASSUME NEW p \in Process, NEW q \in Seq(Statement), todo' = [todo EXCEPT ![p] = q],
             \A j \in 1..Len(q) : ~OfExec(q[j]), dispatch' = dispatch, lapse \subseteq lapse'
      PROVE  dispatch'[s.d].status # "cancelled"
  <2>1. todo'[p] = q /\ \A t \in Process : t # p => todo'[t] = todo[t]
    BY <1>6, NewStatements
  <2>2. r # p
    BY <1>6, <2>1
  <2> QED BY <1>1, <1>2, <1>6, <2>1, <2>2
<1>7. ASSUME NEW p \in Cli, PlanQueue(p)
      PROVE  dispatch'[s.d].status # "cancelled"
  <2>1. PICK q \in Seq(Statement) : todo' = [todo EXCEPT ![p] = q] /\ PlanShaped(q)
    BY <1>7, PlanShape
  <2>2. \A j \in 1..Len(q) : ~OfExec(q[j])
    BY <2>1 DEF PlanShaped, OfExec
  <2> QED BY <1>6, <1>7, <2>1, <2>2, LapsesGrow DEF PlanQueue, Process, rows
<1>8. ASSUME NEW p \in Process, NEW h \in Handoff, NEW x \in Thread, NEW k \in Task \union {None},
             Submit(p, h, x, k)
      PROVE  dispatch'[s.d].status # "cancelled"
  <2>1. PICK q \in Seq(Statement) : todo' = [todo EXCEPT ![p] = q] /\ SubmitShaped(q, h)
    BY <1>8, SubmitShape
  <2>2. \A j \in 1..Len(q) : ~OfExec(q[j])
    BY <2>1 DEF SubmitShaped, OfExec
  <2> QED BY <1>6, <1>8, <2>1, <2>2, LapsesGrow DEF Submit, rows
<1>9. ASSUME NEW p \in Process, NEW h \in Handoff, Materialize(p, h)
      PROVE  dispatch'[s.d].status # "cancelled"
  <2>1. PICK q \in Seq(Statement) : todo' = [todo EXCEPT ![p] = q] /\ MaterializeShaped(q, h)
    BY <1>9, MaterializeShape
  <2>2. \A j \in 1..Len(q) : ~OfExec(q[j])
    BY <2>1 DEF MaterializeShaped, OfExec
  <2>3. dispatch' = dispatch
    BY <1>9 DEF Materialize, rows
  <2> QED BY <1>6, <2>1, <2>2, <2>3, LapsesGrow
<1>10. ASSUME NEW p \in Process, NEW d \in Dispatch, NEW e \in Exec, RunDispatch(p, d, e)
       PROVE  dispatch'[s.d].status # "cancelled"
  <2> DEFINE st == Accept(d, e)
  <2>1. st \in Statement /\ st.d = d
    BY StatementsMade DEF Accept
  <2>2. todo' = [todo EXCEPT ![p] = <<st>>] /\ dispatch' = dispatch
    BY <1>10 DEF RunDispatch, rows
  <2>3. dispatch[d].status = "queued"
    <3>1. PICK more \in SUBSET {"again"} : Begins(p, more) /\ (dispatch[d].status # "queued" => more = {"again"})
      BY <1>10 DEF RunDispatch
    <3> QED BY <3>1, <1>1, LapsesKept
  <2> HIDE DEF st
  <2>4. <<st>> \in Seq(Statement) /\ \A j \in 1..Len(<<st>>) : <<st>>[j] = st
    BY <2>1
  <2>5. todo'[p] = <<st>> /\ \A t \in Process : t # p => todo'[t] = todo[t]
    BY <2>2, <2>4, NewStatements
  <2>6. CASE r = p
    BY <2>1, <2>2, <2>3, <2>4, <2>5, <2>6
  <2>7. CASE r # p
    BY <2>2, <2>5, <2>7, <1>1, <1>2, LapsesGrow
  <2> QED BY <2>6, <2>7
<1>14. ASSUME NEW p \in Process, NEW d \in Dispatch, NEW x \in Thread, NEW k \in Task \union {None},
             QueueDispatch(p, d, x, k)
       PROVE  dispatch'[s.d].status # "cancelled"
  <2>1. /\ todo' = todo /\ lapse \subseteq lapse' /\ dispatch'[d].status = "queued"
        /\ \A c \in Dispatch : c # d => dispatch'[c] = dispatch[c]
    BY <1>14, QueueEffect
  <2>2. s \in Statement /\ s.d \in Dispatch
    BY <2>1, StatementKinds DEF OfExec, TypeInv, TypeOK
  <2> QED BY <2>1, <2>2, <1>1, <1>2
<1>15. ASSUME NEW d \in Dispatch, CancelDispatch(d)
       PROVE  dispatch'[s.d].status # "cancelled"
  <2>1. /\ todo' = todo /\ lapse \subseteq lapse' /\ ~Reporting(r, d)
        /\ \A c \in Dispatch : c # d => dispatch'[c] = dispatch[c]
    BY <1>1, <1>15, CancelEffect
  <2>2. s \in Statement /\ s.d \in Dispatch
    BY <2>1, StatementKinds DEF OfExec, TypeInv, TypeOK
  <2>3. s.d # d
    BY <2>1 DEF Reporting, OfExec
  <2> QED BY <2>1, <2>2, <2>3, <1>1, <1>2
<1>16. CASE \/ \E p \in Cli, k \in Task : TaskStatus(p, k)
            \/ \E p \in Cli, x \in Thread, t \in ThreadStatus, k \in Task \union {None} :
                 ThreadCreate(p, x, t, k)
  BY <1>5, <1>16, LapsesGrow DEF TaskStatus, ThreadCreate
<1>11. ASSUME NEW e \in Exec, Runner(e)
       PROVE  dispatch'[s.d].status # "cancelled"
  <2>1. dispatch' = dispatch /\ lapse' = lapse /\ exec[e].by \in Process
    BY <1>11, RunnerShape DEF rows
  <2>2. CASE todo' = todo
    BY <2>1, <2>2, <1>1, <1>2
  <2>3. CASE todo' # todo
    <3> DEFINE d == exec[e].dispatch
               p == exec[e].by
    <3>1. PICK q \in Seq(Statement) :
            Reports(e, q) /\ \A j \in 1..Len(q) : OfExec(q[j]) /\ q[j].d = d
      BY <2>3, <1>11, RunnerShape
    <3> DEFINE o == IF IsCancelled(d) THEN <<>> ELSE q
    <3>2. o \in Seq(Statement) /\ todo' = [todo EXCEPT ![p] = o]
      BY <3>1 DEF Reports
    <3>3. todo'[p] = o /\ \A t \in Process : t # p => todo'[t] = todo[t]
      BY <2>1, <3>2, NewStatements
    <3>4. CASE r # p
      BY <3>3, <3>4, <2>1, <1>1, <1>2
    <3>5. CASE r = p
      <4>1. ~IsCancelled(d) /\ i \in 1..Len(q) /\ s = q[i]
        BY <3>3, <3>5
      <4> QED BY <4>1, <3>1, <2>1 DEF IsCancelled
    <3> QED BY <3>4, <3>5
  <2> QED BY <2>2, <2>3
<1>12. ASSUME NEW p \in Process, Write(p)
       PROVE  dispatch'[s.d].status # "cancelled"
  <2> DEFINE t == todo[p][1]
  <2>1. lapse' = lapse /\ t \in Statement /\ Phased(p, 1)
    BY <1>12, WriteEffect, WriteLeaves DEF ExecInv
  <2>2. PICK j \in 1..Len(todo[r]) : s = todo[r][j]
    <3>1. CASE r = p
      BY <3>1, <1>12, WriteLeaves
    <3>2. CASE r # p
      BY <3>2, <1>12, WriteLeaves
    <3> QED BY <3>1, <3>2
  <2>3. dispatch[s.d].status # "cancelled"
    BY <2>1, <2>2, <1>1, <1>2
  <2>4. s \in Statement /\ s.d \in Dispatch
    BY <2>2, StatementKinds DEF OfExec, TypeInv, TypeOK
  <2>5. /\ s.d # t.d \/ t.do \notin {"queue", "accept", "event"} => dispatch'[s.d] = dispatch[s.d]
        /\ t.do = "queue" => dispatch'[t.d] = NewRow(t.thread, t.task)
        /\ t.do = "accept" => dispatch'[t.d].status = "accepted"
        /\ t.do = "event" => dispatch'[t.d].status = t.status
    BY <1>12, <2>4, WriteEffect
  <2>6. NewRow(t.thread, t.task).status # "cancelled"
    BY DEF NewRow
  <2>7. t.do = "event" => t.status # "cancelled"
    BY <2>1 DEF Phased, OfExec, Outcomes
  <2> HIDE DEF s, t
  <2> QED BY <2>3, <2>5, <2>6, <2>7
<1>13. ASSUME NEW p \in Process, Crash(p)
       PROVE  dispatch'[s.d].status # "cancelled"
  <2>1. todo'[p] = <<>> /\ \A t \in Process : t # p => todo'[t] = todo[t]
    BY <1>13 DEF Crash, TypeInv, TypeOK
  <2>2. dispatch' = dispatch /\ lapse \subseteq lapse'
    BY <1>13 DEF Crash, rows
  <2>3. r # p
    BY <2>1
  <2> QED BY <1>1, <1>2, <2>1, <2>2, <2>3
<1> QED BY <1>4, <1>7, <1>8, <1>9, <1>10, <1>11, <1>12, <1>13, <1>14, <1>15, <1>16 DEF Next

LEMMA InitCancel == Init => CancelInv
  BY DEF Init, CancelInv

\* What a statement leaves of a cancelled dispatch.
LEMMA CancelledWrite ==
  ASSUME TypeInv, ExecInv, CancelInv, NEW p \in Process, Write(p),
         NEW d \in Dispatch, dispatch[d] # None, dispatch[d].status = "cancelled",
         Without({"again", "overlap"})'
  PROVE  /\ dispatch'[d] # None /\ dispatch'[d].status \in {"cancelled", "queued"}
         /\ artifact'[d] = artifact[d]
<1> DEFINE s == todo[p][1]
<1>1. /\ s \in Statement /\ lapse' = lapse
      /\ d # s.d \/ s.do \notin {"queue", "accept", "event"} => dispatch'[d] = dispatch[d]
      /\ s.do = "queue" => dispatch'[s.d] = NewRow(s.thread, s.task)
      /\ s.do # "results" => artifact' = artifact
      /\ s.do = "results" => artifact' = [artifact EXCEPT ![s.d] = @ \union {s.e}]
  BY WriteEffect
<1>2. OfExec(s) => dispatch[s.d].status # "cancelled"
  BY <1>1, WriteLeaves DEF CancelInv, Without
<1>3. dispatch'[d] # None
  BY WriteTypes DEF RowsStay
<1>4. artifact \in [Dispatch -> SUBSET Exec]
  BY DEF TypeInv, TypeOK
<1>5. NewRow(s.thread, s.task).status = "queued"
  BY DEF NewRow
<1> HIDE DEF s
<1>6. OfExec(s) => s.d # d
  BY <1>2
<1>7. artifact'[d] = artifact[d]
  BY <1>1, <1>4, <1>6 DEF OfExec
<1>8. dispatch'[d].status \in {"cancelled", "queued"}
  BY <1>1, <1>5, <1>6 DEF OfExec
<1> QED BY <1>3, <1>7, <1>8

\* Steps that are not statements leave a cancelled dispatch, or queue it.
LEMMA CancelledRest ==
  ASSUME TypeInv, [Next]_vars, \A p \in Process : ~Write(p),
         NEW d \in Dispatch, dispatch[d] # None, dispatch[d].status = "cancelled"
  PROVE  /\ dispatch'[d] # None /\ dispatch'[d].status \in {"cancelled", "queued"}
         /\ artifact'[d] = artifact[d]
<1>1. dispatch \in [Dispatch -> DispatchRow \union {None}] /\ dispatch[d] \in DispatchRow
  BY DEF TypeInv, TypeOK
<1>2. CASE dispatch' = dispatch /\ artifact' = artifact
  BY <1>2
<1>3. ASSUME NEW p \in Process, NEW c \in Dispatch, NEW x \in Thread, NEW k \in Task \union {None},
             QueueDispatch(p, c, x, k)
      PROVE  /\ dispatch'[d] # None /\ dispatch'[d].status \in {"cancelled", "queued"}
             /\ artifact'[d] = artifact[d]
  <2> DEFINE row == NewRow(x, IF k = None THEN thread[x].task ELSE k)
  <2>1. dispatch' = [dispatch EXCEPT ![c] = row] /\ artifact' = artifact
    BY <1>3 DEF QueueDispatch
  <2>2. row.status = "queued"
    BY DEF NewRow
  <2>3. row \in DispatchRow
    BY <1>3 DEF QueueDispatch, NewRow, DispatchRow, DispatchStatus, Active, TypeInv, TypeOK, ThreadRow
  <2> HIDE DEF row
  <2> QED BY <1>1, <2>1, <2>2, <2>3, NoneIsNoRow
<1>4. ASSUME NEW c \in Dispatch, CancelDispatch(c)
      PROVE  /\ dispatch'[d] # None /\ dispatch'[d].status \in {"cancelled", "queued"}
             /\ artifact'[d] = artifact[d]
  <2>1. artifact' = artifact /\ dispatch[c] \in DispatchRow
        /\ dispatch' = [dispatch EXCEPT ![c] = [dispatch[c] EXCEPT !.status = "cancelled"]]
    BY <1>1, <1>4 DEF CancelDispatch
  <2>2. [dispatch[c] EXCEPT !.status = "cancelled"] \in DispatchRow
        /\ [dispatch[c] EXCEPT !.status = "cancelled"].status = "cancelled"
    BY <2>1 DEF DispatchRow, DispatchStatus, Settled
  <2> QED BY <1>1, <2>1, <2>2, NoneIsNoRow
<1> QED BY <1>2, <1>3, <1>4, RunnerShape
        DEF Next, vars, rows, TaskStatus, ThreadCreate, PlanQueue, Submit, Materialize, RunDispatch, Crash

\* A cancelled dispatch stays cancelled, and gets no results, until it is
\* queued again, unless its cancellation came between a check and its write.
THEOREM CancelledStay == Spec => CancelIsFinal
<1>1. ASSUME TypeInv, ExecInv, CancelInv, [Next]_vars
      PROVE  [\A d \in Dispatch :
                Status(d) = "cancelled" =>
                  \/ Status(d)' \in {"cancelled", "queued"} /\ artifact'[d] = artifact[d]
                  \/ lapse' \cap {"again", "overlap"} # {}]_vars
  <2> SUFFICES ASSUME NEW d \in Dispatch, Status(d) = "cancelled", Without({"again", "overlap"})'
               PROVE  Status(d)' \in {"cancelled", "queued"} /\ artifact'[d] = artifact[d]
    BY DEF Without
  <2>1. dispatch[d] # None /\ dispatch[d].status = "cancelled"
    BY NoRowAssumption DEF Status, DispatchStatus, Settled
  <2>2. /\ dispatch'[d] # None /\ dispatch'[d].status \in {"cancelled", "queued"}
        /\ artifact'[d] = artifact[d]
    <3>1. CASE \E p \in Process : Write(p)
      BY <3>1, <1>1, <2>1, CancelledWrite
    <3>2. CASE \A p \in Process : ~Write(p)
      BY <3>2, <1>1, <2>1, CancelledRest
    <3> QED BY <3>1, <3>2
  <2> QED BY <2>2 DEF Status
<1> QED BY <1>1, InitTypes, TypeStep, InitExec, ExecStep, InitCancel, CancelStep, PTL DEF Spec, CancelIsFinal

-----------------------------------------------------------------------------
(* Operations in the middle, and the names they use. *)

\* Statements of executions alone.
Quiet(q) == \A i \in 1..Len(q) : OfExec(q[i])

\* An operation begins that has statements to make.
Opens(p) ==
  \E q \in Seq(Statement), more \in SUBSET {"again", "overlap"} :
    /\ Begins(p, more) /\ todo' = [todo EXCEPT ![p] = q] /\ UNCHANGED <<rows, exec, planned>>
    /\ \/ PlanShaped(q) /\ more = Overlap(\E r \in Process : Planning(r))
       \/ \E h \in Handoff : /\ SubmitShaped(q, h) /\ handoff[h] = None
                             /\ more = Overlap(\E r \in Process : Serving(r, h))
       \/ \E h \in Handoff : /\ MaterializeShaped(q, h) /\ handoff[h] # None /\ ~Materialized(h)
                             /\ more = Overlap(\E r \in Process : Serving(r, h))

LEMMA Opening ==
  ASSUME TypeInv
  PROVE  /\ \A p \in Cli : PlanQueue(p) => Opens(p)
         /\ \A p \in Process, h \in Handoff, x \in Thread, k \in Task \union {None} :
              Submit(p, h, x, k) => Opens(p)
         /\ \A p \in Process, h \in Handoff : Materialize(p, h) => Opens(p)
<1>1. ASSUME NEW p \in Cli, PlanQueue(p)
      PROVE  Opens(p)
  <2>1. PICK q \in Seq(Statement) : todo' = [todo EXCEPT ![p] = q] /\ PlanShaped(q)
    BY <1>1, PlanShape
  <2> DEFINE more == Overlap(\E r \in Process : Planning(r))
  <2>2. more \in SUBSET {"again", "overlap"}
    BY DEF Overlap
  <2>3. Begins(p, more) /\ UNCHANGED <<rows, exec, planned>>
    BY <1>1 DEF PlanQueue
  <2> QED BY <2>1, <2>2, <2>3 DEF Opens
<1>2. ASSUME NEW p \in Process, NEW h \in Handoff, NEW x \in Thread, NEW k \in Task \union {None},
             Submit(p, h, x, k)
      PROVE  Opens(p)
  <2>1. PICK q \in Seq(Statement) : todo' = [todo EXCEPT ![p] = q] /\ SubmitShaped(q, h)
    BY <1>2, SubmitShape
  <2> DEFINE more == Overlap(\E r \in Process : Serving(r, h))
  <2>2. more \in SUBSET {"again", "overlap"}
    BY DEF Overlap
  <2>3. Begins(p, more) /\ UNCHANGED <<rows, exec, planned>> /\ handoff[h] = None
    BY <1>2 DEF Submit
  <2> QED BY <2>1, <2>2, <2>3 DEF Opens
<1>3. ASSUME NEW p \in Process, NEW h \in Handoff, Materialize(p, h)
      PROVE  Opens(p)
  <2>1. PICK q \in Seq(Statement) : todo' = [todo EXCEPT ![p] = q] /\ MaterializeShaped(q, h)
    BY <1>3, MaterializeShape
  <2> DEFINE more == Overlap(\E r \in Process : Serving(r, h))
  <2>2. more \in SUBSET {"again", "overlap"}
    BY DEF Overlap
  <2>3. Begins(p, more) /\ UNCHANGED <<rows, exec, planned>> /\ handoff[h] # None /\ ~Materialized(h)
    BY <1>3 DEF Materialize
  <2> QED BY <2>1, <2>2, <2>3 DEF Opens
<1> QED BY <1>1, <1>2, <1>3

\* A step that is no operation and no statement brings an execution's
\* statements at most.
LEMMA TodoMoves ==
  ASSUME TypeInv, [Next]_vars, NEW r \in Process
  PROVE  \/ todo'[r] = todo[r]
         \/ Write(r)
         \/ Quiet(todo'[r]) /\ (todo[r] = <<>> \/ "crash" \in lapse')
         \/ Opens(r)
<1>1. CASE todo' = todo
  BY <1>1
<1>2. ASSUME NEW p \in Process, Opens(p)
      PROVE  todo'[r] = todo[r] \/ Opens(r)
  <2>1. CASE r = p
    BY <1>2, <2>1
  <2>2. CASE r # p
    BY <1>2, <2>2, NewStatements DEF Opens
  <2> QED BY <2>1, <2>2
<1>3. ASSUME NEW p \in Process, NEW d \in Dispatch, NEW e \in Exec, RunDispatch(p, d, e)
      PROVE  todo'[r] = todo[r] \/ (Quiet(todo'[r]) /\ (todo[r] = <<>> \/ "crash" \in lapse'))
  <2> DEFINE st == Accept(d, e)
  <2>1. st \in Statement /\ OfExec(st) /\ todo' = [todo EXCEPT ![p] = <<st>>]
         /\ todo[p] = <<>>
    BY <1>3, StatementsMade DEF RunDispatch, Accept, OfExec, Begins, Free
  <2> HIDE DEF st
  <2>2. <<st>> \in Seq(Statement) /\ \A j \in 1..Len(<<st>>) : <<st>>[j] = st
    BY <2>1
  <2>3. todo'[p] = <<st>> /\ \A t \in Process : t # p => todo'[t] = todo[t]
    BY <2>1, <2>2, NewStatements
  <2> QED BY <2>1, <2>2, <2>3 DEF Quiet
<1>4. ASSUME NEW e \in Exec, Runner(e)
      PROVE  todo'[r] = todo[r] \/ (Quiet(todo'[r]) /\ (todo[r] = <<>> \/ "crash" \in lapse'))
  <2>1. CASE todo' = todo
    BY <2>1
  <2>2. CASE todo' # todo
    <3> DEFINE p == exec[e].by
    <3>1. PICK q \in Seq(Statement) : Reports(e, q) /\ \A j \in 1..Len(q) : OfExec(q[j])
      BY <2>2, <1>4, RunnerShape
    <3> DEFINE o == IF IsCancelled(exec[e].dispatch) THEN <<>> ELSE q
    <3>2. /\ o \in Seq(Statement) /\ todo' = [todo EXCEPT ![p] = o] /\ p \in Process /\ Quiet(o)
          /\ todo[p] = <<>>
      BY <3>1, <1>4, RunnerShape DEF Reports, Quiet
    <3> HIDE DEF o, p
    <3>3. todo'[p] = o /\ \A t \in Process : t # p => todo'[t] = todo[t]
      BY <3>2, NewStatements
    <3> QED BY <3>2, <3>3
  <2> QED BY <2>1, <2>2
<1>5. ASSUME NEW p \in Process, Write(p)
      PROVE  todo'[r] = todo[r] \/ Write(r)
  BY <1>5, WriteLeaves
<1>6. ASSUME NEW p \in Process, Crash(p)
      PROVE  todo'[r] = todo[r] \/ (Quiet(todo'[r]) /\ (todo[r] = <<>> \/ "crash" \in lapse'))
  <2>1. <<>> \in Seq(Statement) /\ todo' = [todo EXCEPT ![p] = <<>>] /\ Quiet(<<>>)
         /\ "crash" \in lapse'
    BY <1>6 DEF Crash, Quiet
  <2>2. todo'[p] = <<>> /\ \A t \in Process : t # p => todo'[t] = todo[t]
    BY <2>1, NewStatements
  <2> QED BY <2>1, <2>2
<1>7. Cli \subseteq Process
  BY DEF Process
<1> QED BY <1>1, <1>2, <1>3, <1>4, <1>5, <1>6, <1>7, Opening
        DEF Next, vars, TaskStatus, ThreadCreate, QueueDispatch, CancelDispatch

\* What a process leaves of its statements when it makes one.
LEMMA TailOf ==
  ASSUME TypeInv, NEW r \in Process, Write(r), NEW i \in 1..Len(todo'[r])
  PROVE  /\ todo'[r][i] = todo[r][i + 1] /\ i + 1 \in 1..Len(todo[r])
         /\ Len(todo'[r]) = Len(todo[r]) - 1 /\ Len(todo[r]) \in Nat
  BY WriteLeaves DEF TypeInv, TypeOK

\* Names: a handoff's dispatch is attached to it, a plan's dispatches and
\* threads differ, and the planner's dispatches are no handoff's.
WellNamed(q) ==
  /\ \A i \in 1..Len(q) :
       /\ q[i].do = "attach" => q[i].d = DispatchOf(q[i].h)
       /\ q[i].do = "handoff" => q[i].row.dispatch = None /\ Len(q) = 1
       /\ q[i].do = "queue" => (q[i].who = "planner" <=> \A h \in Handoff : q[i].d # DispatchOf(h))
  /\ \A i, j \in 1..Len(q) :
       (q[i].do = "queue" /\ q[j].do = "queue" /\ i # j) =>
         q[i].d # q[j].d /\ q[i].thread # q[j].thread

NameInv ==
  /\ \A p \in Process : WellNamed(todo[p])
  /\ \A d \in planned : dispatch[d] # None /\ \A h \in Handoff : d # DispatchOf(h)

\* Without races one process at a time writes a plan, and one serves a handoff.
AloneInv ==
  "overlap" \notin lapse =>
    \A p, r \in Process : p # r =>
      /\ ~(Planning(p) /\ Planning(r))
      /\ \A h \in Handoff : ~(Serving(p, h) /\ Serving(r, h))

LEMMA InitNames == Init => NameInv /\ AloneInv
  BY DEF Init, NameInv, AloneInv, WellNamed, Planning, Serving

\* What happens to dispatches and handoffs.
LEMMA RowsMove ==
  ASSUME TypeInv, [Next]_vars
  PROVE  \/ \E p \in Process : Write(p)
         \/ dispatch' = dispatch /\ handoff' = handoff /\ planned' = planned
         \/ \E p \in Process, d \in Dispatch, x \in Thread, k \in Task \union {None} :
              QueueDispatch(p, d, x, k)
         \/ \E d \in Dispatch : CancelDispatch(d)
  BY RunnerShape DEF Next, vars, rows, TaskStatus, ThreadCreate, PlanQueue, Submit, Materialize,
                     RunDispatch, Crash

LEMMA NameStep == TypeInv /\ NameInv /\ [Next]_vars => NameInv'
<1> SUFFICES ASSUME TypeInv, NameInv, [Next]_vars PROVE NameInv'
  OBVIOUS
<1>1. ASSUME NEW r \in Process
      PROVE  WellNamed(todo'[r])
  <2>1. WellNamed(todo[r])
    BY DEF NameInv
  <2>2. CASE Write(r)
    <3>1. \A i \in 1..Len(todo'[r]) : /\ todo'[r][i] = todo[r][i + 1] /\ i + 1 \in 1..Len(todo[r])
                                      /\ Len(todo'[r]) = Len(todo[r]) - 1 /\ Len(todo[r]) \in Nat
      BY <2>2, TailOf
    <3>2. \A i \in 1..Len(todo'[r]) :
            /\ todo'[r][i].do = "attach" => todo'[r][i].d = DispatchOf(todo'[r][i].h)
            /\ todo'[r][i].do = "handoff" => todo'[r][i].row.dispatch = None /\ Len(todo'[r]) = 1
            /\ todo'[r][i].do = "queue" =>
                 (todo'[r][i].who = "planner" <=> \A h \in Handoff : todo'[r][i].d # DispatchOf(h))
      BY <2>1, <3>1 DEF WellNamed
    <3>3. \A i, j \in 1..Len(todo'[r]) :
            (todo'[r][i].do = "queue" /\ todo'[r][j].do = "queue" /\ i # j) =>
               todo'[r][i].d # todo'[r][j].d /\ todo'[r][i].thread # todo'[r][j].thread
      <4> TAKE i, j \in 1..Len(todo'[r])
      <4>1. i # j => i + 1 # j + 1
        OBVIOUS
      <4>2. /\ todo'[r][i] = todo[r][i + 1] /\ i + 1 \in 1..Len(todo[r])
            /\ todo'[r][j] = todo[r][j + 1] /\ j + 1 \in 1..Len(todo[r])
        BY <3>1
      <4>3. \A m, l \in 1..Len(todo[r]) :
              (todo[r][m].do = "queue" /\ todo[r][l].do = "queue" /\ m # l) =>
                todo[r][m].d # todo[r][l].d /\ todo[r][m].thread # todo[r][l].thread
        BY <2>1 DEF WellNamed
      <4> HIDE DEF WellNamed
      <4> QED BY <4>1, <4>2, <4>3
    <3> QED BY <3>2, <3>3 DEF WellNamed
  <2>3. CASE Quiet(todo'[r])
    BY <2>3 DEF Quiet, OfExec, WellNamed
  <2>4. CASE Opens(r)
    <3>1. PICK q \in Seq(Statement) :
            /\ todo' = [todo EXCEPT ![r] = q]
            /\ PlanShaped(q) \/ \E h \in Handoff : SubmitShaped(q, h) \/ MaterializeShaped(q, h)
      BY <2>4 DEF Opens
    <3>2. todo'[r] = q
      BY <3>1, NewStatements
    <3>3. CASE PlanShaped(q)
      BY <3>2, <3>3 DEF PlanShaped, WellNamed
    <3>4. ASSUME NEW h \in Handoff, SubmitShaped(q, h)
          PROVE  WellNamed(q)
      BY <3>4 DEF SubmitShaped, WellNamed
    <3>5. ASSUME NEW h \in Handoff, MaterializeShaped(q, h)
          PROVE  WellNamed(q)
      BY <3>5 DEF MaterializeShaped, WellNamed
    <3> QED BY <3>1, <3>2, <3>3, <3>4, <3>5
  <2> QED BY <2>1, <2>2, <2>3, <2>4, TodoMoves
<1>2. ASSUME NEW d \in planned'
      PROVE  dispatch'[d] # None /\ \A h \in Handoff : d # DispatchOf(h)
  <2>1. ASSUME NEW p \in Process, Write(p)
        PROVE  dispatch'[d] # None /\ \A h \in Handoff : d # DispatchOf(h)
    <3> DEFINE s == todo[p][1]
    <3>1. /\ s \in Statement /\ WellNamed(todo[p]) /\ 1 \in 1..Len(todo[p])
          /\ planned' = IF s.do = "queue" /\ s.who = "planner" THEN planned \union {s.d} ELSE planned
          /\ s.do = "queue" => dispatch'[s.d] = NewRow(s.thread, s.task)
      BY <2>1, WriteEffect, WriteLeaves DEF NameInv
    <3>2. CASE d \in planned
      BY <2>1, <3>2, WriteTypes DEF NameInv, RowsStay, TypeInv, TypeOK
    <3>3. CASE d \notin planned
      <4>1. s.do = "queue" /\ s.who = "planner" /\ d = s.d
        BY <3>1, <3>3, <1>2
      <4>2. NewRow(s.thread, s.task) # None
        BY <3>1, <4>1, StatementKinds, NoneIsNoRow DEF NewRow, DispatchRow, DispatchStatus, Active
      <4> QED BY <3>1, <4>1, <4>2 DEF WellNamed
    <3> QED BY <3>2, <3>3
  <2>2. CASE dispatch' = dispatch /\ planned' = planned
    BY <2>2, <1>2 DEF NameInv
  <2>3. ASSUME NEW p \in Process, NEW c \in Dispatch, NEW x \in Thread, NEW k \in Task \union {None},
               QueueDispatch(p, c, x, k)
        PROVE  dispatch'[d] # None /\ \A h \in Handoff : d # DispatchOf(h)
    <3>1. d \in planned /\ d \in Dispatch
      BY <2>3, <1>2, QueueEffect DEF TypeInv, TypeOK
    <3> QED BY <3>1, <2>3, QueueEffect DEF NameInv
  <2>4. ASSUME NEW c \in Dispatch, CancelDispatch(c)
        PROVE  dispatch'[d] # None /\ \A h \in Handoff : d # DispatchOf(h)
    <3>1. d \in planned /\ d \in Dispatch
      BY <2>4, <1>2, CancelEffect DEF TypeInv, TypeOK
    <3> QED BY <3>1, <2>4, CancelEffect DEF NameInv
  <2> QED BY <2>1, <2>2, <2>3, <2>4, RowsMove
<1> QED BY <1>1, <1>2 DEF NameInv

LEMMA AloneStep == TypeInv /\ AloneInv /\ [Next]_vars => AloneInv'
<1> SUFFICES ASSUME TypeInv, AloneInv, [Next]_vars, "overlap" \notin lapse'
             PROVE  \A p, r \in Process : p # r =>
                      /\ ~(Planning(p)' /\ Planning(r)')
                      /\ \A h \in Handoff : ~(Serving(p, h)' /\ Serving(r, h)')
  BY DEF AloneInv
<1>1. \A p, r \in Process : p # r =>
        /\ ~(Planning(p) /\ Planning(r))
        /\ \A h \in Handoff : ~(Serving(p, h) /\ Serving(r, h))
  BY LapsesGrow DEF AloneInv
\* Who begins meets nobody in the middle of the same.
<1>2. ASSUME NEW t \in Process, Opens(t)
      PROVE  /\ \A r \in Process : r # t => /\ Planning(r)' <=> Planning(r)
                                           /\ \A h \in Handoff : Serving(r, h)' <=> Serving(r, h)
             /\ Planning(t)' => \A r \in Process : ~Planning(r)
             /\ \A h \in Handoff : Serving(t, h)' => \A r \in Process : ~Serving(r, h)
  <2>1. PICK q \in Seq(Statement), more \in SUBSET {"again", "overlap"} :
          /\ Begins(t, more) /\ todo' = [todo EXCEPT ![t] = q]
          /\ \/ PlanShaped(q) /\ more = Overlap(\E r \in Process : Planning(r))
             \/ \E h \in Handoff : SubmitShaped(q, h) /\ more = Overlap(\E r \in Process : Serving(r, h))
             \/ \E h \in Handoff : MaterializeShaped(q, h) /\ more = Overlap(\E r \in Process : Serving(r, h))
    BY <1>2 DEF Opens
  <2>2. todo'[t] = q /\ \A r \in Process : r # t => todo'[r] = todo[r]
    BY <2>1, NewStatements
  <2>3. "overlap" \notin more
    BY <2>1, LapsesKept
  <2>4. \A r \in Process : r # t => /\ Planning(r)' <=> Planning(r)
                                    /\ \A h \in Handoff : Serving(r, h)' <=> Serving(r, h)
    BY <2>2 DEF Planning, Serving
  <2>5. CASE PlanShaped(q) /\ more = Overlap(\E r \in Process : Planning(r))
    <3>1. \A r \in Process : ~Planning(r)
      BY <2>3, <2>5 DEF Overlap
    <3>2. \A h \in Handoff : ~Serving(t, h)'
      BY <2>2, <2>5 DEF Serving, PlanShaped
    <3> QED BY <2>4, <3>1, <3>2
  <2>6. ASSUME NEW h \in Handoff, more = Overlap(\E r \in Process : Serving(r, h)),
               SubmitShaped(q, h) \/ MaterializeShaped(q, h)
        PROVE  /\ Planning(t)' => \A r \in Process : ~Planning(r)
               /\ \A g \in Handoff : Serving(t, g)' => \A r \in Process : ~Serving(r, g)
    <3>1. \A r \in Process : ~Serving(r, h)
      BY <2>3, <2>6 DEF Overlap
    <3>2. ~Planning(t)'
      BY <2>2, <2>6 DEF Planning, SubmitShaped, MaterializeShaped
    <3>3. \A g \in Handoff : Serving(t, g)' => g = h
      BY <2>2, <2>6 DEF Serving, SubmitShaped, MaterializeShaped
    <3> QED BY <3>1, <3>2, <3>3
  <2> QED BY <2>1, <2>4, <2>5, <2>6
\* Nobody else comes to be in the middle of anything.
<1>3. ASSUME NEW t \in Process, ~Opens(t)
      PROVE  /\ Planning(t)' => Planning(t)
             /\ \A h \in Handoff : Serving(t, h)' => Serving(t, h)
  <2>1. CASE todo'[t] = todo[t]
    BY <2>1 DEF Planning, Serving
  <2>2. CASE Write(t)
    BY <2>2, TailOf DEF Planning, Serving
  <2>3. CASE Quiet(todo'[t])
    BY <2>3 DEF Quiet, OfExec, Planning, Serving
  <2> QED BY <1>3, <2>1, <2>2, <2>3, TodoMoves
<1>4. CASE \E t \in Process : Opens(t)
  BY <1>1, <1>2, <1>4
<1>5. CASE \A t \in Process : ~Opens(t)
  BY <1>1, <1>3, <1>5
<1> QED BY <1>4, <1>5

-----------------------------------------------------------------------------
(* Handoffs are queued once. *)

\* The attachment of a handoff's dispatch is to be written, from place i on.
AttachDue(p, i, h) == \E j \in i..Len(todo[p]) : todo[p][j].do = "attach" /\ todo[p][j].h = h

\* A handoff with a dispatch has it attached, or is just getting it.
Attached(h) ==
  dispatch[DispatchOf(h)] # None =>
    /\ handoff[h] # None
    /\ handoff[h].dispatch = DispatchOf(h) \/ \E p \in Process : AttachDue(p, 1, h)

\* A handoff that is to be stored is new, and so is a dispatch of one.
Fresh(p, i) ==
  /\ todo[p][i].do = "handoff" => handoff[todo[p][i].h] = None
  /\ \A h \in Handoff :
       (todo[p][i].do = "queue" /\ todo[p][i].d = DispatchOf(h)) =>
         dispatch[DispatchOf(h)] = None /\ handoff[h] # None /\ AttachDue(p, i + 1, h)

HandoffInv ==
  Without({"crash", "overlap", "again"}) =>
    /\ \A h \in Handoff : Attached(h)
    /\ \A p \in Process : \A i \in 1..Len(todo[p]) : Fresh(p, i)

LEMMA InitHandoff == Init => HandoffInv
  BY DispatchAssumption DEF Init, HandoffInv, Attached

\* The statement made, when no two operations race.
LEMMA HandoffWrite ==
  ASSUME TypeInv, NameInv, AloneInv, "overlap" \notin lapse, NEW p \in Process, Write(p),
         \A h \in Handoff : Attached(h),
         \A r \in Process : \A i \in 1..Len(todo[r]) : Fresh(r, i)
  PROVE  /\ \A h \in Handoff : Attached(h)'
         /\ \A r \in Process : \A i \in 1..Len(todo'[r]) : Fresh(r, i)'
<1> DEFINE s == todo[p][1]
<1>1. /\ s \in Statement /\ Fresh(p, 1) /\ Refers(p, 1) /\ WellNamed(todo[p]) /\ 1 \in 1..Len(todo[p])
      /\ \A c \in Dispatch : c # s.d \/ s.do \notin {"queue", "accept", "event"} => dispatch'[c] = dispatch[c]
      /\ s.do \notin {"attach", "handoff"} => handoff' = handoff
      /\ s.do = "attach" => handoff' = [handoff EXCEPT ![s.h].dispatch = s.d]
      /\ s.do = "handoff" => handoff' = [handoff EXCEPT ![s.h] = s.row] \/ handoff' = handoff
  BY WriteEffect, WriteLeaves DEF NameInv, TypeInv
<1>2. RowsStay
  BY WriteTypes
<1>3. /\ \A r \in Process : r # p => todo'[r] = todo[r]
      /\ \A i \in 1..Len(todo'[p]) : todo'[p][i] = todo[p][i + 1] /\ i + 1 \in 1..Len(todo[p])
      /\ Len(todo'[p]) = Len(todo[p]) - 1 /\ Len(todo[p]) \in Nat
  BY WriteLeaves DEF TypeInv, TypeOK
<1>4. \A r \in Process, h \in Handoff : Serving(p, h) /\ Serving(r, h) => r = p
  BY DEF AloneInv
<1>5. \A h \in Handoff : DispatchOf(h) \in Dispatch
  BY DispatchAssumption
\* Attachments that were due later are still due, and one place nearer.
<1>6. ASSUME NEW h \in Handoff, NEW i \in Nat \ {0}, AttachDue(p, i + 1, h)
      PROVE  AttachDue(p, i, h)'
  <2>1. PICK j \in i + 1..Len(todo[p]) : todo[p][j].do = "attach" /\ todo[p][j].h = h
    BY <1>6 DEF AttachDue
  <2>2. j - 1 \in i..Len(todo'[p]) /\ j - 1 \in 1..Len(todo'[p]) /\ (j - 1) + 1 = j
    BY <2>1, <1>3
  <2>3. todo'[p][j - 1] = todo[p][j]
    BY <2>2, <1>3
  <2> QED BY <2>1, <2>2, <2>3 DEF AttachDue
<1>7. ASSUME NEW h \in Handoff
      PROVE  Attached(h)'
  <2> DEFINE d == DispatchOf(h)
  <2> SUFFICES ASSUME dispatch'[d] # None
               PROVE  /\ handoff'[h] # None
                      /\ handoff'[h].dispatch = d \/ \E r \in Process : AttachDue(r, 1, h)'
    BY DEF Attached
  <2>1. CASE dispatch[d] = None
    <3>1. s.do = "queue" /\ s.d = d
      BY <2>1, <1>1, <1>5 DEF Refers, OfExec
    <3>2. handoff[h] # None /\ AttachDue(p, 1 + 1, h)
      BY <3>1, <1>1 DEF Fresh
    <3>3. AttachDue(p, 1, h)'
      BY <3>2, <1>6
    <3> QED BY <3>2, <3>3, <1>2 DEF RowsStay
  <2>2. CASE dispatch[d] # None
    <3>1. handoff[h] # None /\ handoff'[h] # None
      BY <2>2, <1>2 DEF Attached, RowsStay
    <3>2. handoff[h] \in HandoffRow /\ handoff \in [Handoff -> HandoffRow \union {None}]
      BY <3>1 DEF TypeInv, TypeOK
    <3>3. ASSUME s.do = "attach", s.h = h
          PROVE  handoff'[h].dispatch = d
      <4>1. handoff' = [handoff EXCEPT ![h] = [handoff[h] EXCEPT !.dispatch = d]]
        BY <3>3, <1>1 DEF WellNamed
      <4>2. [handoff[h] EXCEPT !.dispatch = d].dispatch = d
        BY <3>2 DEF HandoffRow
      <4> QED BY <4>1, <4>2, <3>2
    <3>4. CASE handoff[h].dispatch = d
      <4>1. s.do = "handoff" => s.h # h
        BY <3>1, <1>1 DEF Fresh
      <4>2. (s.do # "attach" \/ s.h # h) => handoff'[h] = handoff[h]
        BY <4>1, <1>1, <3>2
      <4> QED BY <3>1, <3>3, <3>4, <4>2
    <3>5. ASSUME NEW r \in Process, AttachDue(r, 1, h)
          PROVE  handoff'[h].dispatch = d \/ AttachDue(r, 1, h)'
      <4>1. PICK j \in 1..Len(todo[r]) : todo[r][j].do = "attach" /\ todo[r][j].h = h
        BY <3>5 DEF AttachDue
      <4>2. CASE r # p
        <5>1. todo'[r] = todo[r]
          BY <4>2, <1>3
        <5> QED BY <4>1, <5>1 DEF AttachDue
      <4>3. CASE r = p /\ j = 1
        BY <4>1, <4>3, <3>3
      <4>4. CASE r = p /\ j # 1
        <5>1. j \in 1 + 1..Len(todo[p])
          BY <4>4, <1>3
        <5>2. AttachDue(p, 1 + 1, h)
          BY <5>1, <4>1, <4>4 DEF AttachDue
        <5> QED BY <5>2, <4>4, <1>6
      <4> QED BY <4>2, <4>3, <4>4
    <3> QED BY <2>2, <3>1, <3>4, <3>5 DEF Attached
  <2> QED BY <2>1, <2>2
<1>8. ASSUME NEW r \in Process, NEW i \in 1..Len(todo'[r])
      PROVE  Fresh(r, i)'
  <2> DEFINE m == IF r = p THEN i + 1 ELSE i
             t == todo[r][m]
  <2>1. m \in 1..Len(todo[r]) /\ todo'[r][i] = t /\ (r = p => m # 1)
    BY <1>3, <1>8
  <2>2. Fresh(r, m)
    BY <2>1
  <2>3. ASSUME t.do = "handoff"
        PROVE  handoff'[t.h] = None
    <3>1. r = p => Len(todo[p]) = 1
      BY <2>1, <2>3, <1>1 DEF WellNamed
    <3>2. r # p
      BY <3>1, <2>1, <1>3
    <3>3. t \in Statement /\ t.h \in Handoff /\ Serving(r, t.h)
      BY <2>1, <2>3, StatementKinds DEF Serving, TypeInv, TypeOK
    <3>4. s.do \in {"attach", "handoff"} => s.h # t.h
      BY <3>2, <3>3, <1>1, <1>4 DEF Serving
    <3>5. handoff'[t.h] = handoff[t.h]
      BY <3>3, <3>4, <1>1 DEF TypeInv, TypeOK
    <3> QED BY <3>5, <2>2, <2>3 DEF Fresh
  <2>4. ASSUME NEW h \in Handoff, t.do = "queue", t.d = DispatchOf(h)
        PROVE  dispatch'[DispatchOf(h)] = None /\ handoff'[h] # None /\ AttachDue(r, i + 1, h)'
    <3>1. dispatch[DispatchOf(h)] = None /\ handoff[h] # None /\ AttachDue(r, m + 1, h)
      BY <2>2, <2>4 DEF Fresh
    <3>2. s.do \in {"accept", "event"} => s.d # DispatchOf(h)
      BY <3>1, <1>1 DEF Refers, OfExec
    <3>3. s.do = "queue" => s.d # DispatchOf(h)
      <4>1. Serving(r, h)
        BY <2>1, <3>1 DEF AttachDue, Serving
      <4>2. s.do = "queue" /\ s.d = DispatchOf(h) => Serving(p, h)
        BY <1>1 DEF Fresh, AttachDue, Serving
      <4>3. s.do = "queue" /\ s.d = DispatchOf(h) => r = p /\ m # 1
        BY <2>1, <4>1, <4>2, <1>4
      <4> QED BY <4>3, <2>1, <2>4, <1>1 DEF WellNamed
    <3>4. dispatch'[DispatchOf(h)] = None
      BY <3>1, <3>2, <3>3, <1>1, <1>5
    <3>5. AttachDue(r, i + 1, h)'
      <4>1. CASE r = p
        BY <4>1, <3>1, <1>6
      <4>2. CASE r # p
        <5>1. todo'[r] = todo[r] /\ m = i
          BY <4>2, <1>3
        <5> QED BY <5>1, <3>1 DEF AttachDue
      <4> QED BY <4>1, <4>2
    <3> QED BY <3>1, <3>4, <3>5, <1>2 DEF RowsStay
  <2> HIDE DEF t
  <2> QED BY <2>1, <2>3, <2>4 DEF Fresh
<1> QED BY <1>7, <1>8

LEMMA HandoffStep ==
  TypeInv /\ NameInv /\ AloneInv /\ HandoffInv /\ [Next]_vars => HandoffInv'
<1> SUFFICES ASSUME TypeInv, NameInv, AloneInv, HandoffInv, [Next]_vars,
                    Without({"crash", "overlap", "again"})'
             PROVE  /\ \A h \in Handoff : Attached(h)'
                    /\ \A r \in Process : \A i \in 1..Len(todo'[r]) : Fresh(r, i)'
  BY DEF HandoffInv
<1>1. /\ "crash" \notin lapse' /\ "overlap" \notin lapse' /\ "again" \notin lapse'
      /\ Without({"crash", "overlap", "again"}) /\ "overlap" \notin lapse
  BY LapsesGrow DEF Without
<1>2. /\ \A h \in Handoff : Attached(h)
      /\ \A r \in Process : \A i \in 1..Len(todo[r]) : Fresh(r, i)
  BY <1>1 DEF HandoffInv
<1>3. \A h \in Handoff : DispatchOf(h) \in Dispatch
  BY DispatchAssumption
<1>4. ASSUME NEW p \in Process, Write(p)
      PROVE  /\ \A h \in Handoff : Attached(h)'
             /\ \A r \in Process : \A i \in 1..Len(todo'[r]) : Fresh(r, i)'
  BY <1>1, <1>2, <1>4, HandoffWrite
\* Dispatches that come are no handoff's.
<1>5. ASSUME handoff' = handoff, todo' = todo,
             \A h \in Handoff : dispatch'[DispatchOf(h)] # None <=> dispatch[DispatchOf(h)] # None
      PROVE  /\ \A h \in Handoff : Attached(h)'
             /\ \A r \in Process : \A i \in 1..Len(todo'[r]) : Fresh(r, i)'
  BY <1>2, <1>5 DEF Attached, AttachDue, Fresh
<1>6. ASSUME NEW p \in Process, NEW d \in Dispatch, NEW x \in Thread, NEW k \in Task \union {None},
             QueueDispatch(p, d, x, k)
      PROVE  /\ \A h \in Handoff : Attached(h)'
             /\ \A r \in Process : \A i \in 1..Len(todo'[r]) : Fresh(r, i)'
  BY <1>1, <1>3, <1>5, <1>6, QueueEffect
<1>7. ASSUME NEW d \in Dispatch, CancelDispatch(d)
      PROVE  /\ \A h \in Handoff : Attached(h)'
             /\ \A r \in Process : \A i \in 1..Len(todo'[r]) : Fresh(r, i)'
  BY <1>1, <1>3, <1>5, <1>7, CancelEffect
<1>8. CASE \E p \in Process : Opens(p)
  <2>1. PICK p \in Process, q \in Seq(Statement), more \in SUBSET {"again", "overlap"} :
          /\ Begins(p, more) /\ todo' = [todo EXCEPT ![p] = q] /\ UNCHANGED <<rows, exec, planned>>
          /\ \/ PlanShaped(q)
             \/ \E h \in Handoff : SubmitShaped(q, h) /\ handoff[h] = None
             \/ \E h \in Handoff : /\ MaterializeShaped(q, h) /\ handoff[h] # None /\ ~Materialized(h)
                                   /\ more = Overlap(\E r \in Process : Serving(r, h))
    BY <1>8 DEF Opens
  <2>2. todo'[p] = q /\ todo[p] = <<>> /\ "overlap" \notin more
        /\ \A r \in Process : r # p => todo'[r] = todo[r]
    BY <2>1, <1>1, NewStatements, LapsesKept
  <2>3. dispatch' = dispatch /\ handoff' = handoff
    BY <2>1 DEF rows
  <2>4. ASSUME NEW h \in Handoff, NEW r \in Process, AttachDue(r, 1, h)
        PROVE  AttachDue(r, 1, h)'
    <3>1. todo'[r] = todo[r]
      BY <2>2, <2>4 DEF AttachDue
    <3> QED BY <2>4, <3>1 DEF AttachDue
  <2>5. ASSUME NEW i \in 1..Len(q)
        PROVE  Fresh(p, i)'
    <3>1. CASE PlanShaped(q)
      BY <3>1, <2>2, <2>3, <2>5 DEF PlanShaped, Fresh
    <3>2. ASSUME NEW h \in Handoff, SubmitShaped(q, h), handoff[h] = None
          PROVE  Fresh(p, i)'
      BY <3>2, <2>2, <2>3, <2>5 DEF SubmitShaped, Fresh
    <3>3. ASSUME NEW h \in Handoff, MaterializeShaped(q, h), handoff[h] # None, ~Materialized(h),
                 more = Overlap(\E r \in Process : Serving(r, h))
          PROVE  Fresh(p, i)'
      <4>1. dispatch[DispatchOf(h)] = None
        <5>1. \A r \in Process : ~Serving(r, h)
          BY <2>2, <3>3 DEF Overlap
        <5>2. \A r \in Process : ~AttachDue(r, 1, h)
          BY <5>1 DEF AttachDue, Serving
        <5> QED BY <5>2, <1>2, <1>3, <3>3, DispatchAssumption DEF Attached, Materialized
      <4>2. q[i].do # "handoff"
        BY <3>3 DEF MaterializeShaped
      <4>3. ASSUME NEW g \in Handoff, q[i].do = "queue", q[i].d = DispatchOf(g)
            PROVE  g = h /\ AttachDue(p, i + 1, g)'
        <5>1. q[i].d = DispatchOf(h) /\ \E j \in i + 1..Len(q) : q[j].do = "attach" /\ q[j].h = h
          BY <3>3, <4>3 DEF MaterializeShaped
        <5>2. g = h
          BY <5>1, <4>3, DispatchAssumption
        <5> QED BY <5>1, <5>2, <2>2 DEF AttachDue
      <4> QED BY <4>1, <4>2, <4>3, <2>2, <2>3, <3>3 DEF Fresh
    <3> QED BY <2>1, <3>1, <3>2, <3>3
  <2>6. ASSUME NEW r \in Process, NEW i \in 1..Len(todo'[r])
        PROVE  Fresh(r, i)'
    <3>1. CASE r = p
      BY <2>2, <2>5, <2>6, <3>1
    <3>2. CASE r # p
      <4>1. todo'[r] = todo[r]
        BY <2>2, <3>2
      <4>2. Fresh(r, i)
        BY <1>2, <2>6, <4>1
      <4> QED BY <2>3, <4>1, <4>2 DEF Fresh, AttachDue
    <3> QED BY <3>1, <3>2
  <2>7. \A h \in Handoff : Attached(h)'
    BY <1>2, <2>3, <2>4 DEF Attached
  <2> QED BY <2>6, <2>7
\* The rows and the operations' statements stay.
<1>9. CASE dispatch' = dispatch /\ handoff' = handoff
           /\ \A r \in Process : todo'[r] = todo[r] \/ (Quiet(todo'[r]) /\ todo[r] = <<>>)
  <2>1. ASSUME NEW h \in Handoff, NEW r \in Process, AttachDue(r, 1, h)
        PROVE  AttachDue(r, 1, h)'
    <3>1. todo'[r] = todo[r]
      BY <1>9, <2>1 DEF AttachDue
    <3> QED BY <2>1, <3>1 DEF AttachDue
  <2>2. \A h \in Handoff : Attached(h)'
    BY <1>2, <1>9, <2>1 DEF Attached
  <2>3. ASSUME NEW r \in Process, NEW i \in 1..Len(todo'[r])
        PROVE  Fresh(r, i)'
    <3>1. CASE todo'[r] = todo[r]
      <4>1. Fresh(r, i)
        BY <1>2, <2>3, <3>1
      <4> QED BY <4>1, <3>1, <1>9 DEF Fresh, AttachDue
    <3>2. CASE Quiet(todo'[r])
      BY <2>3, <3>2 DEF Quiet, OfExec, Fresh
    <3> QED BY <3>1, <3>2, <1>9
  <2> QED BY <2>2, <2>3
<1>10. ASSUME \A p \in Process : ~Opens(p) /\ ~Write(p)
       PROVE  \A r \in Process : todo'[r] = todo[r] \/ (Quiet(todo'[r]) /\ todo[r] = <<>>)
  <2> TAKE r \in Process
  <2>1. \/ todo'[r] = todo[r]
        \/ Write(r)
        \/ Quiet(todo'[r]) /\ (todo[r] = <<>> \/ "crash" \in lapse')
        \/ Opens(r)
    BY TodoMoves
  <2> QED BY <1>1, <1>10, <2>1
<1>11. CASE \E p \in Process : Opens(p) \/ Write(p)
  BY <1>4, <1>8, <1>11
<1>12. CASE \A p \in Process : ~Opens(p) /\ ~Write(p)
  <2>1. CASE dispatch' = dispatch /\ handoff' = handoff
    BY <1>9, <1>10, <1>12, <2>1
  <2> QED BY <1>6, <1>7, <1>12, <2>1, RowsMove
<1> QED BY <1>11, <1>12

\* Without crashes, races and dispatches queued or run again,
\* a handoff's dispatch is put into the queue once.
THEOREM HandoffsQueuedOnce == Spec => NotQueuedTwice
<1>1. ASSUME TypeInv, ExecInv, HandoffInv, [Next]_vars
      PROVE  [\A h \in Handoff :
                LET d == DispatchOf(h)
                IN Status(d) \notin {None, "queued"} /\ Status(d)' = "queued"
                     => lapse' \cap {"crash", "overlap", "again"} # {}]_vars
  <2> SUFFICES ASSUME NEW h \in Handoff, Status(DispatchOf(h)) \notin {None, "queued"},
                      Status(DispatchOf(h))' = "queued", Without({"crash", "overlap", "again"})'
               PROVE  FALSE
    BY DEF Without
  <2> DEFINE d == DispatchOf(h)
  <2>1. /\ d \in Dispatch /\ dispatch[d] # None /\ dispatch[d].status # "queued"
        /\ dispatch'[d] # None => dispatch'[d].status = "queued"
        /\ dispatch'[d] # None
    BY DispatchAssumption, NoRowAssumption DEF Status, DispatchStatus, Active
  <2>2. /\ "crash" \notin lapse' /\ "overlap" \notin lapse' /\ "again" \notin lapse'
        /\ Without({"crash", "overlap", "again"})
    BY <1>1, LapsesGrow DEF Without
  <2>3. ASSUME NEW p \in Process, Write(p)
        PROVE  FALSE
    <3> DEFINE s == todo[p][1]
    <3>1. /\ s \in Statement /\ Phased(p, 1) /\ 1 \in 1..Len(todo[p])
          /\ \A c \in Dispatch : c # s.d \/ s.do \notin {"queue", "accept", "event"} => dispatch'[c] = dispatch[c]
          /\ s.do = "accept" => dispatch'[s.d].status = "accepted"
          /\ s.do = "event" => dispatch'[s.d].status = s.status
      BY <1>1, <2>3, WriteEffect, WriteLeaves DEF ExecInv
    <3>2. s.do = "queue" => s.d # d
      BY <1>1, <2>1, <2>2, <3>1 DEF HandoffInv, Fresh
    <3>3. s.do = "event" => s.status # "queued"
      BY <3>1 DEF Phased, OfExec, Outcomes
    <3> HIDE DEF s
    <3> QED BY <2>1, <3>1, <3>2, <3>3
  <2>4. ASSUME NEW p \in Process, NEW c \in Dispatch, NEW x \in Thread, NEW k \in Task \union {None},
               QueueDispatch(p, c, x, k)
        PROVE  FALSE
    BY <1>1, <2>1, <2>2, <2>4, QueueEffect
  <2>5. ASSUME NEW c \in Dispatch, CancelDispatch(c)
        PROVE  FALSE
    BY <1>1, <2>1, <2>5, CancelEffect
  <2> QED BY <1>1, <2>1, <2>3, <2>4, <2>5, RowsMove
<1> QED BY <1>1, InitTypes, TypeStep, InitExec, ExecStep, InitNames, NameStep, AloneStep,
           InitHandoff, HandoffStep, PTL DEF Spec, NotQueuedTwice

-----------------------------------------------------------------------------
(* The planner's dispatches are alone on their thread and task. *)

\* A dispatch is run once at a time, and open while the turn goes on.
Working(e) == exec[e].pc \in {"accepting", "chatting"}
OneInv ==
  "again" \notin lapse =>
    /\ \A e, f \in Exec : (UnderWay(e) /\ UnderWay(f) /\ exec[e].dispatch = exec[f].dispatch) => e = f
    /\ \A e \in Exec : Working(e) => dispatch[exec[e].dispatch].status \in Active \union {"cancelled"}

LEMMA InitOne == Init => OneInv
  BY DEF Init, OneInv, UnderWay, Working, NoExec

\* Executions come from runs of dispatches alone.
LEMMA ExecMoves ==
  ASSUME TypeInv, [Next]_vars,
         \A p \in Process, d \in Dispatch, e \in Exec : ~RunDispatch(p, d, e),
         NEW g \in Exec
  PROVE  /\ exec'[g].dispatch = exec[g].dispatch
         /\ UnderWay(g)' => UnderWay(g)
         /\ Working(g)' => Working(g)
<1>1. CASE exec' = exec
  BY <1>1 DEF UnderWay, Working
<1>2. ASSUME NEW e \in Exec, Runner(e)
      PROVE  /\ exec'[g].dispatch = exec[g].dispatch
             /\ UnderWay(g)' => UnderWay(g)
             /\ Working(g)' => Working(g)
  <2>1. CASE g = e
    BY <1>2, <2>1, RunnerShape DEF Working
  <2>2. CASE g # e
    <3>1. exec'[g] = exec[g]
      BY <1>2, <2>2, RunnerShape
    <3> QED BY <3>1 DEF UnderWay, Working
  <2> QED BY <2>1, <2>2
<1>3. ASSUME NEW p \in Process, Crash(p)
      PROVE  /\ exec'[g].dispatch = exec[g].dispatch
             /\ UnderWay(g)' => UnderWay(g)
             /\ Working(g)' => Working(g)
  <2>1. exec'[g] = IF exec[g].by = p /\ UnderWay(g) THEN [exec[g] EXCEPT !.pc = "dead"] ELSE exec[g]
    BY <1>3 DEF Crash
  <2>2. /\ [exec[g] EXCEPT !.pc = "dead"].pc = "dead"
        /\ [exec[g] EXCEPT !.pc = "dead"].dispatch = exec[g].dispatch
    BY DEF TypeInv, TypeOK, Execution
  <2> QED BY <2>1, <2>2 DEF UnderWay, Working
<1>4. CASE \E p \in Process : Write(p)
  BY <1>1, <1>4 DEF Write
<1> QED BY <1>1, <1>2, <1>3, <1>4
        DEF Next, vars, TaskStatus, ThreadCreate, QueueDispatch, CancelDispatch, PlanQueue, Submit, Materialize

LEMMA OneStep == TypeInv /\ ExecInv /\ OneInv /\ [Next]_vars => OneInv'
<1> SUFFICES ASSUME TypeInv, ExecInv, OneInv, [Next]_vars, "again" \notin lapse'
             PROVE  /\ \A e, f \in Exec : (UnderWay(e)' /\ UnderWay(f)' /\ exec'[e].dispatch = exec'[f].dispatch) => e = f
                    /\ \A e \in Exec : Working(e)' => dispatch'[exec'[e].dispatch].status \in Active \union {"cancelled"}
  BY DEF OneInv
<1>1. /\ \A e, f \in Exec : (UnderWay(e) /\ UnderWay(f) /\ exec[e].dispatch = exec[f].dispatch) => e = f
      /\ \A e \in Exec : Working(e) => dispatch[exec[e].dispatch].status \in Active \union {"cancelled"}
  BY LapsesGrow DEF OneInv
<1>2. ASSUME NEW p \in Process, NEW d \in Dispatch, NEW e \in Exec, RunDispatch(p, d, e)
      PROVE  /\ \A f, g \in Exec : (UnderWay(f)' /\ UnderWay(g)' /\ exec'[f].dispatch = exec'[g].dispatch) => f = g
             /\ \A f \in Exec : Working(f)' => dispatch'[exec'[f].dispatch].status \in Active \union {"cancelled"}
  <2>1. PICK more \in SUBSET {"again"} :
          /\ Begins(p, more)
          /\ (dispatch[d].status # "queued" \/ \E f \in Exec : exec[f].dispatch = d /\ UnderWay(f))
               => more = {"again"}
    BY <1>2 DEF RunDispatch
  <2>2. dispatch[d].status = "queued" /\ \A f \in Exec : UnderWay(f) => exec[f].dispatch # d
    BY <2>1, LapsesKept
  <2>3. dispatch' = dispatch
    BY <1>2 DEF RunDispatch, rows
  <2>4. /\ exec' = [exec EXCEPT ![e] = [exec[e] EXCEPT !.pc = "accepting", !.dispatch = d, !.by = p]]
        /\ [exec[e] EXCEPT !.pc = "accepting", !.dispatch = d, !.by = p].dispatch = d
    BY <1>2 DEF RunDispatch, TypeInv, TypeOK, Execution
  <2>5. exec'[e].dispatch = d /\ \A f \in Exec : f # e => exec'[f] = exec[f]
    BY <2>4 DEF TypeInv, TypeOK
  <2>6. \A f \in Exec : f # e => /\ UnderWay(f)' <=> UnderWay(f)
                                 /\ Working(f)' <=> Working(f)
    BY <2>5 DEF UnderWay, Working
  <2> QED BY <1>1, <2>2, <2>3, <2>5, <2>6 DEF Active
<1>3. ASSUME \A p \in Process, d \in Dispatch, e \in Exec : ~RunDispatch(p, d, e)
      PROVE  /\ \A f, g \in Exec : (UnderWay(f)' /\ UnderWay(g)' /\ exec'[f].dispatch = exec'[g].dispatch) => f = g
             /\ \A f \in Exec : Working(f)' => dispatch'[exec'[f].dispatch].status \in Active \union {"cancelled"}
  <2>1. \A g \in Exec : /\ exec'[g].dispatch = exec[g].dispatch
                        /\ UnderWay(g)' => UnderWay(g)
                        /\ Working(g)' => Working(g)
    BY <1>3, ExecMoves
  <2>2. ASSUME NEW g \in Exec, Working(g)
        PROVE  dispatch'[exec[g].dispatch].status \in Active \union {"cancelled"}
    <3> DEFINE d == exec[g].dispatch
    <3>1. d \in Dispatch /\ dispatch[d] # None /\ UnderWay(g)
      BY <2>2 DEF Working, UnderWay, TypeInv, Employed
    <3>2. dispatch[d].status \in Active \union {"cancelled"}
      BY <1>1, <2>2
    <3> HIDE DEF d
    <3>3. CASE dispatch' = dispatch
      BY <3>2, <3>3 DEF d
    <3>4. ASSUME NEW p \in Process, NEW c \in Dispatch, NEW x \in Thread, NEW k \in Task \union {None},
                 QueueDispatch(p, c, x, k)
          PROVE  dispatch'[d].status \in Active \union {"cancelled"}
      BY <3>1, <3>2, <3>4, QueueEffect DEF Active
    <3>5. ASSUME NEW c \in Dispatch, CancelDispatch(c)
          PROVE  dispatch'[d].status \in Active \union {"cancelled"}
      BY <3>1, <3>2, <3>5, CancelEffect
    <3>6. ASSUME NEW p \in Process, Write(p)
          PROVE  dispatch'[d].status \in Active \union {"cancelled"}
      <4> DEFINE s == todo[p][1]
      <4>1. /\ s \in Statement /\ Phased(p, 1)
            /\ \A c \in Dispatch :
                 c # s.d \/ s.do \notin {"queue", "accept", "event"} => dispatch'[c] = dispatch[c]
            /\ s.do = "queue" => dispatch'[s.d] = NewRow(s.thread, s.task)
            /\ s.do = "accept" => dispatch'[s.d].status = "accepted"
            /\ s.do = "event" => dispatch'[s.d].status = s.status
        <5>1. Phased(p, 1)
          BY <3>6, WriteLeaves DEF ExecInv
        <5> QED BY <3>6, <5>1, WriteEffect
      <4>2. NewRow(s.thread, s.task).status = "queued"
        BY DEF NewRow
      <4>3. ASSUME s.do = "event", s.d = d
            PROVE  s.status \in Active
        <5>1. s.e \in Exec /\ exec[s.e].dispatch = d /\ UnderWay(s.e)
          BY <4>1, <4>3, StatementKinds DEF Phased, OfExec, UnderWay
        <5>2. s.e = g
          BY <5>1, <3>1, <1>1 DEF d
        <5>3. s.status \in {"running", "waiting_approval"}
          BY <5>2, <4>1, <4>3, <2>2 DEF Phased, OfExec, Working
        <5> QED BY <5>3 DEF Active, Started
      <4> HIDE DEF s
      <4> QED BY <3>1, <3>2, <4>1, <4>2, <4>3 DEF Active, Started
    <3> QED BY <3>3, <3>4, <3>5, <3>6, RowsMove DEF d
  <2> QED BY <1>1, <2>1, <2>2
<1> QED BY <1>2, <1>3

\* No open dispatch of the planner is on the thread and task of one to come.
PlanInv ==
  Without({"again", "overlap"}) =>
    /\ \A d, c \in planned :
         (/\ dispatch[d].status \in Active /\ dispatch[c].status \in Active
          /\ dispatch[d].thread = dispatch[c].thread /\ dispatch[d].task = dispatch[c].task) => d = c
    /\ \A p \in Process : \A i \in 1..Len(todo[p]) : \A c \in planned :
         (/\ todo[p][i].do = "queue" /\ todo[p][i].who = "planner" /\ dispatch[c].status \in Active
          /\ dispatch[c].thread = todo[p][i].thread) => dispatch[c].task # todo[p][i].task

LEMMA InitPlan == Init => PlanInv
  BY DEF Init, PlanInv

Open(d) == dispatch[d].status \in Active

\* A statement that queues a dispatch for the planner.
ByPlanner(s) == s.do = "queue" /\ s.who = "planner"

\* Unless the planner queues it now, a planned dispatch stays where it is, and
\* closed if it is closed.
LEMMA PlannedStays ==
  ASSUME TypeInv, ExecInv, CancelInv, OneInv, NameInv, [Next]_vars, Without({"again", "overlap"})',
         NEW c \in planned,
         \A p \in Process : Write(p) => ~(ByPlanner(todo[p][1]) /\ todo[p][1].d = c)
  PROVE  /\ dispatch'[c].thread = dispatch[c].thread /\ dispatch'[c].task = dispatch[c].task
         /\ Open(c)' => Open(c)
<1>1. /\ "again" \notin lapse' /\ "overlap" \notin lapse'
      /\ "again" \notin lapse /\ "overlap" \notin lapse
  BY LapsesGrow DEF Without
<1>2. c \in Dispatch /\ dispatch[c] # None /\ \A h \in Handoff : c # DispatchOf(h)
  BY DEF NameInv, TypeInv, TypeOK
<1>3. CASE dispatch' = dispatch
  BY <1>3 DEF Open
<1>4. ASSUME NEW p \in Process, NEW d \in Dispatch, NEW x \in Thread, NEW k \in Task \union {None},
             QueueDispatch(p, d, x, k)
      PROVE  dispatch'[c] = dispatch[c]
  BY <1>1, <1>2, <1>4, QueueEffect
<1>5. ASSUME NEW d \in Dispatch, CancelDispatch(d)
      PROVE  /\ dispatch'[c].thread = dispatch[c].thread /\ dispatch'[c].task = dispatch[c].task
             /\ Open(c)' => Open(c)
  BY <1>2, <1>5, CancelEffect DEF Open, Active, Started
<1>6. ASSUME NEW p \in Process, Write(p)
      PROVE  /\ dispatch'[c].thread = dispatch[c].thread /\ dispatch'[c].task = dispatch[c].task
             /\ Open(c)' => Open(c)
  <2> DEFINE s == todo[p][1]
  <2>1. /\ Phased(p, 1) /\ WellNamed(todo[p]) /\ 1 \in 1..Len(todo[p])
        /\ OfExec(s) => dispatch[s.d].status # "cancelled"
    BY <1>1, <1>6, WriteLeaves DEF ExecInv, NameInv, CancelInv, Without
  <2>2. /\ s \in Statement
        /\ c # s.d \/ s.do \notin {"queue", "accept", "event"} => dispatch'[c] = dispatch[c]
        /\ s.do \in {"accept", "event"} => /\ dispatch'[s.d].thread = dispatch[s.d].thread
                                           /\ dispatch'[s.d].task = dispatch[s.d].task
        /\ s.do = "event" => dispatch'[s.d].status = s.status
    BY <1>2, <1>6, WriteEffect
  <2>3. s.do = "queue" => s.d # c
    <3>1. s.do = "queue" => (s.who = "planner" <=> \A h \in Handoff : s.d # DispatchOf(h))
      BY <2>1 DEF WellNamed
    <3>2. ~(ByPlanner(s) /\ s.d = c)
      BY <1>6
    <3> QED BY <1>2, <3>1, <3>2 DEF ByPlanner
  <2>4. CASE dispatch'[c] = dispatch[c]
    BY <2>4 DEF Open
  <2>5. ASSUME s.do \in {"accept", "event"}, s.d = c, Open(c)'
        PROVE  Open(c)
    <3>1. s.e \in Exec /\ exec[s.e].dispatch = c
      BY <2>1, <2>2, <2>5, StatementKinds DEF Phased, OfExec
    <3>2. s.do = "event" => s.status \notin Outcomes
      BY <2>2, <2>5 DEF Open, Active, Started, Outcomes
    <3>3. Working(s.e)
      BY <2>1, <2>5, <3>2 DEF Phased, OfExec, Working
    <3>4. dispatch[c].status \in Active \union {"cancelled"}
      BY <1>1, <3>1, <3>3 DEF OneInv
    <3> QED BY <2>1, <2>5, <3>4 DEF Open, OfExec
  <2> HIDE DEF s
  <2> QED BY <2>2, <2>3, <2>4, <2>5
<1>7. CASE \E p \in Process, d \in Dispatch, x \in Thread, k \in Task \union {None} : QueueDispatch(p, d, x, k)
  BY <1>4, <1>7 DEF Open
<1> QED BY <1>3, <1>5, <1>6, <1>7, RowsMove

LEMMA PlanStep ==
  TypeInv /\ ExecInv /\ CancelInv /\ OneInv /\ NameInv /\ AloneInv /\ PlanInv /\ [Next]_vars => PlanInv'
<1> SUFFICES ASSUME TypeInv, ExecInv, CancelInv, OneInv, NameInv, AloneInv, PlanInv, [Next]_vars,
                    Without({"again", "overlap"})'
             PROVE  /\ \A d, c \in planned' :
                         (/\ Open(d)' /\ Open(c)'
                          /\ dispatch'[d].thread = dispatch'[c].thread
                          /\ dispatch'[d].task = dispatch'[c].task) => d = c
                    /\ \A r \in Process : \A i \in 1..Len(todo'[r]) : \A c \in planned' :
                         (/\ ByPlanner(todo'[r][i]) /\ Open(c)'
                          /\ dispatch'[c].thread = todo'[r][i].thread)
                              => dispatch'[c].task # todo'[r][i].task
  BY DEF PlanInv, Open, ByPlanner
<1>1. /\ \A d, c \in planned :
           (/\ Open(d) /\ Open(c)
            /\ dispatch[d].thread = dispatch[c].thread /\ dispatch[d].task = dispatch[c].task) => d = c
      /\ \A r \in Process : \A i \in 1..Len(todo[r]) : \A c \in planned :
           (/\ ByPlanner(todo[r][i]) /\ Open(c) /\ dispatch[c].thread = todo[r][i].thread)
                => dispatch[c].task # todo[r][i].task
      /\ "overlap" \notin lapse /\ "overlap" \notin lapse'
  BY LapsesGrow DEF PlanInv, Open, ByPlanner, Without
\* The planner queues a dispatch.
<1>2. ASSUME NEW p \in Process, Write(p), ByPlanner(todo[p][1])
      PROVE  /\ \A d, c \in planned' :
                  (/\ Open(d)' /\ Open(c)'
                   /\ dispatch'[d].thread = dispatch'[c].thread
                   /\ dispatch'[d].task = dispatch'[c].task) => d = c
             /\ \A r \in Process : \A i \in 1..Len(todo'[r]) : \A c \in planned' :
                  (/\ ByPlanner(todo'[r][i]) /\ Open(c)'
                   /\ dispatch'[c].thread = todo'[r][i].thread)
                       => dispatch'[c].task # todo'[r][i].task
  <2> DEFINE s == todo[p][1]
  <2>1. /\ s \in Statement /\ 1 \in 1..Len(todo[p]) /\ WellNamed(todo[p])
        /\ planned' = planned \union {s.d}
        /\ dispatch'[s.d] = NewRow(s.thread, s.task)
        /\ \A c \in Dispatch : c # s.d => dispatch'[c] = dispatch[c]
    BY <1>2, WriteEffect, WriteLeaves DEF NameInv, ByPlanner
  <2>2. dispatch'[s.d].thread = s.thread /\ dispatch'[s.d].task = s.task
    BY <2>1 DEF NewRow
  <2>3. \A c \in planned' : c # s.d => c \in planned /\ dispatch'[c] = dispatch[c]
    BY <2>1 DEF TypeInv, TypeOK
  <2>4. ASSUME NEW c \in planned, Open(c), dispatch[c].thread = s.thread
        PROVE  dispatch[c].task # s.task
    BY <1>1, <1>2, <2>1, <2>4
  <2>5. ASSUME NEW d \in planned', NEW c \in planned', Open(d)', Open(c)', d # c,
               dispatch'[d].thread = dispatch'[c].thread, dispatch'[d].task = dispatch'[c].task
        PROVE  FALSE
    <3>1. CASE d # s.d /\ c # s.d
      BY <3>1, <2>3, <2>5, <1>1 DEF Open
    <3>2. CASE d = s.d
      BY <3>2, <2>2, <2>3, <2>4, <2>5 DEF Open
    <3>3. CASE c = s.d
      BY <3>3, <2>2, <2>3, <2>4, <2>5 DEF Open
    <3> QED BY <3>1, <3>2, <3>3
  <2>6. ASSUME NEW r \in Process, NEW i \in 1..Len(todo'[r]), NEW c \in planned',
               ByPlanner(todo'[r][i]), Open(c)', dispatch'[c].thread = todo'[r][i].thread
        PROVE  dispatch'[c].task # todo'[r][i].task
    <3>1. r = p
      <4>1. r # p => todo'[r] = todo[r]
        BY <1>2, WriteLeaves
      <4>2. Planning(p)
        BY <1>2, <2>1 DEF Planning, ByPlanner
      <4>3. r # p => Planning(r)
        BY <4>1, <2>6 DEF Planning, ByPlanner
      <4> QED BY <1>1, <4>2, <4>3 DEF AloneInv
    <3>2. todo'[r][i] = todo[p][i + 1] /\ i + 1 \in 1..Len(todo[p]) /\ i + 1 # 1
      BY <1>2, <2>6, <3>1, TailOf
    <3>3. todo'[r][i].thread # s.thread
      BY <1>2, <2>1, <2>6, <3>2 DEF WellNamed, ByPlanner
    <3>4. c \in planned /\ dispatch'[c] = dispatch[c]
      BY <2>2, <2>3, <2>6, <3>3
    <3> QED BY <1>1, <2>6, <3>2, <3>4 DEF Open
  <2> QED BY <2>5, <2>6
\* The planner queues none.
<1>3. ASSUME \A p \in Process : ~(Write(p) /\ ByPlanner(todo[p][1]))
      PROVE  /\ \A d, c \in planned' :
                  (/\ Open(d)' /\ Open(c)'
                   /\ dispatch'[d].thread = dispatch'[c].thread
                   /\ dispatch'[d].task = dispatch'[c].task) => d = c
             /\ \A r \in Process : \A i \in 1..Len(todo'[r]) : \A c \in planned' :
                  (/\ ByPlanner(todo'[r][i]) /\ Open(c)'
                   /\ dispatch'[c].thread = todo'[r][i].thread)
                       => dispatch'[c].task # todo'[r][i].task
  <2>1. planned' = planned
    <3>1. ASSUME NEW p \in Process, Write(p)
          PROVE  planned' = planned
      <4> DEFINE s == todo[p][1]
      <4>1. planned' = IF s.do = "queue" /\ s.who = "planner" THEN planned \union {s.d} ELSE planned
        BY <3>1, WriteEffect
      <4>2. ~ByPlanner(s)
        BY <1>3, <3>1
      <4> QED BY <4>1, <4>2 DEF ByPlanner
    <3> QED BY <3>1, RowsMove, QueueEffect, CancelEffect
  <2>2. \A c \in planned : /\ dispatch'[c].thread = dispatch[c].thread
                           /\ dispatch'[c].task = dispatch[c].task
                           /\ Open(c)' => Open(c)
    BY <1>3, PlannedStays
  <2>3. ASSUME NEW r \in Process, NEW i \in 1..Len(todo'[r]), NEW c \in planned,
               ByPlanner(todo'[r][i]), Open(c), dispatch[c].thread = todo'[r][i].thread
        PROVE  dispatch[c].task # todo'[r][i].task
    <3>1. CASE todo'[r] = todo[r]
      BY <1>1, <2>3, <3>1
    <3>2. CASE Write(r)
      <4>1. todo'[r][i] = todo[r][i + 1] /\ i + 1 \in 1..Len(todo[r])
        BY <3>2, TailOf
      <4> QED BY <1>1, <2>3, <4>1
    <3>3. CASE Quiet(todo'[r])
      BY <2>3, <3>3 DEF Quiet, OfExec, ByPlanner
    <3>4. CASE Opens(r)
      <4>1. PICK q \in Seq(Statement) :
              /\ todo' = [todo EXCEPT ![r] = q]
              /\ PlanShaped(q) \/ \E h \in Handoff : SubmitShaped(q, h) \/ MaterializeShaped(q, h)
        BY <3>4 DEF Opens
      <4>2. todo'[r] = q
        BY <4>1, NewStatements
      <4>3. PlanShaped(q)
        BY <4>1, <4>2, <2>3 DEF SubmitShaped, MaterializeShaped, ByPlanner
      <4>4. Plannable(q[i].thread) /\ q[i].task = thread[q[i].thread].task
        BY <4>2, <4>3, <2>3 DEF PlanShaped, ByPlanner
      <4>5. c \in Dispatch /\ dispatch[c] # None
        BY DEF NameInv, TypeInv, TypeOK
      <4>6. dispatch[c].task = q[i].task => c \in Siblings(q[i].thread, thread[q[i].thread].task)
        BY <4>2, <4>4, <4>5, <2>3 DEF Siblings
      <4> QED BY <4>2, <4>4, <4>6, <2>3 DEF Plannable, Open
    <3> QED BY <3>1, <3>2, <3>3, <3>4, TodoMoves
  <2> QED BY <1>1, <2>1, <2>2, <2>3
<1> QED BY <1>2, <1>3

\* The planner never has two dispatches open on one thread and task, whatever
\* operators do and whatever crashes, if no two plans are written at once, no
\* cancellation comes between a check and its write, and settled dispatches are
\* not run or queued again.
THEOREM PlannedStayAlone == Spec => []PlannedAlone
<1>1. NameInv /\ PlanInv => PlannedAlone
  <2> SUFFICES ASSUME NameInv, PlanInv, Without({"again", "overlap"}),
                      NEW d \in planned, NEW c \in planned,
                      Status(d) \in Active, Status(c) \in Active,
                      dispatch[d].thread = dispatch[c].thread, dispatch[d].task = dispatch[c].task
               PROVE  d = c
    BY DEF PlannedAlone
  <2> QED BY DEF NameInv, PlanInv, Status
<1> QED BY <1>1, InitTypes, TypeStep, InitExec, ExecStep, InitCancel, CancelStep, InitOne, OneStep,
           InitNames, NameStep, AloneStep, InitPlan, PlanStep, PTL DEF Spec
=============================================================================
