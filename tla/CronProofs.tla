----------------------------- MODULE CronProofs -----------------------------
(***************************************************************************)
(* Theorems about CronTasks for any names, ids, executions and bounds.     *)
(***************************************************************************)
EXTENDS CronProperties, SequenceTheorems, TLAPS

USE CronAssumption DEF CronAssumption

Places == {"saving", "saved", "lost"}

-----------------------------------------------------------------------------
(* Types                                                                   *)
-----------------------------------------------------------------------------
(* An execution under way has a task, and one that waits for a retry has   *)
(* an attempt left.                                                        *)
RunsHaveTasks ==
  \A r \in Run :
    /\ run[r].pc # "free" => run[r].name \in Name /\ run[r].task \in Task
    /\ run[r].pc = "sleeping" => run[r].attempt < MaxAttempts

TypeInv == TypeOK /\ RunsHaveTasks

(* What the parts of the actions build. *)
LEMMA UpsertType ==
  ASSUME TypeOK, NEW n \in Name, NEW task \in Task, Upsert(n, task)
  PROVE  row' \in [Id -> Row \union {None}]
BY DEF TypeOK, Upsert, Task, Row

LEMMA DeleteType ==
  ASSUME TypeOK, NEW n, DeleteRow(n)
  PROVE  row' \in [Id -> Row \union {None}] /\ autoRow' \in [Run -> RowStatus]
BY DEF TypeOK, DeleteRow, RowStatus

LEMMA SetConfigType ==
  ASSUME TypeOK, NEW new \in Tasks, SetConfig(new)
  PROVE  config' \in Tasks /\ base' \in Tasks /\ disk' \in Tasks /\ aliased' \in BOOLEAN
BY DEF TypeOK, SetConfig

LEMMA WriteType ==
  ASSUME NEW new \in Tasks, NEW what, NEW n \in Name, NEW task,
         \/ what = "upsert" /\ task \in Task
         \/ what \in {"nothing", "delete"} /\ task = None
  PROVE  Write(new, what, n, task) \in Job
BY DEF Write, Then, Job

LEMMA StartWritesType ==
  ASSUME TypeOK, NEW jobs \in Seq(Job), StartWrites(jobs)
  PROVE  writes' \in Seq(Job) /\ newest' \in Places
BY DEF TypeOK, StartWrites, Places

LEMMA RemoveAtType ==
  ASSUME TypeOK, NEW i \in DOMAIN writes
  PROVE  RemoveAt(writes, i) \in Seq(Job) /\ writes[i] \in Job
BY DEF TypeOK, RemoveAt

LEMMA WithoutType ==
  ASSUME TypeOK, NEW n \in Name
  PROVE  Without(n) \in Tasks
BY DEF TypeOK, Without, Tasks

LEMMA RegistrationType ==
  ASSUME NEW task \in Task
  PROVE  Registration(task) \in Registered
BY DEF Registration, Registered, Task

LEMMA WalkingType ==
  ASSUME TypeOK, NEW k \in Tick, NEW ended \in SUBSET Name
  PROVE  Walking(k, ended) \in [Tick -> Walk]
<1>1. tick \in [Tick -> Walk]
  BY DEF TypeOK
<1>. QED BY <1>1 DEF Walking, Walk

(* The part of the types that an execution's step may disturb. *)
LEMMA PhaseType ==
  ASSUME TypeInv, NEW r \in Run, NEW phase \in RunPhases \ {"free", "sleeping"},
         run[r].pc # "free", ToPhase(r, phase)
  PROVE  run' \in [Run -> Execution] /\ RunsHaveTasks'
<1>1. run \in [Run -> Execution] /\ RunsHaveTasks
  BY DEF TypeInv, TypeOK
<1>. QED BY <1>1 DEF ToPhase, Execution, RunsHaveTasks

(* A handler's return. *)
LEMMA ReturnType ==
  ASSUME TypeInv, NEW r \in Run, NEW jobs \in Seq(Job), Return(r, jobs), run[r].pc # "free",
         row' \in [Id -> Row \union {None}], runRow' \in [Run -> RowStatus], autoRow' \in [Run -> RowStatus]
  PROVE  TypeInv'
<1> DEFINE n == run[r].name
<1>0. TypeOK /\ run \in [Run -> Execution]
  BY DEF TypeInv, TypeOK
<1>1. n \in Name /\ run[r].task \in Task /\ run[r].by \in Tick \union {None}
  BY <1>0 DEF TypeInv, RunsHaveTasks, Execution
<1>2. /\ config' \in Tasks /\ base' \in Tasks /\ disk' \in Tasks /\ aliased' \in BOOLEAN
      /\ writes' \in Seq(Job) /\ newest' \in Places
  <2>1. CASE run[r].task.oneShot
    <3>1. SetConfig(Without(n)) /\ StartWrites(jobs \o <<Write(Without(n), "delete", n, None)>>)
      BY <2>1 DEF Return, Leave
    <3>2. jobs \o <<Write(Without(n), "delete", n, None)>> \in Seq(Job)
      BY <1>0, <1>1, WriteType, WithoutType
    <3>. QED BY <1>0, <1>1, <3>1, <3>2, WithoutType, SetConfigType, StartWritesType
  <2>2. CASE ~run[r].task.oneShot
    BY <1>0, <2>2, StartWritesType DEF Return, Leave, TypeOK
  <2>. QED BY <2>1, <2>2
<1>3. tick' \in [Tick -> Walk]
  <2>1. CASE run[r].by = None
    BY <1>0, <2>1 DEF Return, Continue, TypeOK
  <2>2. CASE run[r].by # None
    <3>1. PICK ended \in SUBSET Name : tick' = Walking(run[r].by, ended)
      BY <1>1, <2>2 DEF Return, Continue
    <3>. QED BY <1>0, <1>1, <2>2, <3>1, WalkingType
  <2>. QED BY <2>1, <2>2
<1>4. sched' \in [Name -> Registered \union {None}]
  <2>1. sched \in [Name -> Registered \union {None}]
    BY <1>0 DEF TypeOK
  <2>. QED BY <1>1, <2>1 DEF Return
<1>5. run' \in [Run -> Execution] /\ RunsHaveTasks'
  BY PhaseType DEF Return, RunPhases
<1>6. UNCHANGED <<up, outbox, answer, version, usedIds>>
  BY DEF Return, drawnVars
<1>. QED BY <1>0, <1>2, <1>3, <1>4, <1>5, <1>6 DEF TypeInv, TypeOK, Places

LEMMA SavingType ==
  ASSUME TypeOK, NEW new \in Tasks, NEW job \in Job, SetConfig(new), StartWrites(<<job>>)
  PROVE  /\ config' \in Tasks /\ base' \in Tasks /\ disk' \in Tasks /\ aliased' \in BOOLEAN
         /\ writes' \in Seq(Job) /\ newest' \in Places
<1>1. <<job>> \in Seq(Job)
  OBVIOUS
<1>. QED BY <1>1, SetConfigType, StartWritesType

(* cron.add and cron.update. *)
LEMMA DefineType ==
  ASSUME TypeInv, NEW n \in Name, NEW task \in Task, Define(n, task), usedIds' \subseteq Id
  PROVE  TypeInv'
<1>0. TypeOK /\ RunsHaveTasks
  BY DEF TypeInv
<1>1. row' \in [Id -> Row \union {None}]
  BY <1>0, UpsertType DEF Define
<1>2. [config EXCEPT ![n] = task] \in Tasks
  BY <1>0 DEF TypeOK, Tasks
<1>3. /\ config' \in Tasks /\ base' \in Tasks /\ disk' \in Tasks /\ aliased' \in BOOLEAN
      /\ writes' \in Seq(Job) /\ newest' \in Places
  <2>1. Write([config EXCEPT ![n] = task], "upsert", n, task) \in Job
    BY <1>2, WriteType
  <2>. QED BY <1>0, <1>2, <2>1, SavingType DEF Define
<1>4. sched' \in [Name -> Registered \union {None}]
  BY <1>0, RegistrationType DEF Define, TypeOK
<1>5. version' \in 0..MaxEdits
  BY DEF Define, Task, Version
<1>6. UNCHANGED <<up, tick, run, runRow, autoRow, outbox, answer>>
  BY DEF Define
<1>. QED BY <1>0, <1>1, <1>3, <1>4, <1>5, <1>6 DEF TypeInv, TypeOK, RunsHaveTasks, Places

LEMMA EditType ==
  ASSUME TypeOK, Edit
  PROVE  version' \in 0..MaxEdits
BY DEF TypeOK, Edit

(* The task cron.add and cron.update define. *)
NewTask(id, f, s) ==
  [id |-> id, version |-> version + 1, oneShot |-> f.oneShot, once |-> f.once,
   enabled |-> s.enabled, paused |-> s.paused]

LEMMA AddedType ==
  ASSUME TypeOK, NEW n, NEW id \in Id, NEW f \in Flavour, CronAdd(n, id, f)
  PROVE  /\ up /\ sched[n] = None /\ id \notin usedIds
         /\ usedIds' = usedIds \union {id}
         /\ \E task \in Task : task.id = id /\ task.version = version + 1 /\ Define(n, task)
<1> DEFINE task == NewTask(id, f, [enabled |-> TRUE, paused |-> FALSE])
<1>1. task \in Task /\ task.id = id /\ task.version = version + 1
  BY DEF TypeOK, CronAdd, Task, Version, NewTask
<1>2. Define(n, task)
  BY DEF CronAdd, NewTask
<1>. HIDE DEF task
<1>. QED BY <1>1, <1>2 DEF CronAdd, Idle

LEMMA UpdatedType ==
  ASSUME TypeOK, NEW n \in Name, NEW f \in Flavour, NEW s \in Switch, CronUpdate(n, f, s)
  PROVE  /\ up /\ config[n] # None /\ UNCHANGED usedIds
         /\ \E task \in Task : task.id = config[n].id /\ task.version = version + 1 /\ Define(n, task)
<1> DEFINE task == NewTask(config[n].id, f, s)
<1>0. up /\ config[n] # None /\ version < MaxEdits /\ UNCHANGED usedIds
  BY DEF CronUpdate, Idle
<1>1. config[n] \in Task
  BY <1>0 DEF TypeOK, Tasks
<1>2. task \in Task /\ task.id = config[n].id /\ task.version = version + 1
  BY <1>0, <1>1 DEF TypeOK, Task, Version, NewTask
<1>3. Define(n, task)
  BY DEF CronUpdate, NewTask
<1>. HIDE DEF task
<1>. QED BY <1>0, <1>2, <1>3

LEMMA PausedType ==
  ASSUME TypeOK, NEW n \in Name, NEW paused \in BOOLEAN
  PROVE  \E new \in Tasks :
           /\ new = IF config[n] = None THEN config ELSE [config EXCEPT ![n].paused = paused]
           /\ config[n] = None => new[n] = None
           /\ config[n] # None => new[n] \in Task
<1> DEFINE new == IF config[n] = None THEN config ELSE [config EXCEPT ![n].paused = paused]
<1>0. config \in [Name -> Task \union {None}]
  BY DEF TypeOK, Tasks
<1>. SUFFICES /\ new \in Tasks
              /\ config[n] = None => new[n] = None
              /\ config[n] # None => new[n] \in Task
  OBVIOUS
<1>1. CASE config[n] = None
  BY <1>0, <1>1 DEF Tasks
<1>2. CASE config[n] # None
  <2>1. [config[n] EXCEPT !.paused = paused] \in Task
    BY <1>0, <1>2 DEF Task
  <2>2. new = [config EXCEPT ![n] = [config[n] EXCEPT !.paused = paused]]
    BY <1>2
  <2>. QED BY <1>0, <1>2, <2>1, <2>2 DEF Tasks
<1>. QED BY <1>1, <1>2

LEMMA ProcedureType ==
  ASSUME TypeInv, NEW n \in Name,
         \/ \E id \in Id, f \in Flavour : CronAdd(n, id, f)
         \/ \E f \in Flavour, s \in Switch : CronUpdate(n, f, s)
         \/ CronPause(n, TRUE) \/ CronPause(n, FALSE) \/ CronRemove(n)
  PROVE  TypeInv'
<1>0. TypeOK /\ RunsHaveTasks
  BY DEF TypeInv
<1>1. version \in 0..MaxEdits /\ usedIds \subseteq Id /\ config \in [Name -> Task \union {None}]
  BY <1>0 DEF TypeOK, Tasks
<1>2. ASSUME NEW id \in Id, NEW f \in Flavour, CronAdd(n, id, f)
      PROVE  TypeInv'
  <2>1. PICK task \in Task : Define(n, task)
    BY <1>0, <1>2, AddedType
  <2>2. usedIds' \subseteq Id
    BY <1>1, <1>2 DEF CronAdd
  <2>. QED BY <2>1, <2>2, DefineType
<1>3. ASSUME NEW f \in Flavour, NEW s \in Switch, CronUpdate(n, f, s)
      PROVE  TypeInv'
  <2>1. PICK task \in Task : Define(n, task)
    BY <1>0, <1>3, UpdatedType
  <2>2. usedIds' \subseteq Id
    BY <1>1, <1>3 DEF CronUpdate
  <2>. QED BY <2>1, <2>2, DefineType
<1>4. ASSUME NEW paused \in BOOLEAN, CronPause(n, paused)
      PROVE  TypeInv'
  <2> DEFINE new == IF config[n] = None THEN config ELSE [config EXCEPT ![n].paused = paused]
             what == IF config[n] = None THEN "nothing" ELSE "upsert"
  <2>1. /\ new \in Tasks
        /\ config[n] = None => new[n] = None
        /\ config[n] # None => new[n] \in Task
    BY <1>0, PausedType
  <2>2. Write(new, what, n, new[n]) \in Job
    <3>1. \/ what = "upsert" /\ new[n] \in Task
          \/ what \in {"nothing", "delete"} /\ new[n] = None
      BY <2>1
    <3>. HIDE DEF new, what
    <3>. QED BY <2>1, <3>1, WriteType
  <2>3. SetConfig(new) /\ StartWrites(<<Write(new, what, n, new[n])>>)
    BY <1>4 DEF CronPause
  <2>4. sched' \in [Name -> Registered \union {None}]
    BY <1>0, <1>4 DEF CronPause, TypeOK, Registered
  <2>5. UNCHANGED <<up, tick, run, row, runRow, autoRow, outbox, answer, usedIds>> /\ version' \in 0..MaxEdits
    BY <1>0, <1>4, EditType DEF CronPause, storeVars
  <2>. HIDE DEF new, what
  <2>. QED BY <1>0, <2>1, <2>2, <2>3, <2>4, <2>5, SavingType DEF TypeInv, TypeOK, RunsHaveTasks, Places
<1>5. ASSUME CronRemove(n)
      PROVE  TypeInv'
  <2>1. Without(n) \in Tasks /\ Write(Without(n), "delete", n, None) \in Job
    BY <1>0, WithoutType, WriteType
  <2>2. SetConfig(Without(n)) /\ StartWrites(<<Write(Without(n), "delete", n, None)>>)
    BY <1>5 DEF CronRemove
  <2>3. sched' \in [Name -> Registered \union {None}]
    BY <1>0, <1>5 DEF CronRemove, TypeOK
  <2>4. UNCHANGED <<up, tick, run, row, runRow, autoRow, outbox, answer, usedIds>> /\ version' \in 0..MaxEdits
    BY <1>0, <1>5, EditType DEF CronRemove, storeVars
  <2>. QED BY <1>0, <2>1, <2>2, <2>3, <2>4, SavingType DEF TypeInv, TypeOK, RunsHaveTasks, Places
<1>. QED BY <1>2, <1>3, <1>4, <1>5

LEMMA SettingsType ==
  ASSUME TypeInv, \E unshare \in BOOLEAN : SaveSettings(unshare) \/ SaveModels
  PROVE  TypeInv'
<1>0. TypeOK /\ RunsHaveTasks /\ config \in Tasks /\ base \in Tasks
  BY DEF TypeInv, TypeOK
<1>1. ASSUME NEW unshare \in BOOLEAN, SaveSettings(unshare)
      PROVE  TypeInv'
  <2>1. [content |-> config, then |-> NoThen] \in Job
    BY <1>0 DEF Job, Then, NoThen
  <2>2. writes' \in Seq(Job) /\ newest' \in Places
    <3>1. <<[content |-> config, then |-> NoThen]>> \in Seq(Job)
      BY <2>1
    <3>. QED BY <1>0, <1>1, <3>1, StartWritesType DEF SaveSettings
  <2>3. /\ aliased' \in BOOLEAN /\ version' \in 0..MaxEdits
        /\ UNCHANGED <<up, config, base, disk, sched, tick, run, row, runRow, autoRow, outbox, answer, usedIds>>
    BY <1>0, <1>1, EditType DEF SaveSettings, storeVars, TypeOK
  <2>. QED BY <1>0, <2>2, <2>3 DEF TypeInv, TypeOK, RunsHaveTasks, Places
<1>2. ASSUME SaveModels
      PROVE  TypeInv'
  <2>1. [content |-> base, then |-> NoThen] \in Job
    BY <1>0 DEF Job, Then, NoThen
  <2>2. writes' \in Seq(Job) /\ newest' \in Places
    <3>1. <<[content |-> base, then |-> NoThen]>> \in Seq(Job)
      BY <2>1
    <3>. QED BY <1>0, <1>2, <3>1, StartWritesType DEF SaveModels
  <2>3. /\ aliased' \in BOOLEAN /\ config' \in Tasks /\ version' \in 0..MaxEdits
        /\ UNCHANGED <<up, base, disk, sched, tick, run, row, runRow, autoRow, outbox, answer, usedIds>>
    BY <1>0, <1>2, EditType DEF SaveModels, storeVars
  <2>. QED BY <1>0, <2>2, <2>3 DEF TypeInv, TypeOK, RunsHaveTasks, Places
<1>. QED BY <1>1, <1>2

LEMMA WriteEndsType ==
  ASSUME TypeInv, NEW i \in DOMAIN writes, WriteEnds(i)
  PROVE  TypeInv'
<1>0. TypeOK /\ RunsHaveTasks /\ writes[i] \in Job /\ RemoveAt(writes, i) \in Seq(Job)
  BY RemoveAtType DEF TypeInv
<1>1. disk' \in Tasks /\ writes' \in Seq(Job) /\ newest' \in Places
  BY <1>0 DEF WriteEnds, Job, Places
<1>2. row' \in [Id -> Row \union {None}] /\ autoRow' \in [Run -> RowStatus]
  <2>0. row \in [Id -> Row \union {None}] /\ autoRow \in [Run -> RowStatus]
    BY <1>0 DEF TypeOK
  <2>1. CASE writes[i].then.do = "upsert"
    <3>1. Upsert(writes[i].then.name, writes[i].then.task) /\ UNCHANGED autoRow
      BY <2>1 DEF WriteEnds
    <3>2. writes[i].then.name \in Name /\ writes[i].then.task \in Task
      BY <1>0, <2>1 DEF Job, Then
    <3>. QED BY <1>0, <2>0, <3>1, <3>2, UpsertType
  <2>2. CASE writes[i].then.do = "delete"
    <3>1. DeleteRow(writes[i].then.name)
      BY <2>2 DEF WriteEnds
    <3>. QED BY <1>0, <3>1, DeleteType
  <2>3. CASE writes[i].then.do = "nothing"
    BY <2>0, <2>3 DEF WriteEnds
  <2>. QED BY <1>0, <2>1, <2>2, <2>3 DEF Job, Then
<1>3. UNCHANGED <<up, config, base, aliased, sched, tick, run, runRow, outbox, answer, version, usedIds>>
  BY DEF WriteEnds, drawnVars
<1>. QED BY <1>0, <1>1, <1>2, <1>3 DEF TypeInv, TypeOK, RunsHaveTasks, Places

LEMMA WriteFailsType ==
  ASSUME TypeInv, NEW i \in DOMAIN writes, WriteFails(i)
  PROVE  TypeInv'
<1>1. TypeOK /\ RunsHaveTasks /\ RemoveAt(writes, i) \in Seq(Job)
  BY RemoveAtType DEF TypeInv
<1>2. writes' \in Seq(Job) /\ newest' \in Places
  BY <1>1 DEF WriteFails, TypeOK, Places
<1>. QED BY <1>1, <1>2 DEF WriteFails, TypeInv, TypeOK, RunsHaveTasks, Places, storeVars, drawnVars

LEMMA SchedulerType ==
  ASSUME TypeInv,
         \/ \E k \in Tick : TickStarts(k) \/ TickEnds(k)
         \/ \E n \in Name, r \in Run : CronRun(n, r) \/ \E k \in Tick : TickRuns(k, n, r)
  PROVE  TypeInv'
<1>0. /\ TypeOK /\ RunsHaveTasks
      /\ tick \in [Tick -> Walk] /\ run \in [Run -> Execution]
      /\ sched \in [Name -> Registered \union {None}]
  BY DEF TypeInv, TypeOK
<1>1. ASSUME NEW n \in Name, NEW r \in Run, NEW by \in Tick \union {None}, sched[n] # None, Begin(r, n, by)
      PROVE  /\ sched' \in [Name -> Registered \union {None}]
             /\ run' \in [Run -> Execution] /\ RunsHaveTasks'
  <2>1. sched[n] \in Registered /\ sched[n].task \in Task
    BY <1>0, <1>1 DEF Registered
  <2>2. sched' \in [Name -> Registered \union {None}]
    BY <1>0, <1>1, <2>1 DEF Begin, Registered
  <2>3. [pc |-> "preparing", name |-> n, task |-> sched[n].task, by |-> by, attempt |-> 1] \in Execution
    BY <2>1 DEF Execution, RunPhases
  <2>. QED BY <1>0, <1>1, <2>1, <2>2, <2>3 DEF Begin, RunsHaveTasks
<1>2. ASSUME NEW k \in Tick, TickStarts(k)
      PROVE  TypeInv'
  <2>1. tick' \in [Tick -> Walk]
    BY <1>0, <1>2 DEF TickStarts, Walk
  <2>. QED BY <1>0, <1>2, <2>1 DEF TickStarts, TypeInv, TypeOK, RunsHaveTasks, configVars, storeVars, drawnVars
<1>3. ASSUME NEW k \in Tick, TickEnds(k)
      PROVE  TypeInv'
  <2>1. tick' \in [Tick -> Walk]
    BY <1>0, <1>3 DEF TickEnds, Walk, NoTick
  <2>2. sched' \in [Name -> Registered \union {None}]
    BY <1>0, <1>3 DEF TickEnds
  <2>. QED BY <1>0, <1>3, <2>1, <2>2 DEF TickEnds, TypeInv, TypeOK, RunsHaveTasks, configVars, storeVars, drawnVars
<1>4. ASSUME NEW n \in Name, NEW r \in Run, CronRun(n, r)
      PROVE  TypeInv'
  <2>1. /\ sched' \in [Name -> Registered \union {None}]
        /\ run' \in [Run -> Execution] /\ RunsHaveTasks'
    BY <1>1, <1>4 DEF CronRun
  <2>. QED BY <1>0, <1>4, <2>1 DEF CronRun, TypeInv, TypeOK, configVars, storeVars, drawnVars
<1>5. ASSUME NEW n \in Name, NEW r \in Run, NEW k \in Tick, TickRuns(k, n, r)
      PROVE  TypeInv'
  <2>1. /\ sched' \in [Name -> Registered \union {None}]
        /\ run' \in [Run -> Execution] /\ RunsHaveTasks'
    BY <1>1, <1>5 DEF TickRuns
  <2>2. sched[n].task.version \in Version
    BY <1>0, <1>5 DEF TickRuns, Registered, Task
  <2>3. tick' \in [Tick -> Walk]
    BY <1>0, <1>5, <2>2 DEF TickRuns, Walk
  <2>. QED BY <1>0, <1>5, <2>1, <2>3 DEF TickRuns, TypeInv, TypeOK, configVars, storeVars, drawnVars
<1>. QED BY <1>2, <1>3, <1>4, <1>5

LEMMA RunStepType ==
  ASSUME TypeInv, NEW r \in Run, RunStep(r)
  PROVE  TypeInv'
<1>0. /\ TypeOK /\ RunsHaveTasks /\ run \in [Run -> Execution]
      /\ runRow \in [Run -> RowStatus] /\ autoRow \in [Run -> RowStatus]
      /\ row \in [Id -> Row \union {None}] /\ answer \in [Run -> {"none", "due", "arrived"}]
      /\ outbox \subseteq Run /\ config \in Tasks
  BY DEF TypeInv, TypeOK
<1>7. CASE PreparationFails(r)
  <2>1. Return(r, <<>>) /\ run[r].pc # "free" /\ UNCHANGED <<row, runRow, autoRow>>
    BY <1>7 DEF PreparationFails
  <2>2. <<>> \in Seq(Job)
    OBVIOUS
  <2>. QED BY <1>0, <2>1, <2>2, ReturnType
<1>8. ASSUME NEW status \in {"success", "error"}, ArchivingFails(r, status)
      PROVE  TypeInv'
  <2>1. runRow' \in [Run -> RowStatus] /\ autoRow' \in [Run -> RowStatus]
    BY <1>0, <1>8 DEF ArchivingFails, Finish, Settle, RowStatus
  <2>2. Return(r, <<>>) /\ run[r].pc # "free" /\ UNCHANGED row
    BY <1>8 DEF ArchivingFails
  <2>3. <<>> \in Seq(Job)
    OBVIOUS
  <2>. QED BY <1>0, <2>1, <2>2, <2>3, ReturnType
<1>1. CASE StartAttempt(r)
  <2>1. runRow' \in [Run -> RowStatus] /\ run[r].pc # "free" /\ UNCHANGED row
    BY <1>0, <1>1 DEF StartAttempt, RowStatus
  <2>2. CASE row[run[r].task.id] # None
    <3>1. autoRow' \in [Run -> RowStatus] /\ ToPhase(r, "chatting")
      BY <1>0, <1>1, <2>2 DEF StartAttempt, RowStatus
    <3>2. run' \in [Run -> Execution] /\ RunsHaveTasks'
      BY <2>1, <3>1, PhaseType DEF RunPhases
    <3>. QED BY <1>0, <1>1, <2>1, <2>2, <3>1, <3>2 DEF StartAttempt, TypeInv, TypeOK, configVars, drawnVars
  <2>3. CASE row[run[r].task.id] = None
    <3>1. Return(r, <<>>) /\ UNCHANGED autoRow
      BY <1>1, <2>3 DEF StartAttempt
    <3>2. <<>> \in Seq(Job)
      OBVIOUS
    <3>. QED BY <1>0, <2>1, <3>1, <3>2, ReturnType
  <2>. QED BY <2>2, <2>3
<1>2. ASSUME NEW status \in {"success", "error"}, EndAttempt(r, status)
      PROVE  TypeInv'
  <2>1. runRow' \in [Run -> RowStatus] /\ autoRow' \in [Run -> RowStatus]
    BY <1>0, <1>2 DEF EndAttempt, Finish, Settle, RowStatus
  <2>2. /\ run' \in [Run -> Execution] /\ RunsHaveTasks'
        /\ outbox' \subseteq Run /\ answer' \in [Run -> {"none", "due", "arrived"}]
    <3>1. CASE status = "error" /\ MoreAttempts(r)
      BY <1>0, <1>2, <3>1 DEF EndAttempt, MoreAttempts, ToPhase, Execution, RunPhases, RunsHaveTasks
    <3>2. CASE Deliver(r)
      <4>1. PICK phase \in {"logging", "delivering"} : ToPhase(r, phase)
        BY <3>2 DEF Deliver
      <4>2. run' \in [Run -> Execution] /\ RunsHaveTasks'
        BY <1>2, <4>1, PhaseType DEF EndAttempt, RunPhases
      <4>. QED BY <1>0, <3>2, <4>2 DEF Deliver
    <3>. QED BY <1>2, <3>1, <3>2 DEF EndAttempt
  <2>. QED BY <1>0, <1>2, <2>1, <2>2 DEF EndAttempt, TypeInv, TypeOK, configVars, drawnVars
<1>3. CASE Retry(r)
  <2>1. run[r].attempt \in 0..MaxAttempts /\ run[r].attempt < MaxAttempts /\ MaxAttempts \in Nat
    BY <1>0, <1>3 DEF Retry, RunsHaveTasks, Execution
  <2>2. run[r].attempt + 1 \in 0..MaxAttempts
    BY <2>1
  <2>3. run' \in [Run -> Execution] /\ RunsHaveTasks'
    BY <1>0, <1>3, <2>2 DEF Retry, Execution, RunPhases, RunsHaveTasks
  <2>. QED BY <1>0, <1>3, <2>3 DEF Retry, TypeInv, TypeOK, configVars, storeVars, drawnVars
<1>4. CASE Notify(r)
  <2>1. run' \in [Run -> Execution] /\ RunsHaveTasks'
    BY <1>4, PhaseType DEF Notify, RunPhases
  <2>2. answer' \in [Run -> {"none", "due", "arrived"}]
    BY <1>0, <1>4 DEF Notify
  <2>. QED BY <1>0, <1>4, <2>1, <2>2 DEF Notify, TypeInv, TypeOK, configVars, storeVars, drawnVars
<1>5. ASSUME NEW sent \in BOOLEAN, EndDelivery(r, sent)
      PROVE  TypeInv'
  <2>1. run' \in [Run -> Execution] /\ RunsHaveTasks'
    BY <1>5, PhaseType DEF EndDelivery, RunPhases
  <2>2. outbox' \subseteq Run
    BY <1>0, <1>5 DEF EndDelivery
  <2>. QED BY <1>0, <1>5, <2>1, <2>2 DEF EndDelivery, TypeInv, TypeOK, configVars, storeVars, drawnVars
<1>6. CASE SaveResult(r)
  <2> DEFINE n == run[r].name
             what == IF config[n] = None THEN "nothing" ELSE "upsert"
  <2>1. n \in Name /\ run[r].task \in Task /\ run[r].pc # "free"
    BY <1>0, <1>6 DEF SaveResult, RunsHaveTasks
  <2>2. \/ what = "upsert" /\ config[n] \in Task
        \/ what \in {"nothing", "delete"} /\ config[n] = None
    BY <1>0, <2>1 DEF Tasks
  <2>3. Upsert(n, run[r].task) /\ Return(r, <<Write(config, what, n, config[n])>>)
        /\ UNCHANGED <<runRow, autoRow>>
    BY <1>6 DEF SaveResult
  <2>. HIDE DEF n, what
  <2>4. Write(config, what, n, config[n]) \in Job
    BY <1>0, <2>1, <2>2, WriteType
  <2>5. <<Write(config, what, n, config[n])>> \in Seq(Job)
    BY <2>4
  <2>6. row' \in [Id -> Row \union {None}]
    BY <1>0, <2>1, <2>3, UpsertType
  <2>. QED BY <1>0, <2>1, <2>3, <2>5, <2>6, ReturnType
<1>. QED BY <1>1, <1>2, <1>3, <1>4, <1>5, <1>6, <1>7, <1>8 DEF RunStep

LEMMA RestoreType ==
  ASSUME TypeOK, NEW names \in SUBSET {n \in Name : disk[n] # None}, Restore(names)
  PROVE  row' \in [Id -> Row \union {None}]
<1>0. disk \in [Name -> Task \union {None}] /\ row \in [Id -> Row \union {None}]
  BY DEF TypeOK, Tasks
<1>1. ASSUME NEW i \in Id, \E n \in names : disk[n].id = i
      PROVE  LET n == CHOOSE m \in names : disk[m].id = i
             IN  [name |-> n, version |-> disk[n].version, paused |-> disk[n].paused] \in Row
  <2> DEFINE n == CHOOSE m \in names : disk[m].id = i
  <2>1. n \in names /\ disk[n].id = i
    BY <1>1
  <2>. HIDE DEF n
  <2>2. disk[n] \in Task /\ n \in Name
    BY <1>0, <2>1
  <2>3. [name |-> n, version |-> disk[n].version, paused |-> disk[n].paused] \in Row
    BY <2>2 DEF Task, Row
  <2>. QED BY <2>3 DEF n
<1>. QED BY <1>0, <1>1 DEF Restore

LEMMA CrashType ==
  ASSUME TypeInv, Crash \/ Restart \/ StartFails
  PROVE  TypeInv'
<1>0. /\ TypeOK /\ RunsHaveTasks /\ run \in [Run -> Execution] /\ disk \in [Name -> Task \union {None}]
      /\ runRow \in [Run -> RowStatus] /\ autoRow \in [Run -> RowStatus]
  BY DEF TypeInv, TypeOK, Tasks
<1>1. Interrupt(runRow) \in [Run -> RowStatus] /\ Interrupt(autoRow) \in [Run -> RowStatus]
  BY <1>0 DEF Interrupt, RowStatus
<1>2. CASE Crash
  <2>1. run' \in [Run -> Execution] /\ RunsHaveTasks'
    <3>1. run' = [r \in Run |-> IF Alive(r) THEN [run[r] EXCEPT !.pc = "done"] ELSE run[r]]
      BY <1>2 DEF Crash
    <3>. QED BY <1>0, <3>1 DEF Execution, RunPhases, Alive, RunsHaveTasks
  <2>2. tick' \in [Tick -> Walk]
    BY <1>2 DEF Crash, Walk, NoTick
  <2>3. /\ up' \in BOOLEAN /\ aliased' \in BOOLEAN /\ config' \in Tasks /\ base' \in Tasks
        /\ sched' \in [Name -> Registered \union {None}] /\ writes' \in Seq(Job)
        /\ newest' \in Places
    <3>1. /\ up' = FALSE /\ aliased' = TRUE /\ writes' = <<>> /\ newest' = "saved"
          /\ config' = [n \in Name |-> None] /\ base' = config' /\ sched' = [n \in Name |-> None]
      BY <1>2, Zenon DEF Crash
    <3>2. config' \in Tasks /\ base' \in Tasks
      BY <3>1 DEF Tasks
    <3>3. sched' \in [Name -> Registered \union {None}]
      BY <3>1
    <3>4. writes' \in Seq(Job)
      BY <3>1
    <3>. QED BY <3>1, <3>2, <3>3, <3>4 DEF Places
  <2>4. UNCHANGED <<disk, row, runRow, autoRow, outbox, answer, version, usedIds>>
    BY <1>2 DEF Crash, storeVars, drawnVars
  <2>. QED BY <1>0, <2>1, <2>2, <2>3, <2>4 DEF TypeInv, TypeOK, Places
<1>3. CASE Restart
  <2>1. row' \in [Id -> Row \union {None}]
    BY <1>0, <1>3, RestoreType DEF Restart
  <2>2. sched' \in [Name -> Registered \union {None}]
    BY <1>0, <1>3, RegistrationType DEF Restart
  <2>. QED BY <1>0, <1>1, <1>3, <2>1, <2>2 DEF Restart, TypeInv, TypeOK, RunsHaveTasks, drawnVars
<1>4. CASE StartFails
  <2>1. row' \in [Id -> Row \union {None}]
    BY <1>0, <1>4, RestoreType DEF StartFails
  <2>. QED BY <1>0, <1>1, <1>4, <2>1 DEF StartFails, TypeInv, TypeOK, RunsHaveTasks, configVars, drawnVars
<1>. QED BY <1>2, <1>3, <1>4

LEMMA TypeStep ==
  ASSUME TypeInv, [Next]_vars
  PROVE  TypeInv'
<1>1. CASE Next
  BY <1>1, ProcedureType, SettingsType, WriteEndsType, WriteFailsType, SchedulerType, RunStepType, CrashType DEF Next
<1>2. CASE UNCHANGED vars
  BY <1>2 DEF vars, configVars, storeVars, drawnVars, TypeInv, TypeOK, RunsHaveTasks
<1>. QED BY <1>1, <1>2

LEMMA TypeInit ==
  ASSUME Init
  PROVE  TypeInv
<1>1. config \in Tasks /\ base \in Tasks /\ disk \in Tasks
  BY DEF Init, Tasks
<1>2. run \in [Run -> Execution] /\ RunsHaveTasks
  BY DEF Init, NoRun, Execution, RunPhases, RunsHaveTasks
<1>3. tick \in [Tick -> Walk]
  BY DEF Init, NoTick, Walk
<1>. QED BY <1>1, <1>2, <1>3 DEF Init, TypeInv, TypeOK, RowStatus

LEMMA TypeInvariant == Spec => []TypeInv
<1>. QED BY TypeInit, TypeStep, PTL DEF Spec

(* The variables, the rows and the file always have their types, whatever  *)
(* overlaps and whenever the process dies.                                 *)
THEOREM CronTypesCorrect == Spec => []TypeOK
<1>1. TypeInv => TypeOK
  BY DEF TypeInv
<1>. QED BY <1>1, TypeInvariant, PTL

-----------------------------------------------------------------------------
(* Deliveries                                                              *)
-----------------------------------------------------------------------------
(* An answer leaves the outbox only after it has arrived. *)
AnswerInv ==
  AnswersAreKept /\ \A r \in Run : run[r].pc = "notified" => answer[r] = "arrived"

LEMMA AnswerStep ==
  ASSUME TypeInv, AnswerInv, [Next]_vars
  PROVE  AnswerInv'
<1>0. /\ run \in [Run -> Execution] /\ answer \in [Run -> {"none", "due", "arrived"}]
      /\ AnswerInv
  BY DEF TypeInv, TypeOK
<1>1. ASSUME UNCHANGED <<outbox, answer>>,
             \A r \in Run : run'[r].pc = "notified" => run[r].pc = "notified"
      PROVE  AnswerInv'
  BY <1>0, <1>1 DEF AnswerInv, AnswersAreKept
<1>2. ASSUME NEW r \in Run, NEW phase \in RunPhases \ {"notified"}, ToPhase(r, phase), UNCHANGED <<outbox, answer>>
      PROVE  AnswerInv'
  <2>1. \A s \in Run : run'[s].pc = "notified" => run[s].pc = "notified"
    BY <1>0, <1>2 DEF ToPhase, Execution
  <2>. QED BY <1>1, <1>2, <2>1
<1>3. ASSUME NEW r \in Run, RunStep(r)
      PROVE  AnswerInv'
  <2>7. CASE PreparationFails(r)
    BY <1>2, <2>7 DEF PreparationFails, Return, RunPhases
  <2>8. ASSUME NEW status, ArchivingFails(r, status)
        PROVE  AnswerInv'
    BY <1>2, <2>8 DEF ArchivingFails, Return, RunPhases
  <2>1. CASE StartAttempt(r)
    <3>1. PICK phase \in {"chatting", "done"} : ToPhase(r, phase) /\ UNCHANGED <<outbox, answer>>
      BY <2>1 DEF StartAttempt, Return
    <3>. QED BY <1>2, <3>1 DEF RunPhases
  <2>2. ASSUME NEW status \in {"success", "error"}, EndAttempt(r, status)
        PROVE  AnswerInv'
    <3>1. CASE \E phase \in {"sleeping", "logging"} : ToPhase(r, phase) /\ UNCHANGED <<outbox, answer>>
      BY <1>2, <3>1 DEF RunPhases
    <3>2. CASE /\ ToPhase(r, "delivering") /\ outbox' = outbox \union {r}
               /\ answer' = [answer EXCEPT ![r] = "due"]
      BY <1>0, <3>2 DEF ToPhase, Execution, AnswerInv, AnswersAreKept
    <3>. QED BY <2>2, <3>1, <3>2 DEF EndAttempt, Deliver
  <2>3. CASE Retry(r)
    <3>1. \A s \in Run : run'[s].pc = "notified" => run[s].pc = "notified"
      BY <1>0, <2>3 DEF Retry, Execution
    <3>. QED BY <1>1, <2>3, <3>1 DEF Retry, storeVars
  <2>4. CASE Notify(r)
    BY <1>0, <2>4 DEF Notify, ToPhase, Execution, storeVars, AnswerInv, AnswersAreKept
  <2>5. ASSUME NEW sent \in BOOLEAN, EndDelivery(r, sent)
        PROVE  AnswerInv'
    <3>1. \A s \in Run : run'[s].pc = "notified" => run[s].pc = "notified" /\ s # r
      BY <1>0, <2>5 DEF EndDelivery, ToPhase, Execution
    <3>. QED BY <1>0, <2>5, <3>1 DEF EndDelivery, AnswerInv, AnswersAreKept
  <2>6. CASE SaveResult(r)
    BY <1>2, <2>6 DEF SaveResult, Return, RunPhases
  <2>. QED BY <1>3, <2>1, <2>2, <2>3, <2>4, <2>5, <2>6, <2>7, <2>8 DEF RunStep
<1>4. ASSUME NEW n \in Name, NEW r \in Run, CronRun(n, r) \/ \E k \in Tick : TickRuns(k, n, r)
      PROVE  AnswerInv'
  <2>1. PICK by : Begin(r, n, by)
    BY <1>4 DEF CronRun, TickRuns
  <2>2. \A s \in Run : run'[s].pc = "notified" => run[s].pc = "notified"
    BY <1>0, <2>1 DEF Begin
  <2>. QED BY <1>1, <1>4, <2>2 DEF CronRun, TickRuns, storeVars
<1>5. CASE Crash
  <2>1. run' = [r \in Run |-> IF Alive(r) THEN [run[r] EXCEPT !.pc = "done"] ELSE run[r]]
    BY <1>5, Zenon DEF Crash
  <2>2. \A r \in Run : run'[r].pc = "notified" => run[r].pc = "notified"
    BY <1>0, <2>1 DEF Execution
  <2>. QED BY <1>1, <1>5, <2>2 DEF Crash, storeVars
<1>6. ASSUME UNCHANGED <<run, outbox, answer>>
      PROVE  AnswerInv'
  BY <1>1, <1>6
<1>7. ASSUME NEW n \in Name,
             \/ \E id \in Id, f \in Flavour : CronAdd(n, id, f)
             \/ \E f \in Flavour, s \in Switch : CronUpdate(n, f, s)
             \/ CronPause(n, TRUE) \/ CronPause(n, FALSE) \/ CronRemove(n)
      PROVE  AnswerInv'
  BY <1>6, <1>7, Zenon DEF CronAdd, CronUpdate, CronPause, CronRemove, Define, storeVars
<1>8. ASSUME \/ SaveSettings(TRUE) \/ SaveSettings(FALSE) \/ SaveModels
             \/ \E i \in DOMAIN writes : WriteEnds(i) \/ WriteFails(i)
             \/ \E k \in Tick : TickStarts(k) \/ TickEnds(k)
             \/ Restart \/ StartFails \/ UNCHANGED vars
      PROVE  AnswerInv'
  BY <1>6, <1>8 DEF SaveSettings, SaveModels, WriteEnds, WriteFails, TickStarts, TickEnds, Restart, StartFails,
                    vars, storeVars
<1>. QED BY <1>3, <1>4, <1>5, <1>7, <1>8 DEF Next

(* An answer that is to be delivered is never lost: it has arrived or is   *)
(* in the outbox (deliverAutomationResult), whatever fails.                *)
THEOREM AnswersKept == Spec => []AnswersAreKept
<1>1. Init => AnswerInv
  BY DEF Init, NoRun, AnswerInv, AnswersAreKept
<1>2. AnswerInv => AnswersAreKept
  BY DEF AnswerInv
<1>. QED BY <1>1, <1>2, AnswerStep, TypeInvariant, PTL DEF Spec

-----------------------------------------------------------------------------
(* The configuration and its file                                          *)
-----------------------------------------------------------------------------
SavedInv ==
  /\ ConfigurationIsSaved
  /\ ~up => writes = <<>> /\ newest = "saved"

LEMMA HandedOver ==
  ASSUME writes \in Seq(Job), NEW new \in Tasks, NEW jobs \in Seq(Job), jobs # <<>>,
         jobs[Len(jobs)].content = new, StartWrites(jobs)
  PROVE  newest' = "saving" /\ writes' # <<>> /\ writes'[Len(writes')].content = new
<1>1. Len(writes \o jobs) = Len(writes) + Len(jobs) /\ Len(jobs) > 0
  OBVIOUS
<1>2. (writes \o jobs)[Len(writes) + Len(jobs)] = jobs[Len(jobs)]
  <2>1. Len(jobs) \in 1..Len(jobs) /\ Len(writes) + Len(jobs) > Len(writes)
    BY <1>1
  <2>. QED BY <1>1, <2>1
<1>. QED BY <1>1, <1>2 DEF StartWrites

LEMMA ChangeSaved ==
  ASSUME TypeOK, up, UNCHANGED up, NEW new \in Tasks, NEW jobs \in Seq(Job), jobs # <<>>,
         jobs[Len(jobs)].content = new, StartWrites(jobs), config' = new
  PROVE  SavedInv'
BY HandedOver DEF TypeOK, SavedInv, ConfigurationIsSaved

LEMMA ReturnSaved ==
  ASSUME TypeInv, SavedInv, up, NEW r \in Run, run[r].pc # "free", NEW jobs \in Seq(Job),
         jobs # <<>> => jobs[Len(jobs)].content = config, Return(r, jobs)
  PROVE  SavedInv'
<1> DEFINE n == run[r].name
           left == Write(Without(n), "delete", n, None)
<1>0. TypeOK /\ config \in Tasks /\ writes \in Seq(Job) /\ n \in Name /\ UNCHANGED up
  BY DEF TypeInv, TypeOK, RunsHaveTasks, Return
<1>1. CASE run[r].task.oneShot
  <2>1. left \in Job /\ Without(n) \in Tasks /\ left.content = Without(n)
    BY <1>0, WithoutType, WriteType DEF Write
  <2>2. config' = Without(n) /\ StartWrites(jobs \o <<left>>)
    BY <1>1 DEF Return, Leave, SetConfig
  <2>. HIDE DEF left, n
  <2>3. jobs \o <<left>> \in Seq(Job) /\ jobs \o <<left>> # <<>>
    BY <2>1
  <2>4. (jobs \o <<left>>)[Len(jobs \o <<left>>)] = left
    BY <2>1
  <2>. QED BY <1>0, <2>1, <2>2, <2>3, <2>4, ChangeSaved
<1>2. CASE ~run[r].task.oneShot /\ jobs = <<>>
  <2>1. UNCHANGED <<config, disk, writes, newest>>
    BY <1>0, <1>2 DEF Return, Leave, StartWrites
  <2>. QED BY <1>0, <2>1 DEF SavedInv, ConfigurationIsSaved
<1>3. CASE ~run[r].task.oneShot /\ jobs # <<>>
  <2>1. StartWrites(jobs) /\ config' = config
    BY <1>3 DEF Return, Leave
  <2>. QED BY <1>0, <1>3, <2>1, ChangeSaved
<1>. QED BY <1>1, <1>2, <1>3

LEMMA RemovedFromWrites ==
  ASSUME TypeOK, NEW i \in DOMAIN writes
  PROVE  /\ Len(RemoveAt(writes, i)) = Len(writes) - 1
         /\ i # Len(writes) => /\ RemoveAt(writes, i) # <<>>
                               /\ RemoveAt(writes, i)[Len(writes) - 1] = writes[Len(writes)]
         /\ \A j \in DOMAIN RemoveAt(writes, i) : \E k \in DOMAIN writes : RemoveAt(writes, i)[j] = writes[k]
<1> DEFINE a == SubSeq(writes, 1, i - 1)
           b == SubSeq(writes, i + 1, Len(writes))
<1>0. writes \in Seq(Job) /\ i \in 1..Len(writes) /\ Len(writes) \in Nat
  BY DEF TypeOK
<1>1. a \in Seq(Job) /\ Len(a) = i - 1 /\ \A j \in 1..(i - 1) : a[j] = writes[j]
  BY <1>0
<1>2. b \in Seq(Job) /\ Len(b) = Len(writes) - i /\ \A j \in 1..(Len(writes) - i) : b[j] = writes[j + i]
  BY <1>0
<1>. HIDE DEF a, b
<1>3. a \o b \in Seq(Job) /\ Len(a \o b) = Len(writes) - 1
  BY <1>0, <1>1, <1>2
<1>4. \A j \in 1..(Len(a) + Len(b)) : (a \o b)[j] = IF j <= Len(a) THEN a[j] ELSE b[j - Len(a)]
  <2>1. a \in Seq(Job) /\ b \in Seq(Job)
    BY <1>1, <1>2
  <2>. QED BY <2>1, ConcatProperties
<1>5. ASSUME NEW j \in 1..(Len(writes) - 1)
      PROVE  (a \o b)[j] = IF j < i THEN writes[j] ELSE writes[j + 1]
  <2>0. j \in Nat /\ i \in Nat /\ Len(writes) \in Nat /\ j \in 1..(Len(a) + Len(b))
    BY <1>0, <1>1, <1>2
  <2>1. CASE j < i
    <3>1. j \in 1..Len(a)
      BY <1>1, <2>0, <2>1
    <3>2. (a \o b)[j] = a[j]
      BY <1>4, <2>0, <3>1
    <3>. QED BY <1>1, <2>1, <3>1, <3>2
  <2>2. CASE ~(j < i)
    <3>1. ~(j <= Len(a)) /\ j - Len(a) \in 1..(Len(writes) - i) /\ (j - Len(a)) + i = j + 1
      BY <1>0, <1>1, <2>0, <2>2
    <3>2. (a \o b)[j] = b[j - Len(a)]
      BY <1>4, <2>0, <3>1
    <3>3. b[j - Len(a)] = writes[(j - Len(a)) + i]
      BY <1>2, <3>1
    <3>. QED BY <2>2, <3>1, <3>2, <3>3
  <2>. QED BY <2>1, <2>2
<1>6. RemoveAt(writes, i) = a \o b
  BY DEF RemoveAt, a, b
<1>7. DOMAIN (a \o b) = 1..(Len(writes) - 1)
  BY <1>0, <1>3
<1>8. ASSUME i # Len(writes)
      PROVE  a \o b # <<>> /\ (a \o b)[Len(writes) - 1] = writes[Len(writes)]
  <2>1. Len(writes) - 1 \in 1..(Len(writes) - 1) /\ ~(Len(writes) - 1 < i) /\ (Len(writes) - 1) + 1 = Len(writes)
    BY <1>0, <1>8
  <2>2. a \o b # <<>>
    BY <1>3, <2>1
  <2>. QED BY <1>5, <2>1, <2>2
<1>9. ASSUME NEW j \in DOMAIN (a \o b)
      PROVE  \E k \in DOMAIN writes : (a \o b)[j] = writes[k]
  <2>1. j \in DOMAIN writes /\ j + 1 \in DOMAIN writes
    BY <1>0, <1>7
  <2>. QED BY <1>5, <1>7, <2>1
<1>. QED BY <1>3, <1>6, <1>8, <1>9

LEMMA SavedStep ==
  ASSUME TypeInv, SavedInv, [Next]_vars
  PROVE  SavedInv'
<1>0. /\ TypeOK /\ RunsHaveTasks /\ config \in Tasks /\ base \in Tasks /\ writes \in Seq(Job)
      /\ newest \in Places
  BY DEF TypeInv, TypeOK, Places
<1>1. ASSUME NEW n \in Name, NEW task \in Task, Define(n, task), up
      PROVE  SavedInv'
  <2> DEFINE new == [config EXCEPT ![n] = task]
             job == Write(new, "upsert", n, task)
  <2>1. new \in Tasks /\ job \in Job /\ job.content = new
    <3>1. new \in Tasks
      BY <1>0 DEF Tasks
    <3>. QED BY <3>1, WriteType DEF Write
  <2>2. StartWrites(<<job>>) /\ config' = new /\ UNCHANGED up
    BY <1>1 DEF Define, SetConfig
  <2>. HIDE DEF new, job
  <2>. QED BY <1>0, <1>1, <2>1, <2>2, ChangeSaved
<1>2. ASSUME NEW n \in Name, \E id \in Id, f \in Flavour : CronAdd(n, id, f)
      PROVE  SavedInv'
  BY <1>0, <1>1, <1>2, AddedType
<1>3. ASSUME NEW n \in Name, \E f \in Flavour, s \in Switch : CronUpdate(n, f, s)
      PROVE  SavedInv'
  BY <1>0, <1>1, <1>3, UpdatedType
<1>4. ASSUME NEW new \in Tasks, NEW what, NEW n \in Name, NEW task,
             \/ what = "upsert" /\ task \in Task
             \/ what \in {"nothing", "delete"} /\ task = None,
             up, UNCHANGED up, config' = new, StartWrites(<<Write(new, what, n, task)>>)
      PROVE  SavedInv'
  <2> DEFINE job == Write(new, what, n, task)
  <2>1. job \in Job /\ job.content = new
    BY <1>4, WriteType DEF Write
  <2>2. StartWrites(<<job>>)
    BY <1>4
  <2>. HIDE DEF job
  <2>. QED BY <1>0, <1>4, <2>1, <2>2, ChangeSaved
<1>5. ASSUME NEW n \in Name, NEW paused \in BOOLEAN, CronPause(n, paused)
      PROVE  SavedInv'
  <2>1. PICK new \in Tasks : /\ new = IF config[n] = None THEN config ELSE [config EXCEPT ![n].paused = paused]
                             /\ config[n] = None => new[n] = None
                             /\ config[n] # None => new[n] \in Task
    BY <1>0, PausedType
  <2>2. /\ up /\ UNCHANGED up /\ config' = new
        /\ StartWrites(<<Write(new, IF config[n] = None THEN "nothing" ELSE "upsert", n, new[n])>>)
    BY <1>5, <2>1 DEF CronPause, SetConfig, Idle
  <2>3. CASE config[n] = None
    BY <1>4, <2>1, <2>2, <2>3
  <2>4. CASE config[n] # None
    BY <1>4, <2>1, <2>2, <2>4
  <2>. QED BY <2>3, <2>4
<1>6. ASSUME NEW n \in Name, CronRemove(n)
      PROVE  SavedInv'
  <2>1. /\ up /\ UNCHANGED up /\ config' = Without(n) /\ Without(n) \in Tasks
        /\ StartWrites(<<Write(Without(n), "delete", n, None)>>)
    BY <1>0, <1>6, WithoutType DEF CronRemove, SetConfig, Idle
  <2>. QED BY <1>4, <2>1
<1>7. ASSUME NEW new \in Tasks, up, UNCHANGED up, config' = new,
             StartWrites(<<[content |-> new, then |-> NoThen]>>)
      PROVE  SavedInv'
  <2>1. [content |-> new, then |-> NoThen] \in Job
    BY DEF Job, Then, NoThen
  <2>. QED BY <1>0, <1>7, <2>1, ChangeSaved
<1>8. CASE SaveSettings(TRUE) \/ SaveSettings(FALSE) \/ SaveModels
  BY <1>0, <1>7, <1>8 DEF SaveSettings, SaveModels, Idle
<1>9. ASSUME NEW i \in DOMAIN writes, WriteEnds(i) \/ WriteFails(i)
      PROVE  SavedInv'
  <2>1. /\ up /\ UNCHANGED <<up, config>> /\ writes' = RemoveAt(writes, i) /\ i \in 1..Len(writes)
        /\ writes' \in Seq(Job)
    <3>1. up /\ UNCHANGED <<up, config>> /\ writes' = RemoveAt(writes, i)
      BY <1>9, Zenon DEF WriteEnds, WriteFails, Idle
    <3>2. i \in 1..Len(writes)
      BY <1>0
    <3>. QED BY <1>0, <3>1, <3>2, RemoveAtType
  <2>2. Len(writes') = Len(writes) - 1
    BY <1>0, <2>1, RemovedFromWrites
  <2>3. CASE newest = "saving" /\ i # Len(writes)
    <3>1. newest' = "saving"
      BY <1>9, <2>3 DEF WriteEnds, WriteFails
    <3>2. writes' # <<>> /\ writes'[Len(writes')] = writes[Len(writes)]
      BY <1>0, <2>1, <2>2, <2>3, RemovedFromWrites
    <3>. QED BY <2>1, <2>3, <3>1, <3>2 DEF SavedInv, ConfigurationIsSaved
  <2>4. CASE newest = "saving" /\ i = Len(writes)
    BY <1>9, <2>1, <2>4 DEF SavedInv, ConfigurationIsSaved, WriteEnds, WriteFails
  <2>5. CASE newest # "saving"
    BY <1>0, <1>9, <2>1, <2>5 DEF SavedInv, ConfigurationIsSaved, WriteEnds, WriteFails, Places
  <2>. QED BY <2>3, <2>4, <2>5
<1>10. ASSUME UNCHANGED <<up, config, disk, writes, newest>>
       PROVE  SavedInv'
  BY <1>10 DEF SavedInv, ConfigurationIsSaved
<1>11. ASSUME NEW r \in Run, RunStep(r)
       PROVE  SavedInv'
  <2>1. CASE Return(r, <<>>) /\ up /\ run[r].pc # "free"
    <3>1. <<>> \in Seq(Job)
      OBVIOUS
    <3>. QED BY <2>1, <3>1, ReturnSaved
  <2>2. CASE SaveResult(r)
    <3> DEFINE n == run[r].name
               what == IF config[n] = None THEN "nothing" ELSE "upsert"
               job == Write(config, what, n, config[n])
    <3>1. up /\ run[r].pc # "free" /\ n \in Name /\ Return(r, <<job>>) /\ job.content = config
      BY <1>0, <2>2 DEF SaveResult, Idle, RunsHaveTasks, Write
    <3>2. job \in Job
      <4>1. \/ what = "upsert" /\ config[n] \in Task
            \/ what \in {"nothing", "delete"} /\ config[n] = None
        BY <1>0, <3>1 DEF Tasks
      <4>. HIDE DEF n, what
      <4>. QED BY <1>0, <3>1, <4>1, WriteType
    <3>. HIDE DEF job
    <3>3. <<job>> \in Seq(Job) /\ <<job>>[Len(<<job>>)] = job
      BY <3>2
    <3>. QED BY <3>1, <3>3, ReturnSaved
  <2>3. CASE UNCHANGED <<up, config, disk, writes, newest>>
    BY <1>10, <2>3
  <2>4. CASE PreparationFails(r) \/ StartAttempt(r) \/ \E status \in {"success", "error"} : ArchivingFails(r, status)
    BY <2>1, <2>3, <2>4 DEF PreparationFails, StartAttempt, ArchivingFails, Idle, configVars
  <2>5. CASE \/ \E status \in {"success", "error"} : EndAttempt(r, status)
             \/ Retry(r) \/ Notify(r) \/ \E sent \in BOOLEAN : EndDelivery(r, sent)
    BY <2>3, <2>5, Zenon DEF EndAttempt, Retry, Notify, EndDelivery, configVars
  <2>. QED BY <1>11, <2>2, <2>4, <2>5 DEF RunStep
<1>12. CASE Crash \/ Restart \/ StartFails
  <2>1. CASE Crash
    BY <2>1 DEF SavedInv, ConfigurationIsSaved, Crash
  <2>2. CASE Restart
    BY <2>2 DEF SavedInv, ConfigurationIsSaved, Restart
  <2>3. CASE StartFails
    BY <1>10, <2>3 DEF StartFails, configVars
  <2>. QED BY <1>12, <2>1, <2>2, <2>3
<1>13. CASE \/ \E n \in Name, r \in Run : CronRun(n, r) \/ \E k \in Tick : TickRuns(k, n, r)
            \/ \E k \in Tick : TickStarts(k) \/ TickEnds(k)
            \/ UNCHANGED vars
  BY <1>10, <1>13, Zenon DEF CronRun, TickRuns, TickStarts, TickEnds, vars, configVars
<1>. QED BY <1>2, <1>3, <1>5, <1>6, <1>8, <1>9, <1>11, <1>12, <1>13 DEF Next

(* Every change of the tasks, whoever makes it, is in the newest write of  *)
(* config.json and then in the file (saveConfig), for any overlapping      *)
(* edits, handlers, settings and writes, and after a crash.                *)
THEOREM EveryChangeIsSaved == Spec => []ConfigurationIsSaved
<1>1. Init => SavedInv
  BY DEF Init, SavedInv, ConfigurationIsSaved
<1>2. SavedInv => ConfigurationIsSaved
  BY DEF SavedInv
<1>. QED BY <1>1, <1>2, SavedStep, TypeInvariant, PTL DEF Spec

-----------------------------------------------------------------------------
(* Executions and their records                                            *)
-----------------------------------------------------------------------------
(* An execution's records: they run while it is chatting, and what is in   *)
(* automation_runs refers to a row of automation_tasks.                    *)
RecordsFit(r) ==
  /\ run[r].pc \in {"free", "preparing", "sleeping"} => autoRow[r] \in {"none", "error"}
  /\ run[r].pc = "chatting" => autoRow[r] \in {"none", "running"}
  /\ autoRow[r] # "none" => run[r].pc # "free" /\ row[run[r].task.id] # None
  /\ ~up => ~Alive(r)
  /\ up => /\ autoRow[r] = "running" => run[r].pc = "chatting"
           /\ runRow[r] = "running" => run[r].pc = "chatting" \/ (run[r].pc = "done" /\ autoRow[r] = "none")

RecordInv == \A r \in Run : RecordsFit(r)

(* Rows are written, not removed. *)
LEMMA RowsStay ==
  ASSUME TypeInv, RecordInv, UNCHANGED <<up, run, runRow, autoRow>>,
         \A i \in Id : row[i] # None => row'[i] # None
  PROVE  RecordInv'
<1>. SUFFICES ASSUME NEW r \in Run PROVE RecordsFit(r)'
  BY DEF RecordInv
<1>1. RecordsFit(r) /\ (run[r].pc # "free" => run[r].task \in Task)
  BY DEF RecordInv, TypeInv, RunsHaveTasks
<1>. QED BY <1>1 DEF RecordsFit, Alive, Task

LEMMA UpsertKeepsRows ==
  ASSUME TypeInv, NEW n \in Name, NEW task \in Task, Upsert(n, task)
  PROVE  \A i \in Id : row[i] # None => row'[i] # None
<1>1. row \in [Id -> Row \union {None}] /\ task.id \in Id
  BY DEF TypeInv, TypeOK, Task
<1>2. [name |-> n, version |-> task.version, paused |-> task.paused] \in Row
  BY DEF Row, Task
<1>. QED BY <1>1, <1>2, NoneAssumption DEF Upsert

(* The rows of a task go with all that refers to them. *)
LEMMA DeletedTogether ==
  ASSUME TypeInv, RecordInv, UNCHANGED <<up, run, runRow>>, NEW n, DeleteRow(n)
  PROVE  RecordInv'
<1>. SUFFICES ASSUME NEW r \in Run PROVE RecordsFit(r)'
  BY DEF RecordInv
<1>1. RecordsFit(r) /\ (run[r].pc # "free" => run[r].task \in Task)
  BY DEF RecordInv, TypeInv, RunsHaveTasks
<1>2. /\ run[r].task # None /\ row[run[r].task.id] # None /\ row[run[r].task.id].name = n
         => autoRow'[r] = "none"
      /\ ~(run[r].task # None /\ row[run[r].task.id] # None /\ row[run[r].task.id].name = n)
         => autoRow'[r] = autoRow[r]
  BY DEF DeleteRow
<1>3. \A i \in Id : row'[i] = None => row[i] = None \/ row[i].name = n
  BY DEF DeleteRow
<1>4. None \notin Task
  BY NoneAssumption
<1>5. run[r].pc # "free" => run[r].task.id \in Id
  BY <1>1 DEF Task
<1>. QED BY <1>1, <1>2, <1>3, <1>4, <1>5 DEF RecordsFit, Alive

(* A step of one execution. *)
LEMMA OneRecord ==
  ASSUME TypeInv, RecordInv, NEW r \in Run, UNCHANGED up,
         \A i \in Id : row[i] # None => row'[i] # None,
         \A s \in Run \ {r} : /\ run'[s] = run[s]
                              /\ runRow'[s] = runRow[s] /\ autoRow'[s] = autoRow[s],
         RecordsFit(r)'
  PROVE  RecordInv'
<1>. SUFFICES ASSUME NEW s \in Run \ {r} PROVE RecordsFit(s)'
  BY DEF RecordInv
<1>1. RecordsFit(s) /\ (run[s].pc # "free" => run[s].task \in Task)
  BY DEF RecordInv, TypeInv, RunsHaveTasks
<1>. QED BY <1>1 DEF RecordsFit, Alive, Task

LEMMA MovedTo ==
  ASSUME TypeInv, NEW r \in Run, NEW phase, ToPhase(r, phase)
  PROVE  /\ run'[r].pc = phase /\ run'[r].task = run[r].task /\ run'[r].name = run[r].name
         /\ \A s \in Run \ {r} : run'[s] = run[s]
BY DEF TypeInv, TypeOK, ToPhase, Execution

LEMMA FinishedRecords ==
  ASSUME TypeInv, NEW r \in Run, NEW status \in {"success", "error"}, Finish(r, status), Settle(r, status)
  PROVE  /\ runRow'[r] # "running"
         /\ autoRow'[r] = IF autoRow[r] # "none" THEN status ELSE "none"
         /\ \A s \in Run \ {r} : runRow'[s] = runRow[s] /\ autoRow'[s] = autoRow[s]
BY DEF TypeInv, TypeOK, Finish, Settle, RowStatus

LEMMA RecordRunStep ==
  ASSUME TypeInv, RecordInv, NEW r \in Run, RunStep(r)
  PROVE  RecordInv'
<1>0. /\ run \in [Run -> Execution] /\ RecordsFit(r) /\ up /\ UNCHANGED up
      /\ runRow \in [Run -> RowStatus] /\ autoRow \in [Run -> RowStatus]
  BY DEF RecordInv, TypeInv, TypeOK, RunStep, PreparationFails, StartAttempt, EndAttempt, ArchivingFails,
         Retry, Notify, EndDelivery, SaveResult, Idle, Return
<1>1. run[r].pc # "free" /\ run[r].task \in Task /\ run[r].name \in Name
  BY DEF RunStep, PreparationFails, StartAttempt, EndAttempt, ArchivingFails, Retry, Notify, EndDelivery,
         SaveResult, TypeInv, RunsHaveTasks
<1>2. CASE PreparationFails(r)
  <2>1. run[r].pc = "preparing" /\ ToPhase(r, "done") /\ UNCHANGED <<row, runRow, autoRow>>
    BY <1>2 DEF PreparationFails, Return
  <2>2. RecordsFit(r)'
    BY <1>0, <2>1, MovedTo DEF RecordsFit, Alive
  <2>. QED BY <1>0, <2>1, <2>2, MovedTo, OneRecord
<1>3. CASE StartAttempt(r)
  <2>1. run[r].pc = "preparing" /\ UNCHANGED row /\ runRow'[r] = "running"
        /\ \A s \in Run \ {r} : runRow'[s] = runRow[s]
    BY <1>0, <1>3 DEF StartAttempt
  <2>2. CASE row[run[r].task.id] # None
    <3>1. /\ ToPhase(r, "chatting") /\ autoRow'[r] = "running"
          /\ \A s \in Run \ {r} : autoRow'[s] = autoRow[s]
      BY <1>0, <1>3, <2>2 DEF StartAttempt
    <3>2. RecordsFit(r)'
      BY <1>0, <2>1, <2>2, <3>1, MovedTo DEF RecordsFit, Alive
    <3>. QED BY <1>0, <2>1, <3>1, <3>2, MovedTo, OneRecord
  <2>3. CASE row[run[r].task.id] = None
    <3>1. ToPhase(r, "done") /\ UNCHANGED autoRow
      BY <1>3, <2>3 DEF StartAttempt, Return
    <3>2. RecordsFit(r)'
      BY <1>0, <2>1, <2>3, <3>1, MovedTo DEF RecordsFit, Alive
    <3>. QED BY <1>0, <2>1, <3>1, <3>2, MovedTo, OneRecord
  <2>. QED BY <2>2, <2>3
<1>4. ASSUME NEW status \in {"success", "error"}, EndAttempt(r, status) \/ ArchivingFails(r, status)
      PROVE  RecordInv'
  <2>1. run[r].pc = "chatting" /\ UNCHANGED row /\ Finish(r, status) /\ Settle(r, status)
    BY <1>4 DEF EndAttempt, ArchivingFails
  <2>2. PICK phase \in {"sleeping", "logging", "delivering", "done"} :
          ToPhase(r, phase) /\ (phase = "sleeping" => status = "error")
    BY <1>4 DEF EndAttempt, ArchivingFails, Return, Deliver
  <2>3. RecordsFit(r)'
    BY <1>0, <2>1, <2>2, MovedTo, FinishedRecords DEF RecordsFit, Alive
  <2>. QED BY <1>0, <2>1, <2>2, <2>3, MovedTo, FinishedRecords, OneRecord
<1>5. CASE Retry(r)
  <2>1. /\ run[r].pc = "sleeping" /\ UNCHANGED <<row, runRow, autoRow>>
        /\ run'[r].pc = "preparing" /\ run'[r].task = run[r].task
        /\ \A s \in Run \ {r} : run'[s] = run[s]
    BY <1>0, <1>5 DEF Retry, storeVars, Execution
  <2>2. RecordsFit(r)'
    BY <1>0, <2>1 DEF RecordsFit, Alive
  <2>. QED BY <1>0, <2>1, <2>2, OneRecord
<1>6. CASE Notify(r) \/ \E sent \in BOOLEAN : EndDelivery(r, sent)
  <2>1. run[r].pc \in {"delivering", "notified"} /\ UNCHANGED <<row, runRow, autoRow>>
    BY <1>6 DEF Notify, EndDelivery, storeVars
  <2>2. PICK phase \in {"notified", "logging"} : ToPhase(r, phase)
    BY <1>6 DEF Notify, EndDelivery
  <2>3. RecordsFit(r)'
    BY <1>0, <2>1, <2>2, MovedTo DEF RecordsFit, Alive
  <2>. QED BY <1>0, <2>1, <2>2, <2>3, MovedTo, OneRecord
<1>7. CASE SaveResult(r)
  <2>1. /\ run[r].pc = "logging" /\ UNCHANGED <<runRow, autoRow>>
        /\ Upsert(run[r].name, run[r].task) /\ ToPhase(r, "done")
    BY <1>7 DEF SaveResult, Return
  <2>2. \A i \in Id : row[i] # None => row'[i] # None
    BY <1>1, <2>1, UpsertKeepsRows
  <2>3. RecordsFit(r)'
    BY <1>0, <1>1, <2>1, <2>2, MovedTo DEF RecordsFit, Alive, Task
  <2>. QED BY <1>0, <2>1, <2>2, <2>3, MovedTo, OneRecord
<1>. QED BY <1>2, <1>3, <1>4, <1>5, <1>6, <1>7 DEF RunStep

(* The start writes rows and settles records. *)
LEMMA Restored ==
  ASSUME TypeInv, NEW names \in SUBSET Name, \A n \in names : disk[n] # None, Restore(names)
  PROVE  \A i \in Id : /\ row[i] # None => row'[i] # None
                       /\ row'[i] # row[i] => \E n \in names : disk[n].id = i /\ row'[i].name = n
<1>. SUFFICES ASSUME NEW i \in Id
              PROVE  /\ row[i] # None => row'[i] # None
                     /\ row'[i] # row[i] => \E n \in names : disk[n].id = i /\ row'[i].name = n
  OBVIOUS
<1>1. CASE \E n \in names : disk[n].id = i
  <2>1. PICK m : m = CHOOSE n \in names : disk[n].id = i
    OBVIOUS
  <2>2. m \in names /\ disk[m].id = i
    BY <1>1, <2>1
  <2>3. row'[i] = [name |-> m, version |-> disk[m].version, paused |-> disk[m].paused]
    BY <1>1, <2>1 DEF Restore
  <2>4. disk[m] \in Task
    BY <2>2 DEF TypeInv, TypeOK, Tasks
  <2>5. row'[i] \in Row
    BY <2>2, <2>3, <2>4 DEF Row, Task
  <2>. QED BY <2>2, <2>3, <2>5, NoneAssumption
<1>2. CASE ~\E n \in names : disk[n].id = i
  BY <1>2 DEF Restore
<1>. QED BY <1>1, <1>2

LEMMA RecordStep ==
  ASSUME TypeInv, RecordInv, [Next]_vars
  PROVE  RecordInv'
<1>1. ASSUME UNCHANGED <<up, run, row, runRow, autoRow>>
      PROVE  RecordInv'
  BY <1>1, RowsStay
<1>2. ASSUME NEW n \in Name, NEW task \in Task, Define(n, task)
      PROVE  RecordInv'
  BY <1>2, UpsertKeepsRows, RowsStay DEF Define
<1>3. ASSUME NEW n \in Name,
             \/ \E id \in Id, f \in Flavour : CronAdd(n, id, f)
             \/ \E f \in Flavour, s \in Switch : CronUpdate(n, f, s)
      PROVE  RecordInv'
  BY <1>2, <1>3, AddedType, UpdatedType DEF TypeInv
<1>4. ASSUME NEW i \in DOMAIN writes, WriteEnds(i)
      PROVE  RecordInv'
  <2>1. writes[i] \in Job /\ UNCHANGED <<up, run, runRow>>
    BY <1>4, RemoveAtType DEF WriteEnds, TypeInv
  <2>2. CASE writes[i].then.do = "upsert"
    <3>1. Upsert(writes[i].then.name, writes[i].then.task) /\ UNCHANGED autoRow
      BY <1>4, <2>2 DEF WriteEnds
    <3>2. writes[i].then.name \in Name /\ writes[i].then.task \in Task
      BY <2>1, <2>2 DEF Job, Then
    <3>. QED BY <2>1, <3>1, <3>2, UpsertKeepsRows, RowsStay
  <2>3. CASE writes[i].then.do = "delete"
    BY <1>4, <2>1, <2>3, DeletedTogether DEF WriteEnds
  <2>4. CASE writes[i].then.do = "nothing"
    BY <1>1, <1>4, <2>1, <2>4 DEF WriteEnds
  <2>. QED BY <2>1, <2>2, <2>3, <2>4 DEF Job, Then
<1>5. ASSUME NEW n \in Name, NEW r \in Run, CronRun(n, r) \/ \E k \in Tick : TickRuns(k, n, r)
      PROVE  RecordInv'
  <2>1. /\ Begin(r, n, None) \/ \E k \in Tick : Begin(r, n, k)
        /\ up /\ UNCHANGED <<up, row, runRow, autoRow>>
    BY <1>5 DEF CronRun, TickRuns, Idle, storeVars
  <2>2. run[r].pc = "free" /\ run'[r].pc = "preparing" /\ \A s \in Run \ {r} : run'[s] = run[s]
    BY <2>1 DEF Begin, TypeInv, TypeOK
  <2>3. RecordsFit(r)'
    BY <2>1, <2>2 DEF RecordInv, RecordsFit, Alive
  <2>. QED BY <2>1, <2>2, <2>3, OneRecord
<1>6. ASSUME NEW names \in SUBSET Name, \A n \in names : disk[n] # None, Restore(names),
             ~up, UNCHANGED run, runRow' = Interrupt(runRow), autoRow' = Interrupt(autoRow)
      PROVE  RecordInv'
  <2>. SUFFICES ASSUME NEW r \in Run PROVE RecordsFit(r)'
    BY DEF RecordInv
  <2>1. RecordsFit(r) /\ (run[r].pc # "free" => run[r].task \in Task)
    BY DEF RecordInv, TypeInv, RunsHaveTasks
  <2>2. /\ runRow'[r] # "running" /\ autoRow'[r] # "running"
        /\ autoRow'[r] = "none" <=> autoRow[r] = "none"
        /\ autoRow[r] \in {"none", "error"} => autoRow'[r] = autoRow[r]
    BY <1>6 DEF Interrupt, TypeInv, TypeOK
  <2>3. \A i \in Id : row[i] # None => row'[i] # None
    BY <1>6, Restored
  <2>. QED BY <1>6, <2>1, <2>2, <2>3 DEF RecordsFit, Alive, Task
<1>7. CASE Restart \/ StartFails
  <2>1. \E names \in SUBSET Name : (\A n \in names : disk[n] # None) /\ Restore(names)
    BY <1>7 DEF Restart, StartFails
  <2>2. ~up /\ UNCHANGED run /\ runRow' = Interrupt(runRow) /\ autoRow' = Interrupt(autoRow)
    BY <1>7 DEF Restart, StartFails
  <2>. QED BY <1>6, <2>1, <2>2
<1>8. CASE Crash
  <2>. SUFFICES ASSUME NEW r \in Run PROVE RecordsFit(r)'
    BY DEF RecordInv
  <2>1. RecordsFit(r) /\ run[r] \in Execution
    BY DEF RecordInv, TypeInv, TypeOK
  <2>2. run' = [s \in Run |-> IF Alive(s) THEN [run[s] EXCEPT !.pc = "done"] ELSE run[s]]
    BY <1>8, Zenon DEF Crash
  <2>3. /\ run'[r].pc = IF Alive(r) THEN "done" ELSE run[r].pc
        /\ run'[r].task = run[r].task
    BY <2>1, <2>2 DEF Execution
  <2>4. ~up' /\ UNCHANGED <<row, runRow, autoRow>>
    BY <1>8 DEF Crash, storeVars
  <2>. QED BY <2>1, <2>3, <2>4 DEF RecordsFit, Alive
<1>9. CASE \/ \E n \in Name : CronPause(n, TRUE) \/ CronPause(n, FALSE) \/ CronRemove(n)
           \/ SaveSettings(TRUE) \/ SaveSettings(FALSE) \/ SaveModels
           \/ \E i \in DOMAIN writes : WriteFails(i)
           \/ \E k \in Tick : TickStarts(k) \/ TickEnds(k)
           \/ UNCHANGED vars
  BY <1>1, <1>9, Zenon DEF CronPause, CronRemove, SaveSettings, SaveModels, WriteFails, TickStarts, TickEnds,
                           vars, storeVars
<1>. QED BY <1>3, <1>4, <1>5, <1>7, <1>8, <1>9, RecordRunStep DEF Next

LEMMA RecordInvariant == Spec => []RecordInv
<1>1. Init => RecordInv
  BY DEF Init, NoRun, RecordInv, RecordsFit, Alive
<1>. QED BY <1>1, RecordStep, TypeInvariant, PTL DEF Spec

(* No record is left running without a handler that will finish it         *)
(* (finishRun and finishAutomationRun), whatever edits, removals, retries, *)
(* failures and crashes overlap; a crash's are settled by the next start.  *)
THEOREM RunningRowsHandled == Spec => []RunningRowsHaveHandlers
<1>1. RecordInv => RunningRowsHaveHandlers
  BY DEF RecordInv, RecordsFit, RunningRowsHaveHandlers
<1>. QED BY <1>1, RecordInvariant, PTL

-----------------------------------------------------------------------------
(* Ids, versions and names                                                 *)
-----------------------------------------------------------------------------
(* Where a definition may be in use under a name. *)
Books == {config, base, disk} \union {job.content : job \in Pending}

Uses(n, d) ==
  \/ \E tasks \in Books : tasks[n] # None /\ Defined(tasks[n]) = d
  \/ \E job \in Pending : job.then.do = "upsert" /\ job.then.name = n /\ Defined(job.then.task) = d
  \/ sched[n] # None /\ Defined(sched[n].task) = d
  \/ \E r \in Run : run[r].pc # "free" /\ run[r].name = n /\ Defined(run[r].task) = d

(* An id belongs to one name, and so does the row of that id. *)
HeldInv ==
  /\ \A n \in Name, d \in Definition : Uses(n, d) => d.id \in usedIds /\ d.version <= version
  /\ \A n, m \in Name, d, e \in Definition : Uses(n, d) /\ Uses(m, e) /\ d.id = e.id => n = m
  /\ \A i \in Id : row[i] # None =>
       /\ i \in usedIds
       /\ \A n \in Name, d \in Definition : Uses(n, d) /\ d.id = i => row[i].name = n
  /\ \A i, j \in Id : row[i] # None /\ row[j] # None /\ row[i].name = row[j].name => i = j

LEMMA DefinedType ==
  ASSUME NEW task \in Task
  PROVE  /\ Defined(task) \in Definition /\ Defined(task) # None
         /\ Defined(task).id = task.id /\ Defined(task).version = task.version
         /\ Defined(task).oneShot = task.oneShot
BY NoneAssumption, DefinitionAssumption DEF Defined, Definition, Task

(* A row of a name that is not taken keeps names unique. *)
LEMMA NamesStay ==
  ASSUME TypeInv, HeldInv, NEW n \in Name, NEW task \in Task, Upsert(n, task)
  PROVE  /\ \A i \in Id : row'[i] = row[i] \/ (i = task.id /\ row'[i] # None /\ row'[i].name = n)
         /\ \A i, j \in Id : row'[i] # None /\ row'[j] # None /\ row'[i].name = row'[j].name => i = j
<1>1. row \in [Id -> Row \union {None}] /\ task.id \in Id
  BY DEF TypeInv, TypeOK, Task
<1>2. CASE NameTaken(n, task)
  BY <1>2 DEF Upsert, HeldInv
<1>3. CASE ~NameTaken(n, task)
  <2> DEFINE new == [name |-> n, version |-> task.version, paused |-> task.paused]
  <2>1. new \in Row /\ new.name = n /\ new # None
    BY NoneAssumption DEF Row, Task
  <2>2. row' = [row EXCEPT ![task.id] = new]
    BY <1>3 DEF Upsert
  <2>. HIDE DEF new
  <2>3. \A i \in Id : row'[i] = IF i = task.id THEN new ELSE row[i]
    BY <1>1, <2>2
  <2>. QED BY <1>1, <1>3, <2>1, <2>3 DEF NameTaken, HeldInv
<1>. QED BY <1>2, <1>3

(* Nothing comes into use that was not. *)
LEMMA NothingNew ==
  ASSUME HeldInv, UNCHANGED <<usedIds, version>> \/ (UNCHANGED usedIds /\ version' = version + 1 /\ version \in Nat),
         version \in Nat,
         \A n \in Name, d \in Definition : Uses(n, d)' => Uses(n, d),
         \A i \in Id : \/ row'[i] = row[i] \/ row'[i] = None
                       \/ \E n \in Name, d \in Definition : Uses(n, d) /\ d.id = i /\ row'[i].name = n,
         \A i, j \in Id : row'[i] # None /\ row'[j] # None /\ row'[i].name = row'[j].name => i = j
  PROVE  HeldInv'
<1>1. \A n \in Name, d \in Definition : Uses(n, d)' => d.id \in usedIds' /\ d.version <= version'
  BY DEF HeldInv, Definition, Version
<1>2. \A n, m \in Name, d, e \in Definition : Uses(n, d)' /\ Uses(m, e)' /\ d.id = e.id => n = m
  BY DEF HeldInv
<1>3. ASSUME NEW i \in Id, row'[i] # None
      PROVE  /\ i \in usedIds'
             /\ \A n \in Name, d \in Definition : Uses(n, d)' /\ d.id = i => row'[i].name = n
  <2>1. CASE row'[i] = row[i]
    BY <1>3, <2>1 DEF HeldInv
  <2>2. CASE \E n \in Name, d \in Definition : Uses(n, d) /\ d.id = i /\ row'[i].name = n
    BY <2>2 DEF HeldInv
  <2>. QED BY <1>3, <2>1, <2>2
<1>. QED BY <1>1, <1>2, <1>3 DEF HeldInv

(* What a write adds or takes away. *)
LEMMA PendingAdded ==
  ASSUME TypeOK, NEW jobs \in Seq(Job), StartWrites(jobs)
  PROVE  Pending' = Pending \union {jobs[j] : j \in DOMAIN jobs}
<1>1. writes \in Seq(Job) /\ writes' = writes \o jobs
  BY DEF TypeOK, StartWrites
<1>2. /\ writes \o jobs \in Seq(Job) /\ Len(writes \o jobs) = Len(writes) + Len(jobs)
      /\ \A j \in 1..(Len(writes) + Len(jobs)) :
           (writes \o jobs)[j] = IF j <= Len(writes) THEN writes[j] ELSE jobs[j - Len(writes)]
  BY <1>1, ConcatProperties
<1>3. \A j \in DOMAIN writes : j \in DOMAIN (writes \o jobs) /\ (writes \o jobs)[j] = writes[j]
  BY <1>1, <1>2
<1>4. ASSUME NEW j \in DOMAIN jobs
      PROVE  j + Len(writes) \in DOMAIN (writes \o jobs) /\ (writes \o jobs)[j + Len(writes)] = jobs[j]
  <2>1. j + Len(writes) \in 1..(Len(writes) + Len(jobs)) /\ ~(j + Len(writes) <= Len(writes))
        /\ (j + Len(writes)) - Len(writes) = j
    BY <1>1
  <2>2. (writes \o jobs)[j + Len(writes)] = jobs[(j + Len(writes)) - Len(writes)]
    BY <1>2, <2>1
  <2>. QED BY <1>2, <2>1, <2>2
<1>5. ASSUME NEW j \in DOMAIN (writes \o jobs)
      PROVE  \/ \E k \in DOMAIN writes : (writes \o jobs)[j] = writes[k]
             \/ \E k \in DOMAIN jobs : (writes \o jobs)[j] = jobs[k]
  <2>1. j \in 1..(Len(writes) + Len(jobs))
    BY <1>2
  <2>2. CASE j <= Len(writes)
    BY <1>1, <1>2, <2>1, <2>2
  <2>3. CASE ~(j <= Len(writes))
    <3>1. j - Len(writes) \in DOMAIN jobs
      BY <1>1, <2>1, <2>3
    <3>. QED BY <1>2, <2>1, <2>3, <3>1
  <2>. QED BY <2>2, <2>3
<1>6. Pending' \subseteq Pending \union {jobs[j] : j \in DOMAIN jobs}
  BY <1>1, <1>5 DEF Pending
<1>7. Pending \subseteq Pending'
  BY <1>1, <1>3 DEF Pending
<1>8. {jobs[j] : j \in DOMAIN jobs} \subseteq Pending'
  BY <1>1, <1>4 DEF Pending
<1>. QED BY <1>6, <1>7, <1>8

LEMMA PendingOne ==
  ASSUME TypeOK, NEW job \in Job, StartWrites(<<job>>)
  PROVE  Pending' = Pending \union {job}
<1>1. <<job>> \in Seq(Job) /\ {<<job>>[j] : j \in DOMAIN <<job>>} = {job}
  OBVIOUS
<1>. QED BY <1>1, PendingAdded

LEMMA PendingTaken ==
  ASSUME TypeOK, NEW i \in DOMAIN writes, writes' = RemoveAt(writes, i)
  PROVE  Pending' \subseteq Pending /\ writes[i] \in Pending
<1>1. \A j \in DOMAIN writes' : \E k \in DOMAIN writes : writes'[j] = writes[k]
  BY RemovedFromWrites
<1>. QED BY <1>1 DEF Pending

(* What is in use, or new. *)
InUse(n, d, new) == Uses(n, d) \/ <<n, d>> \in new

TasksInUse(tasks, new) ==
  \A n \in Name : tasks[n] # None => InUse(n, Defined(tasks[n]), new)

JobInUse(job, new) ==
  /\ TasksInUse(job.content, new)
  /\ job.then.do = "upsert" => InUse(job.then.name, Defined(job.then.task), new)

(* A step brings nothing but what is new into use. *)
Adds(new) ==
  /\ TasksInUse(config', new) /\ TasksInUse(base', new) /\ TasksInUse(disk', new)
  /\ \A job \in Pending' : JobInUse(job, new)
  /\ \A n \in Name : sched'[n] # None => InUse(n, Defined(sched'[n].task), new)
  /\ \A r \in Run : run'[r].pc # "free" => InUse(run'[r].name, Defined(run'[r].task), new)

(* It writes rows for what is in use, under names that are not taken. *)
RowsFit ==
  /\ \A i \in Id :
       \/ row'[i] = row[i] \/ row'[i] = None
       \/ \E n \in Name, d \in Definition : Uses(n, d) /\ d.id = i /\ row'[i].name = n
  /\ \A i, j \in Id : row'[i] # None /\ row'[j] # None /\ row'[i].name = row'[j].name => i = j

LEMMA UsedNow ==
  ASSUME NEW new
  PROVE  /\ TasksInUse(config, new) /\ TasksInUse(base, new) /\ TasksInUse(disk, new)
         /\ \A job \in Pending : JobInUse(job, new)
         /\ \A n \in Name : sched[n] # None => InUse(n, Defined(sched[n].task), new)
         /\ \A r \in Run : run[r].pc # "free" => InUse(run[r].name, Defined(run[r].task), new)
<1>1. \A tasks \in Books : TasksInUse(tasks, new)
  BY DEF TasksInUse, InUse, Uses
<1>2. config \in Books /\ base \in Books /\ disk \in Books /\ \A job \in Pending : job.content \in Books
  BY DEF Books
<1>3. ASSUME NEW job \in Pending, job.then.do = "upsert"
      PROVE  InUse(job.then.name, Defined(job.then.task), new)
  BY <1>3 DEF InUse, Uses
<1>4. \A n \in Name : sched[n] # None => InUse(n, Defined(sched[n].task), new)
  BY DEF InUse, Uses
<1>5. \A r \in Run : run[r].pc # "free" => InUse(run[r].name, Defined(run[r].task), new)
  BY DEF InUse, Uses
<1>. QED BY <1>1, <1>2, <1>3, <1>4, <1>5 DEF JobInUse

LEMMA UsedNext ==
  ASSUME NEW new, Adds(new)
  PROVE  \A n \in Name, d \in Definition : Uses(n, d)' => InUse(n, d, new)
<1>. SUFFICES ASSUME NEW n \in Name, NEW d \in Definition, Uses(n, d)'
              PROVE  InUse(n, d, new)
  OBVIOUS
<1>1. CASE \E tasks \in Books' : tasks[n] # None /\ Defined(tasks[n]) = d
  <2>1. PICK tasks \in Books' : tasks[n] # None /\ Defined(tasks[n]) = d
    BY <1>1
  <2>2. TasksInUse(tasks, new)
    BY <2>1 DEF Adds, Books, JobInUse
  <2>. QED BY <2>1, <2>2 DEF TasksInUse
<1>2. CASE \E job \in Pending' : job.then.do = "upsert" /\ job.then.name = n /\ Defined(job.then.task) = d
  BY <1>2 DEF Adds, JobInUse
<1>3. CASE sched'[n] # None /\ Defined(sched'[n].task) = d
  BY <1>3 DEF Adds
<1>4. CASE \E r \in Run : run'[r].pc # "free" /\ run'[r].name = n /\ Defined(run'[r].task) = d
  BY <1>4 DEF Adds
<1>. QED BY <1>1, <1>2, <1>3, <1>4 DEF Uses

LEMMA HeldKept ==
  ASSUME TypeInv, HeldInv, UNCHANGED usedIds, version' \in {version, version + 1}, Adds({}), RowsFit
  PROVE  HeldInv'
<1>1. \A n \in Name, d \in Definition : Uses(n, d)' => Uses(n, d)
  <2>1. \A n \in Name, d \in Definition : Uses(n, d)' => InUse(n, d, {})
    BY UsedNext
  <2>2. \A n, d : InUse(n, d, {}) => Uses(n, d)
    BY DEF InUse
  <2>. QED BY <2>1, <2>2
<1>2. version \in Nat
  BY DEF TypeInv, TypeOK
<1>. QED BY <1>1, <1>2, NothingNew DEF RowsFit

LEMMA RowsSame ==
  ASSUME HeldInv, UNCHANGED row
  PROVE  RowsFit
BY DEF HeldInv, RowsFit

LEMMA RowsUpserted ==
  ASSUME TypeInv, HeldInv, NEW n \in Name, NEW task \in Task, Uses(n, Defined(task)), Upsert(n, task)
  PROVE  RowsFit
BY NamesStay, DefinedType DEF RowsFit

LEMMA RowsDeleted ==
  ASSUME HeldInv, NEW n, DeleteRow(n)
  PROVE  RowsFit
<1>1. \A i \in Id : row'[i] = row[i] \/ row'[i] = None
  BY DEF DeleteRow
<1>. QED BY <1>1 DEF HeldInv, RowsFit

LEMMA RowsRestored ==
  ASSUME TypeInv, HeldInv, NEW names \in SUBSET Name,
         \A n \in names : disk[n] # None /\ ~NameTaken(n, disk[n]), Restore(names)
  PROVE  RowsFit
<1>1. ASSUME NEW n \in names
      PROVE  /\ disk[n] \in Task /\ Defined(disk[n]) \in Definition /\ Defined(disk[n]).id = disk[n].id
             /\ Uses(n, Defined(disk[n]))
  <2>1. disk[n] # None /\ disk[n] \in Task
    BY <1>1 DEF TypeInv, TypeOK, Tasks
  <2>. QED BY <2>1, DefinedType DEF Uses, Books
<1>2. \A i \in Id : row'[i] # row[i] => \E n \in names : disk[n].id = i /\ row'[i].name = n
  BY Restored
<1>3. ASSUME NEW i \in Id, NEW j \in Id, row'[i] # None, row'[j] # None, row'[i].name = row'[j].name
      PROVE  i = j
  <2>1. CASE row'[i] = row[i] /\ row'[j] = row[j]
    BY <1>3, <2>1 DEF HeldInv
  <2>2. ASSUME NEW k \in Id, NEW l \in Id, row'[k] # row[k], row'[l] # None, row'[k].name = row'[l].name
        PROVE  k = l
    <3>1. PICK n \in names : disk[n].id = k /\ row'[k].name = n
      BY <1>2, <2>2
    <3>2. CASE row'[l] = row[l]
      BY <2>2, <3>1, <3>2 DEF NameTaken
    <3>3. CASE row'[l] # row[l]
      BY <1>2, <2>2, <3>1, <3>3
    <3>. QED BY <3>2, <3>3
  <2>. QED BY <1>3, <2>1, <2>2
<1>. QED BY <1>1, <1>2, <1>3 DEF RowsFit

(* The parts of Adds, by what an action builds. *)
LEMMA UsedWithout ==
  ASSUME TypeInv, NEW n \in Name
  PROVE  TasksInUse(Without(n), {})
<1>1. TasksInUse(config, {})
  BY UsedNow
<1>2. \A m \in Name : Without(n)[m] # None => Without(n)[m] = config[m]
  BY DEF Without, TypeInv, TypeOK, Tasks
<1>. QED BY <1>1, <1>2 DEF TasksInUse

LEMMA UsedConfig ==
  ASSUME NEW new, NEW tasks, SetConfig(tasks), TasksInUse(tasks, new)
  PROVE  TasksInUse(config', new) /\ TasksInUse(base', new) /\ TasksInUse(disk', new)
BY UsedNow DEF SetConfig

LEMMA UsedMore ==
  ASSUME NEW new, NEW job \in Job, TypeOK, StartWrites(<<job>>), JobInUse(job, new)
  PROVE  \A j \in Pending' : JobInUse(j, new)
BY PendingOne, UsedNow

LEMMA UsedByRuns ==
  ASSUME TypeInv, NEW r \in Run, NEW phase, ToPhase(r, phase), run[r].pc # "free"
  PROVE  \A s \in Run : run'[s].pc # "free" => InUse(run'[s].name, Defined(run'[s].task), {})
<1>1. \A s \in Run : run'[s].pc # "free" =>
        run[s].pc # "free" /\ run'[s].name = run[s].name /\ run'[s].task = run[s].task
  BY MovedTo
<1>. QED BY <1>1, UsedNow

LEMMA HeldReturn ==
  ASSUME TypeInv, HeldInv, NEW r \in Run, NEW jobs \in Seq(Job), run[r].pc # "free", Return(r, jobs), RowsFit,
         \A j \in DOMAIN jobs : JobInUse(jobs[j], {})
  PROVE  HeldInv'
<1> DEFINE n == run[r].name
           left == Write(Without(n), "delete", n, None)
<1>0. TypeOK /\ n \in Name /\ UNCHANGED <<usedIds, version>>
  BY DEF TypeInv, RunsHaveTasks, Return, drawnVars
<1>1. /\ TasksInUse(config', {}) /\ TasksInUse(base', {}) /\ TasksInUse(disk', {})
      /\ \A job \in Pending' : JobInUse(job, {})
  <2>1. CASE run[r].task.oneShot
    <3>1. SetConfig(Without(n)) /\ StartWrites(jobs \o <<left>>)
      BY <2>1 DEF Return, Leave
    <3>2. left \in Job /\ JobInUse(left, {})
      BY <1>0, WithoutType, WriteType, UsedWithout DEF JobInUse, Write
    <3>. HIDE DEF left, n
    <3>3. Pending' = Pending \union {(jobs \o <<left>>)[j] : j \in DOMAIN (jobs \o <<left>>)}
      <4>1. jobs \o <<left>> \in Seq(Job)
        BY <3>2
      <4>. QED BY <1>0, <3>1, <4>1, PendingAdded
    <3>4. \A j \in DOMAIN (jobs \o <<left>>) : JobInUse((jobs \o <<left>>)[j], {})
      <4>1. <<left>> \in Seq(Job) /\ Len(<<left>>) = 1 /\ <<left>>[1] = left
        BY <3>2
      <4>2. /\ jobs \o <<left>> \in Seq(Job) /\ Len(jobs \o <<left>>) = Len(jobs) + 1
            /\ \A j \in 1..(Len(jobs) + 1) : (jobs \o <<left>>)[j] = IF j <= Len(jobs) THEN jobs[j] ELSE left
        BY <3>2
      <4>. QED BY <3>2, <4>2
    <3>. QED BY <1>0, <3>1, <3>3, <3>4, UsedNow, UsedConfig, UsedWithout DEF n
  <2>2. CASE ~run[r].task.oneShot
    <3>1. StartWrites(jobs) /\ UNCHANGED <<config, base, disk>>
      BY <2>2 DEF Return, Leave
    <3>. QED BY <1>0, <3>1, PendingAdded, UsedNow
  <2>. QED BY <2>1, <2>2
<1>2. \A m \in Name : sched'[m] # None => InUse(m, Defined(sched'[m].task), {})
  <2>1. \A m \in Name : sched'[m] # None => sched'[m] = sched[m]
    BY <1>0 DEF Return, TypeOK
  <2>. QED BY <2>1, UsedNow
<1>3. \A s \in Run : run'[s].pc # "free" => InUse(run'[s].name, Defined(run'[s].task), {})
  BY UsedByRuns DEF Return
<1>. QED BY <1>0, <1>1, <1>2, <1>3, HeldKept DEF Adds

(* A definition with a new version, for an id that is new or has the name. *)
LEMMA HeldDefine ==
  ASSUME TypeInv, HeldInv, NEW n \in Name, NEW task \in Task, Define(n, task),
         task.version = version + 1, usedIds' \subseteq Id, usedIds \subseteq usedIds', task.id \in usedIds',
         \/ task.id \notin usedIds
         \/ \E d \in Definition : Uses(n, d) /\ d.id = task.id
  PROVE  HeldInv'
<1> DEFINE d0 == Defined(task)
           new == {<<n, d0>>}
           tasks == [config EXCEPT ![n] = task]
           job == Write(tasks, "upsert", n, task)
<1>0. /\ TypeOK /\ config \in [Name -> Task \union {None}] /\ version \in Nat
      /\ sched \in [Name -> Registered \union {None}]
      /\ d0 \in Definition /\ d0.id = task.id /\ d0.version = version + 1
  BY DefinedType DEF TypeInv, TypeOK, Tasks
<1>1. \A m \in Name, d \in Definition : Uses(m, d)' => Uses(m, d) \/ (m = n /\ d = d0)
  <2>1. InUse(n, d0, new)
    BY DEF InUse
  <2>2. TasksInUse(tasks, new)
    <3>1. \A m \in Name : tasks[m] = IF m = n THEN task ELSE config[m]
      BY <1>0
    <3>2. TasksInUse(config, new)
      BY UsedNow
    <3>. HIDE DEF new, tasks
    <3>. QED BY <2>1, <3>1, <3>2 DEF TasksInUse
  <2>3. tasks \in Tasks /\ job \in Job /\ JobInUse(job, new)
    <3>1. tasks \in Tasks
      BY <1>0 DEF Tasks
    <3>2. job \in Job
      BY <3>1, WriteType
    <3>3. job.content = tasks /\ job.then.name = n /\ job.then.task = task
      BY DEF Write
    <3>. HIDE DEF new, tasks, job
    <3>. QED BY <2>1, <2>2, <3>1, <3>2, <3>3 DEF JobInUse
  <2>4. SetConfig(tasks) /\ StartWrites(<<job>>)
    BY DEF Define
  <2>5. \A m \in Name : sched'[m] # None => InUse(m, Defined(sched'[m].task), new)
    <3>1. \A m \in Name : sched'[m] = IF m = n THEN Registration(task) ELSE sched[m]
      BY <1>0 DEF Define
    <3>2. Registration(task).task = task
      BY DEF Registration
    <3>3. \A m \in Name : sched[m] # None => InUse(m, Defined(sched[m].task), new)
      BY UsedNow
    <3>. HIDE DEF new
    <3>. QED BY <2>1, <3>1, <3>2, <3>3
  <2>6. \A r \in Run : run'[r].pc # "free" => InUse(run'[r].name, Defined(run'[r].task), new)
    BY UsedNow DEF Define
  <2>7. \A m \in Name, d \in Definition : Uses(m, d)' => InUse(m, d, new)
    <3>. HIDE DEF new, tasks, job
    <3>1. TasksInUse(config', new) /\ TasksInUse(base', new) /\ TasksInUse(disk', new)
      BY <2>2, <2>4, UsedConfig
    <3>2. \A j \in Pending' : JobInUse(j, new)
      BY <1>0, <2>3, <2>4, UsedMore
    <3>. QED BY <2>5, <2>6, <3>1, <3>2, UsedNext DEF Adds
  <2>. QED BY <2>7 DEF InUse
<1>. HIDE DEF d0
<1>2. version' = version + 1
  BY <1>0 DEF Define
<1>3. \A m \in Name, d \in Definition : Uses(m, d) /\ d.id = task.id => m = n
  BY DEF HeldInv
<1>4. Upsert(n, task)
  BY DEF Define
<1>5. \A i \in Id : row'[i] = row[i] \/ (i = task.id /\ row'[i] # None /\ row'[i].name = n)
  BY <1>4, NamesStay
<1>6. \A m \in Name, d \in Definition : Uses(m, d)' => d.id \in usedIds' /\ d.version <= version'
  BY <1>0, <1>1, <1>2 DEF HeldInv, Definition, Version
<1>7. \A m, k \in Name, d, e \in Definition : Uses(m, d)' /\ Uses(k, e)' /\ d.id = e.id => m = k
  BY <1>0, <1>1, <1>3 DEF HeldInv
<1>8. ASSUME NEW i \in Id, row'[i] # None
      PROVE  /\ i \in usedIds'
             /\ \A m \in Name, d \in Definition : Uses(m, d)' /\ d.id = i => row'[i].name = m
  <2>1. CASE i = task.id
    <3>1. row'[i].name = n
      <4>1. CASE row'[i] = row[i]
        BY <1>8, <2>1, <4>1 DEF HeldInv
      <4>. QED BY <1>5, <4>1
    <3>. QED BY <1>0, <1>1, <1>3, <2>1, <3>1
  <2>2. CASE i # task.id
    BY <1>0, <1>1, <1>5, <1>8, <2>2 DEF HeldInv
  <2>. QED BY <2>1, <2>2
<1>9. \A i, j \in Id : row'[i] # None /\ row'[j] # None /\ row'[i].name = row'[j].name => i = j
  BY <1>4, NamesStay
<1>. QED BY <1>6, <1>7, <1>8, <1>9 DEF HeldInv

LEMMA HeldRunStep ==
  ASSUME TypeInv, HeldInv, NEW r \in Run, RunStep(r)
  PROVE  HeldInv'
<1>0. /\ TypeOK /\ run[r].pc # "free" /\ run[r].task \in Task /\ run[r].name \in Name
      /\ config \in [Name -> Task \union {None}] /\ run \in [Run -> Execution]
  BY DEF RunStep, PreparationFails, StartAttempt, EndAttempt, ArchivingFails, Retry, Notify, EndDelivery,
         SaveResult, TypeInv, TypeOK, Tasks, RunsHaveTasks
<1>1. ASSUME Return(r, <<>>), UNCHANGED row
      PROVE  HeldInv'
  <2>1. <<>> \in Seq(Job) /\ DOMAIN <<>> = {}
    OBVIOUS
  <2>. QED BY <1>0, <1>1, <2>1, RowsSame, HeldReturn
<1>2. ASSUME UNCHANGED <<config, base, disk, writes, sched, row, version, usedIds>>,
             \A s \in Run : run'[s].pc # "free" =>
               run[s].pc # "free" /\ run'[s].name = run[s].name /\ run'[s].task = run[s].task
      PROVE  HeldInv'
  <2>1. \A s \in Run : run'[s].pc # "free" => InUse(run'[s].name, Defined(run'[s].task), {})
    BY <1>2, UsedNow
  <2>2. UNCHANGED Pending
    BY <1>2 DEF Pending
  <2>3. Adds({})
    BY <1>2, <2>1, <2>2, UsedNow DEF Adds
  <2>. QED BY <1>2, <2>3, RowsSame, HeldKept
<1>3. ASSUME NEW phase, ToPhase(r, phase), UNCHANGED <<config, base, disk, writes, sched, row, version, usedIds>>
      PROVE  HeldInv'
  BY <1>0, <1>2, <1>3, MovedTo
<1>4. CASE PreparationFails(r) \/ StartAttempt(r)
  <2>1. \/ Return(r, <<>>)
        \/ ToPhase(r, "chatting") /\ UNCHANGED <<configVars, sched, drawnVars>>
    BY <1>4 DEF PreparationFails, StartAttempt
  <2>2. UNCHANGED row
    BY <1>4 DEF PreparationFails, StartAttempt
  <2>. QED BY <1>1, <1>3, <2>1, <2>2 DEF configVars, drawnVars
<1>5. ASSUME NEW status \in {"success", "error"}, EndAttempt(r, status)
      PROVE  HeldInv'
  <2>1. \E phase : ToPhase(r, phase)
    BY <1>5 DEF EndAttempt, Deliver
  <2>2. UNCHANGED <<config, base, disk, writes, sched, row, version, usedIds>>
    BY <1>5 DEF EndAttempt, configVars, drawnVars
  <2>. QED BY <1>3, <2>1, <2>2
<1>6. ASSUME NEW status \in {"success", "error"}, ArchivingFails(r, status)
      PROVE  HeldInv'
  BY <1>1, <1>6 DEF ArchivingFails
<1>7. CASE Retry(r)
  <2>1. \A s \in Run : run'[s].pc # "free" =>
          run[s].pc # "free" /\ run'[s].name = run[s].name /\ run'[s].task = run[s].task
    BY <1>0, <1>7 DEF Retry, Execution
  <2>2. UNCHANGED <<config, base, disk, writes, sched, row, version, usedIds>>
    BY <1>7 DEF Retry, configVars, storeVars, drawnVars
  <2>. QED BY <1>2, <2>1, <2>2
<1>8. CASE Notify(r) \/ \E sent \in BOOLEAN : EndDelivery(r, sent)
  <2>1. \E phase : ToPhase(r, phase)
    BY <1>8 DEF Notify, EndDelivery
  <2>2. UNCHANGED <<config, base, disk, writes, sched, row, version, usedIds>>
    BY <1>8 DEF Notify, EndDelivery, configVars, storeVars, drawnVars
  <2>. QED BY <1>3, <2>1, <2>2
<1>9. CASE SaveResult(r)
  <2> DEFINE n == run[r].name
             what == IF config[n] = None THEN "nothing" ELSE "upsert"
             job == Write(config, what, n, config[n])
  <2>1. Upsert(n, run[r].task) /\ Return(r, <<job>>)
    BY <1>9 DEF SaveResult
  <2>2. job \in Job
    <3>1. \/ what = "upsert" /\ config[n] \in Task
          \/ what \in {"nothing", "delete"} /\ config[n] = None
      BY <1>0
    <3>2. n \in Name /\ config \in Tasks
      BY <1>0 DEF Tasks
    <3>. HIDE DEF n, what
    <3>. QED BY <3>1, <3>2, WriteType
  <2>3. JobInUse(job, {})
    <3>1. TasksInUse(config, {})
      BY UsedNow
    <3>2. config[n] # None => InUse(n, Defined(config[n]), {})
      BY <1>0, <3>1 DEF TasksInUse
    <3>3. /\ job.content = config /\ job.then.name = n /\ job.then.task = config[n]
          /\ job.then.do = "upsert" => config[n] # None
      BY DEF Write
    <3>. HIDE DEF n, job
    <3>. QED BY <3>1, <3>2, <3>3 DEF JobInUse
  <2>4. Uses(n, Defined(run[r].task))
    BY <1>0 DEF Uses
  <2>. HIDE DEF job, what
  <2>5. RowsFit
    BY <1>0, <2>1, <2>4, RowsUpserted
  <2>6. <<job>> \in Seq(Job) /\ \A j \in DOMAIN <<job>> : <<job>>[j] = job
    BY <2>2
  <2>. QED BY <1>0, <2>1, <2>3, <2>5, <2>6, HeldReturn
<1>. QED BY <1>4, <1>5, <1>6, <1>7, <1>8, <1>9 DEF RunStep

LEMMA HeldProcedures ==
  ASSUME TypeInv, HeldInv, NEW n \in Name,
         \/ \E id \in Id, f \in Flavour : CronAdd(n, id, f)
         \/ \E f \in Flavour, s \in Switch : CronUpdate(n, f, s)
         \/ CronPause(n, TRUE) \/ CronPause(n, FALSE) \/ CronRemove(n)
  PROVE  HeldInv'
<1>0. /\ TypeOK /\ config \in [Name -> Task \union {None}] /\ config \in Tasks
      /\ sched \in [Name -> Registered \union {None}] /\ usedIds \subseteq Id
  BY DEF TypeInv, TypeOK, Tasks
<1>1. ASSUME NEW id \in Id, NEW f \in Flavour, CronAdd(n, id, f)
      PROVE  HeldInv'
  <2>1. PICK task \in Task : task.id = id /\ task.version = version + 1 /\ Define(n, task)
    BY <1>0, <1>1, AddedType
  <2>2. id \notin usedIds /\ usedIds' = usedIds \union {id}
    BY <1>0, <1>1, AddedType
  <2>. QED BY <1>0, <2>1, <2>2, HeldDefine
<1>2. ASSUME NEW f \in Flavour, NEW s \in Switch, CronUpdate(n, f, s)
      PROVE  HeldInv'
  <2>1. PICK task \in Task : task.id = config[n].id /\ task.version = version + 1 /\ Define(n, task)
    BY <1>0, <1>2, UpdatedType
  <2>2. config[n] # None /\ UNCHANGED usedIds
    BY <1>0, <1>2, UpdatedType
  <2>3. Uses(n, Defined(config[n])) /\ Defined(config[n]) \in Definition /\ Defined(config[n]).id = config[n].id
    BY <1>0, <2>2, DefinedType DEF Uses, Books
  <2>4. config[n].id \in usedIds
    BY <2>3 DEF HeldInv
  <2>. QED BY <1>0, <2>1, <2>2, <2>3, <2>4, HeldDefine
<1>3. ASSUME NEW tasks, NEW job \in Job, SetConfig(tasks), StartWrites(<<job>>), TasksInUse(tasks, {}), JobInUse(job, {}),
             UNCHANGED <<run, row, usedIds>>, Edit,
             \A m \in Name : sched'[m] # None => sched[m] # None /\ sched'[m].task = sched[m].task
      PROVE  HeldInv'
  <2>1. \A m \in Name : sched'[m] # None => InUse(m, Defined(sched'[m].task), {})
    BY <1>3, UsedNow
  <2>2. TasksInUse(config', {}) /\ TasksInUse(base', {}) /\ TasksInUse(disk', {})
    BY <1>3, UsedConfig
  <2>3. \A j \in Pending' : JobInUse(j, {})
    BY <1>0, <1>3, UsedMore
  <2>4. \A r \in Run : run'[r].pc # "free" => InUse(run'[r].name, Defined(run'[r].task), {})
    BY <1>3, UsedNow
  <2>5. RowsFit
    BY <1>3, RowsSame
  <2>. QED BY <1>3, <2>1, <2>2, <2>3, <2>4, <2>5, HeldKept DEF Adds, Edit
<1>4. ASSUME NEW paused \in BOOLEAN, CronPause(n, paused)
      PROVE  HeldInv'
  <2> DEFINE new == IF config[n] = None THEN config ELSE [config EXCEPT ![n].paused = paused]
             what == IF config[n] = None THEN "nothing" ELSE "upsert"
             job == Write(new, what, n, new[n])
  <2>1. /\ new \in Tasks
        /\ config[n] = None => new[n] = None
        /\ config[n] # None => new[n] \in Task
    BY <1>0, PausedType
  <2>2. \A m \in Name : new[m] # None => config[m] # None /\ Defined(new[m]) = Defined(config[m])
    <3>1. CASE config[n] = None
      BY <3>1
    <3>2. CASE config[n] # None
      <4>1. /\ [config[n] EXCEPT !.paused = paused] \in Task
            /\ [config[n] EXCEPT !.paused = paused].id = config[n].id
            /\ [config[n] EXCEPT !.paused = paused].version = config[n].version
            /\ [config[n] EXCEPT !.paused = paused].oneShot = config[n].oneShot
        BY <1>0, <3>2 DEF Task
      <4>2. \A m \in Name : new[m] = IF m = n THEN [config[n] EXCEPT !.paused = paused] ELSE config[m]
        BY <1>0, <3>2
      <4>. QED BY <3>2, <4>1, <4>2, NoneAssumption DEF Defined
    <3>. QED BY <3>1, <3>2
  <2>3. job \in Job
    <3>1. \/ what = "upsert" /\ new[n] \in Task
          \/ what \in {"nothing", "delete"} /\ new[n] = None
      BY <2>1
    <3>. HIDE DEF new, what
    <3>. QED BY <2>1, <3>1, WriteType
  <2>4. job.content = new /\ job.then.name = n /\ job.then.task = new[n] /\ (job.then.do = "upsert" => config[n] # None)
    BY DEF Write
  <2>5. SetConfig(new) /\ StartWrites(<<job>>) /\ UNCHANGED <<run, row, usedIds>> /\ Edit
    BY <1>4 DEF CronPause, storeVars
  <2>6. \A m \in Name : sched'[m] # None => sched[m] # None /\ sched'[m].task = sched[m].task
    BY <1>0, <1>4 DEF CronPause, Registered
  <2>. HIDE DEF new, what, job
  <2>7. TasksInUse(new, {})
    <3>1. TasksInUse(config, {})
      BY UsedNow
    <3>. QED BY <2>2, <3>1 DEF TasksInUse
  <2>8. JobInUse(job, {})
    <3>1. new[n] # None => InUse(n, Defined(new[n]), {})
      BY <2>7 DEF TasksInUse
    <3>2. config[n] # None => new[n] # None
      BY <2>1, NoneAssumption
    <3>. QED BY <2>4, <2>7, <3>1, <3>2 DEF JobInUse
  <2>. QED BY <1>3, <2>3, <2>5, <2>6, <2>7, <2>8
<1>5. ASSUME CronRemove(n)
      PROVE  HeldInv'
  <2> DEFINE job == Write(Without(n), "delete", n, None)
  <2>1. job \in Job /\ TasksInUse(Without(n), {}) /\ JobInUse(job, {})
    BY <1>0, WithoutType, WriteType, UsedWithout DEF JobInUse, Write
  <2>2. SetConfig(Without(n)) /\ StartWrites(<<job>>) /\ UNCHANGED <<run, row, usedIds>> /\ Edit
    BY <1>5 DEF CronRemove, storeVars
  <2>3. \A m \in Name : sched'[m] # None => sched[m] # None /\ sched'[m].task = sched[m].task
    BY <1>0, <1>5 DEF CronRemove
  <2>. HIDE DEF job
  <2>. QED BY <1>3, <2>1, <2>2, <2>3
<1>. QED BY <1>1, <1>2, <1>4, <1>5

LEMMA HeldStep ==
  ASSUME TypeInv, HeldInv, [Next]_vars
  PROVE  HeldInv'
<1>0. /\ TypeOK /\ version \in Nat /\ run \in [Run -> Execution]
      /\ sched \in [Name -> Registered \union {None}] /\ disk \in [Name -> Task \union {None}]
      /\ config \in Tasks /\ base \in Tasks
  BY DEF TypeInv, TypeOK, Tasks
<1>1. ASSUME NEW tasks \in Tasks, TasksInUse(tasks, {}), config' = tasks,
             StartWrites(<<[content |-> tasks, then |-> NoThen]>>), Edit,
             UNCHANGED <<base, disk, sched, run, row, usedIds>>
      PROVE  HeldInv'
  <2> DEFINE job == [content |-> tasks, then |-> NoThen]
  <2>1. job \in Job /\ JobInUse(job, {})
    BY <1>1 DEF Job, Then, NoThen, JobInUse
  <2>2. StartWrites(<<job>>)
    BY <1>1
  <2>. HIDE DEF job
  <2>3. \A j \in Pending' : JobInUse(j, {})
    BY <1>0, <2>1, <2>2, UsedMore
  <2>4. Adds({})
    BY <1>1, <2>3, UsedNow DEF Adds
  <2>. QED BY <1>1, <2>4, RowsSame, HeldKept DEF Edit
<1>2. CASE SaveSettings(TRUE) \/ SaveSettings(FALSE) \/ SaveModels
  BY <1>0, <1>1, <1>2, UsedNow DEF SaveSettings, SaveModels, storeVars
<1>3. ASSUME NEW i \in DOMAIN writes, WriteEnds(i) \/ WriteFails(i)
      PROVE  HeldInv'
  <2>1. writes' = RemoveAt(writes, i) /\ UNCHANGED <<config, base, sched, run, version, usedIds>>
    BY <1>3 DEF WriteEnds, WriteFails, drawnVars
  <2>2. Pending' \subseteq Pending /\ writes[i] \in Pending /\ writes[i] \in Job
    BY <1>0, <2>1, PendingTaken, RemoveAtType
  <2>3. TasksInUse(disk', {})
    BY <1>3, <2>2, UsedNow DEF WriteEnds, WriteFails, JobInUse
  <2>4. Adds({})
    BY <2>1, <2>2, <2>3, UsedNow DEF Adds
  <2>5. RowsFit
    <3>1. CASE UNCHANGED row
      BY <3>1, RowsSame
    <3>2. CASE writes[i].then.do = "upsert" /\ Upsert(writes[i].then.name, writes[i].then.task)
      <4>1. writes[i].then.name \in Name /\ writes[i].then.task \in Task
        BY <2>2, <3>2 DEF Job, Then
      <4>2. Uses(writes[i].then.name, Defined(writes[i].then.task))
        BY <2>2, <3>2 DEF Uses
      <4>. QED BY <3>2, <4>1, <4>2, RowsUpserted
    <3>3. CASE DeleteRow(writes[i].then.name)
      BY <3>3, RowsDeleted
    <3>4. WriteFails(i) => UNCHANGED row
      BY DEF WriteFails, storeVars
    <3>5. WriteEnds(i) => \/ UNCHANGED row \/ DeleteRow(writes[i].then.name)
                          \/ writes[i].then.do = "upsert" /\ Upsert(writes[i].then.name, writes[i].then.task)
      BY <2>2 DEF WriteEnds, Job, Then
    <3>. QED BY <1>3, <3>1, <3>2, <3>3, <3>4, <3>5
  <2>. QED BY <2>1, <2>4, <2>5, HeldKept
<1>4. ASSUME UNCHANGED <<config, base, disk, writes, run, row, version, usedIds>>,
             \A n \in Name : sched'[n] # None => sched[n] # None /\ sched'[n].task = sched[n].task
      PROVE  HeldInv'
  <2>1. UNCHANGED Pending
    BY <1>4 DEF Pending
  <2>2. Adds({})
    BY <1>4, <2>1, UsedNow DEF Adds
  <2>. QED BY <1>4, <2>2, RowsSame, HeldKept
<1>5. ASSUME NEW k \in Tick, TickStarts(k) \/ TickEnds(k)
      PROVE  HeldInv'
  <2>1. \A n \in Name : sched'[n] # None => sched[n] # None /\ sched'[n].task = sched[n].task
    BY <1>5 DEF TickStarts, TickEnds
  <2>2. UNCHANGED <<config, base, disk, writes, run, row, version, usedIds>>
    BY <1>5 DEF TickStarts, TickEnds, configVars, storeVars, drawnVars
  <2>. QED BY <1>4, <2>1, <2>2
<1>6. ASSUME NEW n \in Name, NEW r \in Run, CronRun(n, r) \/ \E k \in Tick : TickRuns(k, n, r)
      PROVE  HeldInv'
  <2>1. PICK by : Begin(r, n, by)
    BY <1>6 DEF CronRun, TickRuns
  <2>2. sched[n] # None /\ UNCHANGED <<config, base, disk, writes, row, version, usedIds>>
    BY <1>6 DEF CronRun, TickRuns, configVars, storeVars, drawnVars
  <2>3. \A m \in Name : sched'[m] # None => sched[m] # None /\ sched'[m].task = sched[m].task
    BY <1>0, <2>1, <2>2 DEF Begin, Registered
  <2>4. /\ run'[r].name = n /\ run'[r].task = sched[n].task
        /\ \A s \in Run \ {r} : run'[s] = run[s]
    BY <1>0, <2>1 DEF Begin
  <2>5. UNCHANGED Pending
    BY <2>2 DEF Pending
  <2>6. \A s \in Run : run'[s].pc # "free" => InUse(run'[s].name, Defined(run'[s].task), {})
    BY <2>2, <2>4, UsedNow
  <2>7. \A m \in Name : sched'[m] # None => InUse(m, Defined(sched'[m].task), {})
    BY <2>3, UsedNow
  <2>8. Adds({})
    BY <2>2, <2>5, <2>6, <2>7, UsedNow DEF Adds
  <2>. QED BY <2>2, <2>8, RowsSame, HeldKept
<1>7. CASE Crash
  <2>1. /\ config' = [n \in Name |-> None] /\ base' = [n \in Name |-> None] /\ sched' = [n \in Name |-> None]
        /\ writes' = <<>> /\ UNCHANGED <<disk, row, version, usedIds>>
    BY <1>7 DEF Crash, storeVars, drawnVars
  <2>2. \A s \in Run : run'[s].pc # "free" =>
          run[s].pc # "free" /\ run'[s].name = run[s].name /\ run'[s].task = run[s].task
    <3>1. run' = [r \in Run |-> IF Alive(r) THEN [run[r] EXCEPT !.pc = "done"] ELSE run[r]]
      BY <1>7, Zenon DEF Crash
    <3>. QED BY <1>0, <3>1 DEF Execution, Alive
  <2>3. Pending' = {}
    BY <2>1 DEF Pending
  <2>4. TasksInUse(config', {}) /\ TasksInUse(base', {})
    BY <2>1 DEF TasksInUse
  <2>5. \A s \in Run : run'[s].pc # "free" => InUse(run'[s].name, Defined(run'[s].task), {})
    BY <2>2, UsedNow
  <2>6. Adds({})
    BY <2>1, <2>3, <2>4, <2>5, UsedNow DEF Adds
  <2>. QED BY <2>1, <2>6, RowsSame, HeldKept
<1>8. CASE Restart
  <2>1. /\ config' = disk /\ base' = disk
        /\ UNCHANGED <<disk, writes, run, version, usedIds>>
        /\ \A n \in Name : sched'[n] # None => disk[n] # None /\ sched'[n].task = disk[n]
        /\ ~Blocked /\ Restore({n \in Name : disk[n] # None})
    BY <1>8 DEF Restart, drawnVars, Registration
  <2>2. TasksInUse(disk, {}) /\ UNCHANGED Pending
    BY <2>1, UsedNow DEF Pending
  <2>3. \A n \in Name : sched'[n] # None => InUse(n, Defined(sched'[n].task), {})
    BY <2>1, <2>2 DEF TasksInUse
  <2>4. Adds({})
    BY <2>1, <2>2, <2>3, UsedNow DEF Adds
  <2>5. RowsFit
    BY <2>1, RowsRestored DEF Blocked
  <2>. QED BY <2>1, <2>4, <2>5, HeldKept
<1>9. CASE StartFails
  <2>1. /\ UNCHANGED <<config, base, disk, writes, sched, run, version, usedIds>>
        /\ \E names \in SUBSET {n \in Name : disk[n] # None /\ ~NameTaken(n, disk[n])} : Restore(names)
    BY <1>9 DEF StartFails, configVars, drawnVars
  <2>2. UNCHANGED Pending
    BY <2>1 DEF Pending
  <2>3. Adds({})
    BY <2>1, <2>2, UsedNow DEF Adds
  <2>4. RowsFit
    BY <2>1, RowsRestored
  <2>. QED BY <2>1, <2>3, <2>4, HeldKept
<1>10. CASE UNCHANGED vars
  BY <1>4, <1>10 DEF vars, configVars, storeVars, drawnVars
<1>. QED BY <1>2, <1>3, <1>5, <1>6, <1>7, <1>8, <1>9, <1>10, HeldProcedures, HeldRunStep DEF Next

LEMMA HeldInvariant == Spec => []HeldInv
<1>1. Init => HeldInv
  <2>. SUFFICES ASSUME Init PROVE HeldInv
    OBVIOUS
  <2>1. \A n \in Name, d \in Definition : ~Uses(n, d)
    BY DEF Init, Uses, Books, Pending, NoRun
  <2>. QED BY <2>1 DEF Init, HeldInv
<1>. QED BY <1>1, HeldStep, TypeInvariant, PTL DEF Spec

-----------------------------------------------------------------------------
(* The book of tasks                                                       *)
-----------------------------------------------------------------------------
DownInv == ~up => \A n \in Name : sched[n] = None

LEMMA DownStep ==
  ASSUME DownInv, [Next]_vars
  PROVE  DownInv'
<1>1. CASE Crash \/ Restart
  BY <1>1 DEF DownInv, Crash, Restart
<1>2. CASE StartFails \/ UNCHANGED vars
  BY <1>2 DEF DownInv, StartFails, vars
<1>3. ASSUME NEW n \in Name,
             \/ \E id \in Id, f \in Flavour : CronAdd(n, id, f)
             \/ \E f \in Flavour, s \in Switch : CronUpdate(n, f, s)
             \/ CronPause(n, TRUE) \/ CronPause(n, FALSE) \/ CronRemove(n)
             \/ \E r \in Run : CronRun(n, r)
             \/ \E k \in Tick, r \in Run : TickRuns(k, n, r)
      PROVE  up'
  <2>1. up
    BY <1>3, Zenon DEF CronAdd, CronUpdate, CronPause, CronRemove, CronRun, TickRuns, Idle
  <2>2. UNCHANGED up
    BY <1>3, Zenon DEF CronAdd, CronUpdate, Define, CronPause, CronRemove, CronRun, TickRuns
  <2>. QED BY <2>1, <2>2
<1>4. ASSUME \/ SaveSettings(TRUE) \/ SaveSettings(FALSE) \/ SaveModels
             \/ \E i \in DOMAIN writes : WriteEnds(i) \/ WriteFails(i)
             \/ \E k \in Tick : TickStarts(k) \/ TickEnds(k)
      PROVE  up'
  <2>1. up
    BY <1>4, Zenon DEF SaveSettings, SaveModels, WriteEnds, WriteFails, TickStarts, TickEnds, Idle
  <2>2. UNCHANGED up
    BY <1>4, Zenon DEF SaveSettings, SaveModels, WriteEnds, WriteFails, TickStarts, TickEnds
  <2>. QED BY <2>1, <2>2
<1>5. ASSUME NEW r \in Run, RunStep(r)
      PROVE  up'
  BY <1>5 DEF RunStep, PreparationFails, StartAttempt, EndAttempt, ArchivingFails, Retry, Notify, EndDelivery,
              SaveResult, Return, Idle
<1>. QED BY <1>1, <1>2, <1>3, <1>4, <1>5 DEF Next, DownInv

BookInv == TypeInv /\ SavedInv /\ RecordInv /\ HeldInv /\ DownInv

LEMMA BookInvariant == Spec => []BookInv
<1>1. Init => SavedInv /\ DownInv
  BY DEF Init, SavedInv, ConfigurationIsSaved, DownInv
<1>. QED BY <1>1, SavedStep, DownStep, TypeInvariant, RecordInvariant, HeldInvariant, PTL DEF Spec, BookInv

(* Pages *)
LEMMA PageAt ==
  ASSUME NEW tasks \in Tasks
  PROVE  /\ Page(tasks) \in [Name -> Definition \union {None}]
         /\ \A n \in Name : /\ Page(tasks)[n] = Defined(tasks[n])
                            /\ Page(tasks)[n] = None <=> tasks[n] = None
<1>1. \A n \in Name : tasks[n] = None \/ tasks[n] \in Task
  BY DEF Tasks
<1>. QED BY <1>1, DefinedType DEF Page, Defined

LEMMA PageExcept ==
  ASSUME NEW tasks \in Tasks, NEW n \in Name, NEW task
  PROVE  Page([tasks EXCEPT ![n] = task]) = [Page(tasks) EXCEPT ![n] = Defined(task)]
BY DEF Page, Tasks

LEMMA PageWithout ==
  ASSUME TypeOK, NEW n \in Name
  PROVE  Page(Without(n)) = [Page(config) EXCEPT ![n] = None]
<1>1. config \in Tasks
  BY DEF TypeOK
<1>. QED BY <1>1, PageExcept DEF Without, Defined

LEMMA ScheduleAt ==
  ASSUME TypeOK
  PROVE  /\ Schedule \in [Name -> Definition \union {None}]
         /\ \A n \in Name : /\ sched[n] = None => Schedule[n] = None
                            /\ sched[n] # None => Schedule[n] = Defined(sched[n].task) /\ Schedule[n] # None
<1>1. \A n \in Name : sched[n] # None => sched[n].task \in Task
  BY DEF TypeOK, Registered
<1>. QED BY <1>1, DefinedType DEF Schedule

LEMMA ScheduleDrops ==
  ASSUME TypeOK, NEW names \in SUBSET Name,
         sched' = [n \in Name |-> IF n \in names THEN None ELSE sched[n]]
  PROVE  Schedule' = [n \in Name |-> IF n \in names THEN None ELSE Schedule[n]]
BY DEF Schedule

(* What a step that writes the configuration leaves as drafts. *)
LEMMA DraftsGrow ==
  ASSUME up, up', base' \in {base, config'},
         \A job \in Pending' : job \in Pending \/ job.content \in {config, config'}
  PROVE  Drafts' \subseteq Drafts \union {TheBook'} /\ TheBook' = Page(config') /\ TheBook = Page(config)
<1>1. Drafts = {Page(config), Page(base)} \union {Page(job.content) : job \in Pending}
  BY DEF Drafts
<1>2. Drafts' = {Page(config'), Page(base')} \union {Page(job.content) : job \in Pending'}
  BY DEF Drafts
<1>3. TheBook' = Page(config') /\ TheBook = Page(config)
  BY DEF TheBook, Current
<1>4. \A job \in Pending' : Page(job.content) \in Drafts \union {TheBook'}
  BY <1>1, <1>3
<1>. QED BY <1>1, <1>2, <1>3, <1>4

(* Executions *)
LEMMA SameStarts ==
  ASSUME UNCHANGED run
  PROVE  UNCHANGED <<UnderWay, StartedAs>>
BY DEF UnderWay, StartedAs, Started, Alive

LEMMA MovedStart ==
  ASSUME TypeInv, NEW r \in Run, NEW phase \in RunPhases \ {"free"}, ToPhase(r, phase), Alive(r)
  PROVE  /\ UNCHANGED StartedAs /\ r \in UnderWay
         /\ UnderWay' = IF phase = "done" THEN UnderWay \ {r} ELSE UnderWay
<1>1. \A s \in Run : /\ run'[s].name = run[s].name /\ run'[s].task = run[s].task
                     /\ run'[s].pc = IF s = r THEN phase ELSE run[s].pc
  BY MovedTo
<1>2. \A s \in Run : Started(s)' = Started(s)
  BY <1>1 DEF Started, Alive
<1>. QED BY <1>1, <1>2 DEF UnderWay, StartedAs, Alive

LEMMA StartedOf ==
  ASSUME TypeInv, NEW r \in Run, run[r].pc # "free"
  PROVE  /\ StartedAs[r] # None /\ StartedAs[r].name = run[r].name
         /\ StartedAs[r].definition = Defined(run[r].task)
<1>1. run[r].name \in Name /\ Defined(run[r].task) \in Definition
  BY DefinedType DEF TypeInv, RunsHaveTasks
<1>2. StartedAs[r] = [name |-> run[r].name, definition |-> Defined(run[r].task)]
  BY DEF StartedAs, Started
<1>3. [name |-> run[r].name, definition |-> Defined(run[r].task)] \in [name: Name, definition: Definition]
  BY <1>1
<1>. QED BY <1>2, <1>3, DefinitionAssumption

(* What is known in the abstract book is in use. *)
LEMMA KnownInUse ==
  ASSUME TypeInv, up, NEW d \in Book!Known
  PROVE  \E n \in Name : Uses(n, d)
<1>1. d \in Definition /\ Book!IsKnown(d) /\ d # None
  BY DefinitionAssumption DEF Book!Known
<1>2. Drafts \union {TheBook, OnFile} \subseteq {Page(tasks) : tasks \in Books} /\ Books \subseteq Tasks
  <2>1. TheBook = Page(config) /\ OnFile = Page(disk)
        /\ Drafts = {Page(config), Page(base)} \union {Page(job.content) : job \in Pending}
    BY DEF Drafts, TheBook, Current, OnFile
  <2>2. \A job \in Pending : job \in Job /\ job.content \in Tasks
    <3>1. \A i \in DOMAIN writes : writes[i] \in Job
      BY RemoveAtType DEF TypeInv
    <3>. QED BY <3>1 DEF Pending, Job
  <2>3. config \in Tasks /\ base \in Tasks /\ disk \in Tasks
    BY DEF TypeInv, TypeOK
  <2>. QED BY <2>1, <2>2, <2>3 DEF Books
<1>3. CASE \E old \in Drafts \union {TheBook, OnFile}, n \in Name : old[n] = d
  <2>1. PICK tasks \in Books, n \in Name : Page(tasks)[n] = d
    BY <1>2, <1>3
  <2>2. tasks[n] # None /\ Defined(tasks[n]) = d
    BY <1>1, <1>2, <2>1, PageAt
  <2>. QED BY <2>2 DEF Uses
<1>4. CASE \E r \in Run : StartedAs[r] # None /\ StartedAs[r].definition = d
  <2>1. PICK r \in Run : StartedAs[r] # None /\ StartedAs[r].definition = d
    BY <1>4
  <2>2. run[r].pc # "free"
    BY <2>1 DEF StartedAs, Started
  <2>3. run[r].name \in Name /\ Defined(run[r].task) = d
    BY <2>1, <2>2, StartedOf DEF TypeInv, RunsHaveTasks
  <2>. QED BY <2>2, <2>3 DEF Uses
<1>. QED BY <1>1, <1>3, <1>4 DEF Book!IsKnown

(* cron.add and cron.update define. *)
LEMMA BookDefines ==
  ASSUME BookInv, up, NEW n \in Name, NEW task \in Task, Define(n, task), task.version = version + 1,
         \/ config[n] # None /\ task.id = config[n].id
         \/ task.id \notin usedIds
  PROVE  Book!Define(n, Defined(task))
<1> DEFINE d == Defined(task)
           tasks == [config EXCEPT ![n] = task]
           job == Write(tasks, "upsert", n, task)
<1>0. /\ TypeInv /\ TypeOK /\ HeldInv /\ config \in Tasks /\ version \in Nat
      /\ sched \in [Name -> Registered \union {None}]
      /\ d \in Definition /\ d.id = task.id /\ d.version = task.version
  BY DefinedType DEF BookInv, TypeInv, TypeOK
<1>1. /\ SetConfig(tasks) /\ StartWrites(<<job>>)
      /\ UNCHANGED <<up, tick, run, autoRow>> /\ sched' = [sched EXCEPT ![n] = Registration(task)]
  BY DEF Define
<1>2. job \in Job /\ job.content = tasks /\ job.then.do = "upsert"
  <2>1. tasks \in Tasks
    BY <1>0 DEF Tasks
  <2>. QED BY <2>1, WriteType DEF Write
<1>3. Page(tasks) = [Page(config) EXCEPT ![n] = d]
  BY <1>0, PageExcept
<1>. HIDE DEF d, tasks, job
<1>4. config' = tasks /\ base' \in {base, config'} /\ UNCHANGED disk
  BY <1>1 DEF SetConfig
<1>5. Pending' = Pending \union {job}
  BY <1>0, <1>1, <1>2, PendingOne
<1>6. Drafts' \subseteq Drafts \union {TheBook'} /\ TheBook' = Page(tasks) /\ TheBook = Page(config)
  BY <1>1, <1>2, <1>4, <1>5, DraftsGrow
<1>7. \A known \in Book!Known : known.version # d.version
  <2>. SUFFICES ASSUME NEW known \in Book!Known PROVE known.version # d.version
    OBVIOUS
  <2>1. known \in Definition /\ known.version \in Nat
    BY DEF Book!Known, Definition, Version
  <2>2. known.version <= version
    BY <1>0, <2>1, KnownInUse DEF HeldInv
  <2>. QED BY <1>0, <2>1, <2>2
<1>8. \/ TheBook[n] # None /\ d.id = TheBook[n].id
      \/ \A known \in Book!Known : known.id # d.id
  <2>1. CASE config[n] # None /\ task.id = config[n].id
    <3>1. config[n] \in Task
      BY <1>0, <2>1 DEF Tasks
    <3>2. TheBook[n] = Defined(config[n]) /\ TheBook[n] # None /\ TheBook[n].id = config[n].id
      BY <1>0, <1>6, <2>1, <3>1, PageAt, DefinedType
    <3>. QED BY <1>0, <2>1, <3>2
  <2>2. CASE task.id \notin usedIds
    <3>. SUFFICES ASSUME NEW known \in Book!Known PROVE known.id # d.id
      OBVIOUS
    <3>1. known \in Definition
      BY DEF Book!Known
    <3>2. known.id \in usedIds
      BY <1>0, <3>1, KnownInUse DEF HeldInv
    <3>. QED BY <1>0, <2>2, <3>2
  <2>. QED BY <2>1, <2>2
<1>9. Schedule' = [Schedule EXCEPT ![n] = d]
  <2>1. Registration(task) \in Registered /\ Registration(task) # None /\ Registration(task).task = task
    BY RegistrationType, NoneAssumption DEF Registration
  <2>2. \A m \in Name : sched'[m] = IF m = n THEN Registration(task) ELSE sched[m]
    BY <1>0, <1>1
  <2>. QED BY <1>0, <2>1, <2>2 DEF Schedule, d
<1>10. UNCHANGED Leaving
  BY <1>1, <1>2, <1>5 DEF Leaving, Removed
<1>11. UNCHANGED <<OnFile, UnderWay, StartedAs>>
  BY <1>1, <1>4, SameStarts DEF OnFile
<1>. QED BY <1>1, <1>3, <1>6, <1>7, <1>8, <1>9, <1>10, <1>11 DEF Book!Define, Book!Draft, d

(* cron.remove *)
LEMMA BookRemoves ==
  ASSUME BookInv, NEW n \in Name, CronRemove(n)
  PROVE  Book!Remove(n)
<1> DEFINE job == Write(Without(n), "delete", n, None)
<1>0. TypeInv /\ TypeOK
  BY DEF BookInv, TypeInv
<1>1. /\ up /\ UNCHANGED <<up, tick, run, autoRow>> /\ sched[n] # None
      /\ sched' = [sched EXCEPT ![n] = None]
      /\ SetConfig(Without(n)) /\ StartWrites(<<job>>)
  BY DEF CronRemove, Idle, storeVars
<1>2. job \in Job /\ job.content = Without(n) /\ job.then.name = n
  BY <1>0, WithoutType, WriteType DEF Write
<1>. HIDE DEF job
<1>3. config' = Without(n) /\ base' \in {base, config'} /\ UNCHANGED disk
  BY <1>1 DEF SetConfig
<1>4. Pending' = Pending \union {job}
  BY <1>0, <1>1, <1>2, PendingOne
<1>5. Drafts' \subseteq Drafts \union {TheBook'} /\ TheBook' = Page(Without(n)) /\ TheBook = Page(config)
  BY <1>1, <1>2, <1>3, <1>4, DraftsGrow
<1>6. TheBook' = [TheBook EXCEPT ![n] = None]
  BY <1>0, <1>5, PageWithout
<1>7. Schedule[n] # None /\ Schedule' = [Schedule EXCEPT ![n] = None]
  <2>1. sched' = [m \in Name |-> IF m \in {n} THEN None ELSE sched[m]]
    BY <1>0, <1>1 DEF TypeOK
  <2>2. Schedule' = [m \in Name |-> IF m \in {n} THEN None ELSE Schedule[m]]
    BY <1>0, <2>1, ScheduleDrops
  <2>. QED BY <1>0, <1>1, <2>2, ScheduleAt
<1>8. Leaving' \subseteq Leaving \union {n}
  BY <1>1, <1>2, <1>4 DEF Leaving, Removed
<1>9. UNCHANGED <<OnFile, UnderWay, StartedAs>>
  BY <1>1, <1>3, SameStarts DEF OnFile
<1>. QED BY <1>1, <1>5, <1>6, <1>7, <1>8, <1>9 DEF Book!Remove, Book!Draft

(* Other settings are saved, or a task is paused. *)
LEMMA BookReverts ==
  ASSUME BookInv, up, UNCHANGED <<up, tick, run, disk, autoRow>>, Schedule' = Schedule,
         base' \in {base, config'}, NEW job \in Job, StartWrites(<<job>>),
         job.then.do # "delete", job.content = config', Page(config') \in {Page(config), Page(base)}
  PROVE  Book!Revert
<1>1. TypeOK
  BY DEF BookInv, TypeInv
<1>2. Pending' = Pending \union {job}
  BY <1>1, PendingOne
<1>3. Drafts' \subseteq Drafts \union {TheBook'} /\ TheBook' = Page(config')
  BY <1>2, DraftsGrow
<1>4. TheBook' \in Drafts
  BY <1>3 DEF Drafts
<1>5. UNCHANGED <<OnFile, Leaving, UnderWay, StartedAs>>
  BY <1>2, SameStarts DEF OnFile, Leaving, Removed
<1>. QED BY <1>3, <1>4, <1>5 DEF Book!Revert, Book!Draft

LEMMA BookPauses ==
  ASSUME BookInv, NEW n \in Name, NEW paused \in BOOLEAN, CronPause(n, paused)
  PROVE  Book!Revert
<1> DEFINE new == IF config[n] = None THEN config ELSE [config EXCEPT ![n].paused = paused]
           what == IF config[n] = None THEN "nothing" ELSE "upsert"
           job == Write(new, what, n, new[n])
<1>0. TypeOK /\ config \in [Name -> Task \union {None}] /\ sched \in [Name -> Registered \union {None}]
  BY DEF BookInv, TypeInv, TypeOK, Tasks
<1>1. /\ new \in Tasks
      /\ config[n] = None => new[n] = None
      /\ config[n] # None => new[n] \in Task
  BY <1>0, PausedType
<1>2. job \in Job
  <2>1. \/ what = "upsert" /\ new[n] \in Task
        \/ what \in {"nothing", "delete"} /\ new[n] = None
    BY <1>1
  <2>. HIDE DEF new, what
  <2>. QED BY <1>1, <2>1, WriteType
<1>3. job.content = new /\ job.then.do # "delete"
  BY DEF Write
<1>4. Page(new) = Page(config)
  <2>1. CASE config[n] = None
    BY <2>1
  <2>2. CASE config[n] # None
    <3>1. /\ [config[n] EXCEPT !.paused = paused] \in Task
          /\ [config[n] EXCEPT !.paused = paused].id = config[n].id
          /\ [config[n] EXCEPT !.paused = paused].version = config[n].version
          /\ [config[n] EXCEPT !.paused = paused].oneShot = config[n].oneShot
      BY <1>0, <2>2 DEF Task
    <3>2. Defined([config[n] EXCEPT !.paused = paused]) = Defined(config[n])
      BY <2>2, <3>1, NoneAssumption DEF Defined
    <3>3. \A m \in Name : new[m] = IF m = n THEN [config[n] EXCEPT !.paused = paused] ELSE config[m]
      BY <1>0, <2>2
    <3>. HIDE DEF new
    <3>. QED BY <3>2, <3>3 DEF Page
  <2>. QED BY <2>1, <2>2
<1>5. /\ up /\ UNCHANGED <<up, tick, run, autoRow>> /\ SetConfig(new) /\ StartWrites(<<job>>)
      /\ sched[n] # None /\ sched' = [sched EXCEPT ![n].paused = paused]
  BY DEF CronPause, Idle, storeVars
<1>. HIDE DEF new, what, job
<1>6. Schedule' = Schedule
  <2>1. \A m \in Name : (sched'[m] = None <=> sched[m] = None) /\ (sched[m] # None => sched'[m].task = sched[m].task)
    <3>1. sched[n] \in Registered /\ [sched[n] EXCEPT !.paused = paused] \in Registered
      BY <1>0, <1>5 DEF Registered
    <3>. QED BY <1>0, <1>5, <3>1, NoneAssumption DEF Registered
  <2>. QED BY <2>1 DEF Schedule
<1>7. config' = new /\ base' \in {base, config'} /\ UNCHANGED disk
  BY <1>5 DEF SetConfig
<1>. QED BY <1>2, <1>3, <1>4, <1>5, <1>6, <1>7, BookReverts

LEMMA BookSettings ==
  ASSUME BookInv, SaveSettings(TRUE) \/ SaveSettings(FALSE) \/ SaveModels
  PROVE  Book!Revert
<1> DEFINE job == [content |-> config', then |-> NoThen]
<1>1. /\ up /\ UNCHANGED <<up, tick, run, disk, base, sched, autoRow>>
      /\ config' \in {config, base} /\ StartWrites(<<job>>)
  BY DEF SaveSettings, SaveModels, Idle, storeVars
<1>2. config' \in Tasks
  BY <1>1 DEF BookInv, TypeInv, TypeOK
<1>3. job \in Job /\ job.content = config' /\ job.then.do # "delete"
  BY <1>2 DEF Job, Then, NoThen
<1>. HIDE DEF job
<1>4. Schedule' = Schedule
  BY <1>1 DEF Schedule
<1>5. Page(config') \in {Page(config), Page(base)}
  BY <1>1
<1>. QED BY <1>1, <1>3, <1>4, <1>5, BookReverts

(* A write has ended. *)
LEMMA BookErases ==
  ASSUME BookInv, NEW n \in Name, DeleteRow(n)
  PROVE  UNCHANGED autoRow \/ Book!Erase(n)
<1>0. /\ TypeInv /\ HeldInv /\ RecordInv /\ autoRow \in [Run -> RowStatus] /\ run \in [Run -> Execution]
      /\ row \in [Id -> Row \union {None}]
  BY DEF BookInv, TypeInv, TypeOK
<1>1. autoRow' = [r \in Run |->
        IF run[r].task # None /\ row[run[r].task.id] # None /\ row[run[r].task.id].name = n
        THEN "none" ELSE autoRow[r]]
  BY DEF DeleteRow
<1>2. \A r \in Run : run[r].pc # "free" =>
        /\ run[r].task # None /\ run[r].task \in Task /\ run[r].task.id \in Id /\ run[r].name \in Name
        /\ StartedAs[r] # None /\ StartedAs[r].name = run[r].name /\ StartedAs[r].definition.id = run[r].task.id
        /\ row[run[r].task.id] # None => row[run[r].task.id].name = run[r].name
  <2>. SUFFICES ASSUME NEW r \in Run, run[r].pc # "free"
                PROVE  /\ run[r].task # None /\ run[r].task \in Task /\ run[r].task.id \in Id /\ run[r].name \in Name
                       /\ StartedAs[r] # None /\ StartedAs[r].name = run[r].name
                       /\ StartedAs[r].definition.id = run[r].task.id
                       /\ row[run[r].task.id] # None => row[run[r].task.id].name = run[r].name
    OBVIOUS
  <2>1. run[r].task # None /\ run[r].task \in Task /\ run[r].task.id \in Id /\ run[r].name \in Name
    BY <1>0, NoneAssumption DEF TypeInv, RunsHaveTasks, Task
  <2>2. Defined(run[r].task) \in Definition /\ Defined(run[r].task).id = run[r].task.id
    BY <2>1, DefinedType
  <2>3. Uses(run[r].name, Defined(run[r].task))
    BY DEF Uses
  <2>4. row[run[r].task.id] # None => row[run[r].task.id].name = run[r].name
    BY <1>0, <2>1, <2>2, <2>3 DEF HeldInv
  <2>. QED BY <1>0, <2>1, <2>2, <2>4, StartedOf
<1>3. \A r \in Run : run[r].pc = "free" => autoRow[r] = "none" /\ StartedAs[r] = None
  BY <1>0 DEF RecordInv, RecordsFit, StartedAs, Started
<1>4. CASE \E i \in Id : row[i] # None /\ row[i].name = n
  <2>1. PICK i \in Id : row[i] # None /\ row[i].name = n
    BY <1>4
  <2>2. \A j \in Id : row[j] # None /\ row[j].name = n => j = i
    BY <1>0, <2>1 DEF HeldInv
  <2>3. ASSUME NEW r \in Run
        PROVE  autoRow'[r] = IF StartedAs[r] # None /\ StartedAs[r].name = n /\ StartedAs[r].definition.id = i
                             THEN "none" ELSE autoRow[r]
    <3>1. CASE run[r].pc = "free"
      BY <1>1, <1>3, <3>1
    <3>2. CASE run[r].pc # "free"
      BY <1>1, <1>2, <2>1, <2>2, <3>2
    <3>. QED BY <3>1, <3>2
  <2>4. autoRow' = [r \in Run |->
          IF r \in {s \in Run : StartedAs[s] # None /\ StartedAs[s].name = n /\ StartedAs[s].definition.id = i}
          THEN "none" ELSE autoRow[r]]
    BY <1>1, <2>3
  <2>. QED BY <2>4 DEF Book!Erase
<1>5. CASE ~\E i \in Id : row[i] # None /\ row[i].name = n
  <2>1. \A r \in Run : autoRow'[r] = autoRow[r]
    BY <1>1, <1>2, <1>3, <1>5
  <2>. QED BY <1>0, <1>1, <2>1
<1>. QED BY <1>4, <1>5

LEMMA BookWrites ==
  ASSUME BookInv, NEW i \in DOMAIN writes, WriteEnds(i) \/ WriteFails(i)
  PROVE  Book!Save \/ Book!Clear
<1>0. TypeOK
  BY DEF BookInv, TypeInv
<1>1. up /\ UNCHANGED <<up, config, base, sched, tick, run>> /\ writes' = RemoveAt(writes, i)
  BY DEF WriteEnds, WriteFails, Idle
<1>2. Pending' \subseteq Pending /\ writes[i] \in Pending /\ writes[i] \in Job
  BY <1>0, <1>1, PendingTaken, RemoveAtType
<1>3. Drafts' \subseteq Drafts \union {TheBook'} /\ UNCHANGED TheBook
  BY <1>1, <1>2, DraftsGrow
<1>4. Leaving' \subseteq Leaving
  BY <1>1, <1>2 DEF Leaving, Removed
<1>5. UNCHANGED <<Schedule, UnderWay, StartedAs>>
  BY <1>1, SameStarts DEF Schedule
<1>6. CASE WriteFails(i)
  <2>1. UNCHANGED <<OnFile, autoRow>>
    BY <1>6 DEF WriteFails, OnFile, storeVars
  <2>. QED BY <1>3, <1>4, <1>5, <2>1 DEF Book!Clear, Book!Draft
<1>7. CASE WriteEnds(i)
  <2>1. OnFile' \in Drafts
    BY <1>1, <1>2, <1>7 DEF WriteEnds, OnFile, Drafts
  <2>2. UNCHANGED autoRow \/ \E n \in Leaving : Book!Erase(n)
    <3>1. CASE writes[i].then.do = "delete"
      <4> DEFINE n == writes[i].then.name
      <4>1. n \in Leaving
        BY <1>2, <3>1 DEF Leaving, Removed
      <4>2. DeleteRow(n)
        BY <1>7, <3>1 DEF WriteEnds
      <4>3. CASE n \in Name
        BY <4>1, <4>2, <4>3, BookErases
      <4>4. CASE n = None
        <5>1. \A r \in Run : autoRow'[r] = autoRow[r]
          <6>. SUFFICES ASSUME NEW r \in Run PROVE autoRow'[r] = autoRow[r]
            OBVIOUS
          <6>1. run[r].task # None => run[r].task.id \in Id
            BY <1>0 DEF TypeOK, Execution, Task
          <6>2. \A j \in Id : row[j] # None => row[j].name \in Name
            BY <1>0 DEF TypeOK, Row
          <6>. QED BY <4>2, <4>4, <6>1, <6>2 DEF DeleteRow
        <5>2. autoRow \in [Run -> RowStatus] /\ autoRow' = [r \in Run |-> autoRow'[r]]
          BY <1>0, <4>2 DEF TypeOK, DeleteRow
        <5>. QED BY <5>1, <5>2
      <4>. QED BY <1>2, <3>1, <4>3, <4>4 DEF Job, Then
    <3>2. CASE writes[i].then.do # "delete"
      BY <1>2, <1>7, <3>2 DEF WriteEnds, Job, Then
    <3>. QED BY <3>1, <3>2
  <2>. QED BY <1>3, <1>4, <1>5, <2>1, <2>2 DEF Book!Save, Book!Draft
<1>. QED BY <1>6, <1>7

(* Ticks and their executions. *)
LEMMA BookTicks ==
  ASSUME BookInv, NEW k \in Tick, TickStarts(k) \/ TickEnds(k)
  PROVE  Book!Clear
<1>0. TypeOK /\ tick \in [Tick -> Walk]
  BY DEF BookInv, TypeInv, TypeOK
<1>1. up /\ UNCHANGED <<up, config, base, disk, writes, run, autoRow>>
  BY DEF TickStarts, TickEnds, Idle, configVars, storeVars
<1>2. UNCHANGED <<Pending, TheBook, Drafts, OnFile, Removed>>
  BY <1>1 DEF Pending, TheBook, Current, Drafts, OnFile, Removed
<1>3. \A l \in Tick : tick'[l].ended \subseteq tick[l].ended
  BY <1>0 DEF TickStarts, TickEnds, NoTick, Walk
<1>4. Leaving' \subseteq Leaving
  BY <1>2, <1>3 DEF Leaving
<1>5. \A n \in Name : Schedule'[n] # Schedule[n] => n \in Leaving /\ Schedule'[n] = None
  <2>1. CASE TickStarts(k)
    BY <2>1 DEF TickStarts, Schedule
  <2>2. CASE TickEnds(k)
    <3>1. tick[k].ended \in SUBSET Name /\ tick[k].ended \subseteq Leaving
      BY <1>0 DEF Leaving, Walk
    <3>2. sched' = [n \in Name |-> IF n \in tick[k].ended THEN None ELSE sched[n]]
      BY <2>2 DEF TickEnds
    <3>3. Schedule' = [n \in Name |-> IF n \in tick[k].ended THEN None ELSE Schedule[n]]
      BY <1>0, <3>1, <3>2, ScheduleDrops
    <3>. QED BY <3>1, <3>3
  <2>. QED BY <2>1, <2>2
<1>6. Book!Draft
  BY <1>2 DEF Book!Draft
<1>. QED BY <1>1, <1>2, <1>4, <1>5, <1>6, SameStarts DEF Book!Clear

LEMMA BookBegins ==
  ASSUME BookInv, NEW n \in Name, NEW r \in Run, CronRun(n, r) \/ \E k \in Tick : TickRuns(k, n, r)
  PROVE  Book!Begin(r, n)
<1>0. /\ TypeInv /\ TypeOK /\ run \in [Run -> Execution] /\ tick \in [Tick -> Walk]
      /\ sched \in [Name -> Registered \union {None}]
  BY DEF BookInv, TypeInv, TypeOK
<1>1. PICK by : Begin(r, n, by)
  BY DEF CronRun, TickRuns
<1>2. /\ up /\ UNCHANGED <<up, config, base, disk, writes, autoRow>> /\ sched[n] # None
      /\ \A k \in Tick : tick'[k].ended = tick[k].ended
  <2>1. up /\ UNCHANGED <<up, config, base, disk, writes, autoRow>> /\ sched[n] # None
    BY Zenon DEF CronRun, TickRuns, Idle, configVars, storeVars
  <2>2. \A k \in Tick : tick'[k].ended = tick[k].ended
    <3>1. CASE UNCHANGED tick
      BY <3>1
    <3>2. ASSUME NEW k \in Tick, TickRuns(k, n, r)
          PROVE  \A l \in Tick : tick'[l].ended = tick[l].ended
      BY <1>0, <3>2 DEF TickRuns, Walk
    <3>. QED BY <3>1, <3>2 DEF CronRun
  <2>. QED BY <2>1, <2>2
<1>3. UNCHANGED <<Pending, TheBook, Drafts, OnFile, Removed, Leaving>>
  BY <1>2 DEF Pending, TheBook, Current, Drafts, OnFile, Removed, Leaving
<1>4. UNCHANGED Schedule
  <2>1. [sched[n] EXCEPT !.last = TRUE] \in Registered /\ [sched[n] EXCEPT !.last = TRUE].task = sched[n].task
    BY <1>0, <1>2 DEF Registered
  <2>2. \A m \in Name : sched'[m] = IF m = n THEN [sched[n] EXCEPT !.last = TRUE] ELSE sched[m]
    BY <1>0, <1>1 DEF Begin
  <2>. QED BY <1>2, <2>1, <2>2, NoneAssumption DEF Schedule
<1>5. /\ run[r].pc = "free" /\ run'[r].pc = "preparing" /\ run'[r].name = n /\ run'[r].task = sched[n].task
      /\ \A s \in Run \ {r} : run'[s] = run[s]
  BY <1>0, <1>1 DEF Begin
<1>6. Schedule[n] # None /\ Schedule[n] = Defined(sched[n].task)
  BY <1>0, <1>2, ScheduleAt
<1>7. StartedAs[r] = None
  BY <1>5 DEF StartedAs, Started
<1>8. UnderWay' = UnderWay \union {r}
  BY <1>5 DEF UnderWay, Alive
<1>9. StartedAs' = [StartedAs EXCEPT ![r] = [name |-> n, definition |-> Schedule[n]]]
  <2>1. \A s \in Run : Started(s)' = IF s = r THEN [name |-> n, definition |-> Schedule[n]] ELSE Started(s)
    BY <1>5, <1>6 DEF Started
  <2>. QED BY <2>1 DEF StartedAs
<1>. QED BY <1>2, <1>3, <1>4, <1>6, <1>7, <1>8, <1>9 DEF Book!Begin

(* A handler returns. *)
LEMMA BookReturns ==
  ASSUME BookInv, up, NEW r \in Run, Alive(r), NEW jobs \in Seq(Job), Return(r, jobs),
         \A j \in DOMAIN jobs : jobs[j].content = config /\ jobs[j].then.do # "delete",
         autoRow'[r] # "running"
  PROVE  Book!End(r)
<1> DEFINE n == run[r].name
           left == Write(Without(n), "delete", n, None)
           ended == IF run[r].task.oneShot THEN {n} ELSE {}
<1>0. /\ TypeInv /\ TypeOK /\ n \in Name /\ run[r].task \in Task
      /\ tick \in [Tick -> Walk] /\ run[r].by \in Tick \union {None}
  BY DEF BookInv, TypeInv, TypeOK, RunsHaveTasks, Alive, Execution
<1>1. /\ StartedAs[r].name = n /\ StartedAs[r].definition.oneShot = run[r].task.oneShot
  BY <1>0, StartedOf, DefinedType DEF Alive
<1>2. UNCHANGED <<StartedAs, up, disk>> /\ r \in UnderWay /\ UnderWay' = UnderWay \ {r}
  <2>1. ToPhase(r, "done") /\ UNCHANGED up
    BY DEF Return
  <2>2. UNCHANGED disk
    BY DEF Return, Leave, SetConfig
  <2>. QED BY <1>0, <2>1, <2>2, MovedStart DEF RunPhases
<1>3. UNCHANGED OnFile
  BY <1>2 DEF OnFile
<1>4. \A k \in Tick : tick'[k].ended \subseteq tick[k].ended \union ended
  <2>1. CASE run[r].by = None
    BY <2>1 DEF Return, Continue
  <2>2. CASE run[r].by # None
    BY <1>0, <2>2 DEF Return, Continue, Walking, Walk
  <2>. QED BY <2>1, <2>2
<1>5. CASE run[r].task.oneShot
  <2>1. SetConfig(Without(n)) /\ StartWrites(jobs \o <<left>>)
    BY <1>5 DEF Return, Leave
  <2>2. left \in Job /\ left.content = Without(n) /\ left.then.name = n
    BY <1>0, WithoutType, WriteType DEF Write
  <2>3. config' = Without(n) /\ base' \in {base, config'}
    BY <2>1 DEF SetConfig
  <2>. HIDE DEF left
  <2>4. \A job \in Pending' : \/ job \in Pending \/ job = left
                              \/ job.content = config /\ job.then.do # "delete"
    <3>1. <<left>> \in Seq(Job) /\ Len(<<left>>) = 1 /\ <<left>>[1] = left
      BY <2>2
    <3>2. /\ jobs \o <<left>> \in Seq(Job) /\ Len(jobs \o <<left>>) = Len(jobs) + 1
          /\ \A j \in 1..(Len(jobs) + 1) : (jobs \o <<left>>)[j] = IF j <= Len(jobs) THEN jobs[j] ELSE left
      BY <2>2
    <3>3. \A j \in DOMAIN (jobs \o <<left>>) :
            (jobs \o <<left>>)[j] = left \/ \E k \in DOMAIN jobs : (jobs \o <<left>>)[j] = jobs[k]
      BY <3>2
    <3>4. Pending' = Pending \union {(jobs \o <<left>>)[j] : j \in DOMAIN (jobs \o <<left>>)}
      BY <1>0, <2>1, <3>2, PendingAdded
    <3>. QED BY <3>3, <3>4
  <2>5. Drafts' \subseteq Drafts \union {TheBook'} /\ TheBook' = Page(Without(n)) /\ TheBook = Page(config)
    BY <1>2, <2>2, <2>3, <2>4, DraftsGrow
  <2>6. TheBook' = [TheBook EXCEPT ![n] = None]
    BY <1>0, <2>5, PageWithout
  <2>7. Leaving' \subseteq Leaving \union {n}
    <3>. SUFFICES ASSUME NEW m \in Leaving' PROVE m \in Leaving \union {n}
      OBVIOUS
    <3>1. CASE m \in Removed'
      BY <2>2, <2>4, <3>1 DEF Leaving, Removed
    <3>2. CASE \E k \in Tick : m \in tick'[k].ended
      BY <1>4, <1>5, <3>2 DEF Leaving
    <3>. QED BY <3>1, <3>2 DEF Leaving
  <2>8. Schedule' \in {Schedule, [Schedule EXCEPT ![n] = None]}
    <3>1. CASE run[r].by = None
      <4>1. sched' = [m \in Name |-> IF m \in {n} THEN None ELSE sched[m]]
        BY <1>0, <1>5, <3>1 DEF Return, TypeOK
      <4>2. Schedule' = [m \in Name |-> IF m \in {n} THEN None ELSE Schedule[m]]
        BY <1>0, <4>1, ScheduleDrops
      <4>. QED BY <1>0, <4>2, ScheduleAt
    <3>2. CASE run[r].by # None
      BY <3>2 DEF Return, Schedule
    <3>. QED BY <3>1, <3>2
  <2>. HIDE DEF n
  <2>. QED BY <1>1, <1>2, <1>3, <1>5, <2>5, <2>6, <2>7, <2>8 DEF Book!End, Book!Draft
<1>6. CASE ~run[r].task.oneShot
  <2>1. StartWrites(jobs) /\ UNCHANGED <<config, base, sched>>
    BY <1>6 DEF Return, Leave
  <2>2. Pending' = Pending \union {jobs[j] : j \in DOMAIN jobs}
    BY <1>0, <2>1, PendingAdded
  <2>3. Drafts' \subseteq Drafts \union {TheBook'} /\ UNCHANGED TheBook
    BY <1>2, <2>1, <2>2, DraftsGrow
  <2>4. UNCHANGED <<Removed, Schedule>>
    BY <2>1, <2>2 DEF Removed, Schedule
  <2>5. \A k \in Tick : tick'[k].ended = tick[k].ended
    <3>1. CASE run[r].by = None
      BY <3>1 DEF Return, Continue
    <3>2. CASE run[r].by # None
      BY <1>0, <1>6, <3>2 DEF Return, Continue, Walking, Walk
    <3>. QED BY <3>1, <3>2
  <2>6. UNCHANGED Leaving
    BY <2>4, <2>5 DEF Leaving
  <2>. HIDE DEF n
  <2>. QED BY <1>1, <1>2, <1>3, <1>6, <2>3, <2>4, <2>6 DEF Book!End, Book!Draft
<1>. QED BY <1>5, <1>6

BookAction == Book!Next \/ UNCHANGED Book!bookVars

LEMMA BookRunSteps ==
  ASSUME BookInv, RecordInv', NEW r \in Run, RunStep(r)
  PROVE  BookAction
<1>0. /\ TypeInv /\ TypeOK /\ RecordsFit(r) /\ RecordsFit(r)' /\ up /\ UNCHANGED up
      /\ run \in [Run -> Execution] /\ config \in [Name -> Task \union {None}]
      /\ autoRow \in [Run -> RowStatus]
  BY DEF BookInv, RecordInv, TypeInv, TypeOK, Tasks, RunStep, PreparationFails, StartAttempt, EndAttempt,
         ArchivingFails, Retry, Notify, EndDelivery, SaveResult, Idle, Return
<1>1. Alive(r) /\ r \in UnderWay
  BY DEF RunStep, PreparationFails, StartAttempt, EndAttempt, ArchivingFails, Retry, Notify, EndDelivery,
         SaveResult, Alive, UnderWay
<1>2. <<>> \in Seq(Job) /\ DOMAIN <<>> = {}
  OBVIOUS
<1>3. ASSUME Return(r, <<>>), UNCHANGED autoRow \/ \E outcome \in {"success", "error"} : Book!Outcome(r, outcome)
      PROVE  BookAction
  <2>1. run'[r].pc = "done"
    BY <1>0, <1>3, MovedTo DEF Return
  <2>2. autoRow'[r] # "running"
    BY <1>0, <2>1 DEF RecordsFit
  <2>3. Book!End(r)
    BY <1>0, <1>1, <1>2, <1>3, <2>2, BookReturns
  <2>. QED BY <1>3, <2>3 DEF BookAction, Book!Next, Book!EndWith
<1>4. ASSUME UNCHANGED <<configVars, sched, tick>>
      PROVE  UNCHANGED <<TheBook, Drafts, OnFile, Schedule, Leaving>>
  <2>1. UNCHANGED <<config, base, disk, writes, sched, tick, up>>
    BY <1>0, <1>4 DEF configVars
  <2>2. UNCHANGED Pending
    BY <2>1 DEF Pending
  <2>. QED BY <2>1, <2>2 DEF TheBook, Current, Drafts, OnFile, Schedule, Leaving, Removed
<1>5. ASSUME NEW phase \in RunPhases \ {"free", "done"}, ToPhase(r, phase)
      PROVE  UNCHANGED <<UnderWay, StartedAs>>
  BY <1>0, <1>1, <1>5, MovedStart
<1>6. ASSUME NEW status \in {"success", "error"}, Settle(r, status), run[r].pc = "chatting"
      PROVE  UNCHANGED autoRow \/ Book!Outcome(r, status)
  BY <1>0, <1>6 DEF Settle, RecordsFit, Book!Outcome
<1>7. CASE PreparationFails(r)
  BY <1>3, <1>7 DEF PreparationFails
<1>8. CASE StartAttempt(r)
  <2>1. CASE row[run[r].task.id] = None
    BY <1>3, <1>8, <2>1 DEF StartAttempt
  <2>2. CASE row[run[r].task.id] # None
    <3>1. /\ run[r].pc = "preparing" /\ autoRow' = [autoRow EXCEPT ![r] = "running"] /\ ToPhase(r, "chatting")
          /\ UNCHANGED <<configVars, sched, tick>>
      BY <1>8, <2>2 DEF StartAttempt
    <3>2. autoRow[r] \in {"none", "error"}
      BY <1>0, <3>1 DEF RecordsFit
    <3>3. UNCHANGED <<TheBook, Drafts, OnFile, Schedule, Leaving, UnderWay, StartedAs>>
      BY <1>4, <1>5, <3>1 DEF RunPhases
    <3>. QED BY <1>1, <3>1, <3>2, <3>3 DEF BookAction, Book!Next, Book!Attempt
  <2>. QED BY <2>1, <2>2
<1>9. ASSUME NEW status \in {"success", "error"}, EndAttempt(r, status)
      PROVE  BookAction
  <2>1. run[r].pc = "chatting" /\ Settle(r, status) /\ UNCHANGED <<configVars, sched, tick>>
    BY <1>9 DEF EndAttempt
  <2>2. \E phase \in RunPhases \ {"free", "done"} : ToPhase(r, phase)
    BY <1>9 DEF EndAttempt, Deliver, RunPhases
  <2>3. UNCHANGED <<TheBook, Drafts, OnFile, Schedule, Leaving, UnderWay, StartedAs>>
    BY <1>4, <1>5, <2>1, <2>2
  <2>4. UNCHANGED autoRow \/ Book!Outcome(r, status)
    BY <1>6, <2>1
  <2>5. Book!Outcome(r, status) => Book!Settle(r, status)
    BY <1>1, <2>3 DEF Book!Settle
  <2>. QED BY <2>3, <2>4, <2>5 DEF BookAction, Book!Next, Book!bookVars
<1>10. ASSUME NEW status \in {"success", "error"}, ArchivingFails(r, status)
       PROVE  BookAction
  BY <1>3, <1>6, <1>10 DEF ArchivingFails
<1>11. CASE Retry(r)
  <2>1. UNCHANGED <<configVars, sched, tick, autoRow>>
    BY <1>11 DEF Retry, storeVars
  <2>2. \A s \in Run : /\ run'[s].name = run[s].name /\ run'[s].task = run[s].task
                       /\ Alive(s)' = Alive(s) /\ (run'[s].pc = "free" <=> run[s].pc = "free")
    BY <1>0, <1>11 DEF Retry, Alive, Execution
  <2>3. \A s \in Run : Started(s)' = Started(s)
    BY <2>2 DEF Started
  <2>4. UNCHANGED <<UnderWay, StartedAs>>
    BY <2>2, <2>3 DEF UnderWay, StartedAs
  <2>. QED BY <1>4, <2>1, <2>4 DEF BookAction, Book!bookVars
<1>12. CASE Notify(r) \/ \E sent \in BOOLEAN : EndDelivery(r, sent)
  <2>1. UNCHANGED <<configVars, sched, tick, autoRow>>
    BY <1>12 DEF Notify, EndDelivery, storeVars
  <2>2. \E phase \in RunPhases \ {"free", "done"} : ToPhase(r, phase)
    BY <1>12 DEF Notify, EndDelivery, RunPhases
  <2>. QED BY <1>4, <1>5, <2>1, <2>2 DEF BookAction, Book!bookVars
<1>13. CASE SaveResult(r)
  <2> DEFINE n == run[r].name
             what == IF config[n] = None THEN "nothing" ELSE "upsert"
             job == Write(config, what, n, config[n])
  <2>1. Return(r, <<job>>) /\ UNCHANGED autoRow /\ n \in Name /\ run[r].pc = "logging"
    BY <1>0, <1>13 DEF SaveResult, TypeInv, RunsHaveTasks
  <2>2. job \in Job
    <3>1. \/ what = "upsert" /\ config[n] \in Task
          \/ what \in {"nothing", "delete"} /\ config[n] = None
      BY <1>0, <2>1
    <3>2. config \in Tasks
      BY <1>0 DEF Tasks
    <3>. HIDE DEF what
    <3>. QED BY <2>1, <3>1, <3>2, WriteType
  <2>3. job.content = config /\ job.then.do # "delete"
    BY DEF Write
  <2>. HIDE DEF job
  <2>4. <<job>> \in Seq(Job) /\ \A j \in DOMAIN <<job>> : <<job>>[j] = job
    BY <2>2
  <2>5. autoRow'[r] # "running"
    BY <1>0, <2>1 DEF RecordsFit
  <2>6. Book!End(r)
    BY <1>0, <1>1, <2>1, <2>3, <2>4, <2>5, BookReturns
  <2>. QED BY <2>1, <2>6 DEF BookAction, Book!Next, Book!EndWith
<1>. QED BY <1>7, <1>8, <1>9, <1>10, <1>11, <1>12, <1>13 DEF RunStep

LEMMA BookCrashes ==
  ASSUME BookInv, Crash
  PROVE  Book!Crash
<1>0. TypeInv /\ run \in [Run -> Execution]
  BY DEF BookInv, TypeInv, TypeOK
<1>1. /\ ~up' /\ writes' = <<>> /\ UNCHANGED <<disk, autoRow>> /\ tick' = [k \in Tick |-> NoTick]
      /\ sched' = [n \in Name |-> None]
  BY DEF Crash, storeVars
<1>2. TheBook' = OnFile /\ UNCHANGED OnFile
  BY <1>1 DEF TheBook, Current, OnFile
<1>3. Schedule' = [n \in Name |-> None]
  BY <1>1 DEF Schedule
<1>4. Drafts' = {} /\ Leaving' = {}
  <2>1. Pending' = {}
    BY <1>1 DEF Pending
  <2>2. \A k \in Tick : tick'[k].ended = {}
    BY <1>1 DEF NoTick
  <2>. QED BY <1>1, <2>1, <2>2 DEF Drafts, Leaving, Removed
<1>5. \A r \in Run : /\ run'[r].name = run[r].name /\ run'[r].task = run[r].task
                     /\ run'[r].pc = "free" <=> run[r].pc = "free"
                     /\ ~Alive(r)'
  <2>1. run' = [r \in Run |-> IF Alive(r) THEN [run[r] EXCEPT !.pc = "done"] ELSE run[r]]
    BY Zenon DEF Crash
  <2>. QED BY <1>0, <2>1 DEF Alive, Execution
<1>6. UnderWay' = {}
  BY <1>5 DEF UnderWay
<1>7. \A r \in Run : Started(r)' = Started(r)
  BY <1>5 DEF Started
<1>8. UNCHANGED StartedAs
  BY <1>7 DEF StartedAs
<1>. QED BY <1>1, <1>2, <1>3, <1>4, <1>6, <1>8 DEF Book!Crash

(* A start, and one that fails. *)
LEMMA BookRestarts ==
  ASSUME BookInv, Restart \/ StartFails
  PROVE  Book!Restart
<1>0. /\ ~up /\ UNCHANGED <<disk, writes, tick, run>> /\ autoRow' = Interrupt(autoRow)
      /\ disk \in Tasks
  BY DEF BookInv, TypeInv, TypeOK, Restart, StartFails, configVars
<1>1. UnderWay = {} /\ Pending' = {}
  BY <1>0 DEF BookInv, RecordInv, RecordsFit, SavedInv, UnderWay, Pending
<1>2. UNCHANGED <<OnFile, Leaving, UnderWay, StartedAs>>
  BY <1>0, SameStarts DEF OnFile, Leaving, Removed, Pending
<1>3. TheBook' = OnFile /\ Drafts' \subseteq {OnFile}
  <2>1. CASE Restart
    BY <1>1, <2>1 DEF Restart, TheBook, Current, Drafts, OnFile
  <2>2. CASE StartFails
    BY <1>0, <2>2 DEF StartFails, TheBook, Current, Drafts, OnFile
  <2>. QED BY <2>1, <2>2
<1>4. \A n \in Name : Schedule'[n] \in {None, OnFile[n]}
  <2>1. CASE Restart
    <3>1. \A n \in Name : sched'[n] = None \/ (disk[n] # None /\ sched'[n].task = disk[n])
      BY <2>1 DEF Restart, Registration
    <3>. QED BY <3>1 DEF Schedule, OnFile, Page
  <2>2. CASE StartFails
    BY <1>0, <2>2 DEF StartFails, BookInv, DownInv, Schedule
  <2>. QED BY <2>1, <2>2
<1>. QED BY <1>0, <1>1, <1>2, <1>3, <1>4 DEF Book!Restart, Interrupt

LEMMA BookStep ==
  ASSUME BookInv, BookInv', [Next]_vars
  PROVE  BookAction
<1>0. TypeOK
  BY DEF BookInv, TypeInv
<1>1. ASSUME NEW n \in Name, NEW id \in Id, NEW f \in Flavour, CronAdd(n, id, f)
      PROVE  BookAction
  <2>1. up /\ id \notin usedIds
    BY <1>0, <1>1, AddedType
  <2>2. PICK task \in Task : task.id = id /\ task.version = version + 1 /\ Define(n, task)
    BY <1>0, <1>1, AddedType
  <2>3. Book!Define(n, Defined(task))
    BY <2>1, <2>2, BookDefines
  <2>. QED BY <2>3, DefinedType DEF BookAction, Book!Next
<1>2. ASSUME NEW n \in Name, NEW f \in Flavour, NEW s \in Switch, CronUpdate(n, f, s)
      PROVE  BookAction
  <2>1. up /\ config[n] # None
    BY <1>0, <1>2, UpdatedType
  <2>2. PICK task \in Task : task.id = config[n].id /\ task.version = version + 1 /\ Define(n, task)
    BY <1>0, <1>2, UpdatedType
  <2>3. Book!Define(n, Defined(task))
    BY <2>1, <2>2, BookDefines
  <2>. QED BY <2>3, DefinedType DEF BookAction, Book!Next
<1>3. ASSUME NEW n \in Name, CronPause(n, TRUE) \/ CronPause(n, FALSE)
      PROVE  BookAction
  BY <1>3, BookPauses DEF BookAction, Book!Next
<1>4. ASSUME NEW n \in Name, CronRemove(n)
      PROVE  BookAction
  BY <1>4, BookRemoves DEF BookAction, Book!Next
<1>5. ASSUME NEW n \in Name, NEW r \in Run, CronRun(n, r) \/ \E k \in Tick : TickRuns(k, n, r)
      PROVE  BookAction
  BY <1>5, BookBegins DEF BookAction, Book!Next
<1>6. CASE SaveSettings(TRUE) \/ SaveSettings(FALSE) \/ SaveModels
  BY <1>6, BookSettings DEF BookAction, Book!Next
<1>7. ASSUME NEW i \in DOMAIN writes, WriteEnds(i) \/ WriteFails(i)
      PROVE  BookAction
  BY <1>7, BookWrites DEF BookAction, Book!Next
<1>8. ASSUME NEW k \in Tick, TickStarts(k) \/ TickEnds(k)
      PROVE  BookAction
  BY <1>8, BookTicks DEF BookAction, Book!Next
<1>9. ASSUME NEW r \in Run, RunStep(r)
      PROVE  BookAction
  BY <1>9, BookRunSteps DEF BookInv
<1>10. CASE Crash
  BY <1>10, BookCrashes DEF BookAction, Book!Next
<1>11. CASE Restart \/ StartFails
  BY <1>11, BookRestarts DEF BookAction, Book!Next
<1>12. CASE UNCHANGED vars
  <2>1. UNCHANGED <<up, config, base, disk, writes, sched, tick, run, autoRow>>
    BY <1>12 DEF vars, configVars, storeVars
  <2>2. UNCHANGED Pending
    BY <2>1 DEF Pending
  <2>3. UNCHANGED <<TheBook, Drafts, OnFile, Schedule, Leaving>>
    BY <2>1, <2>2 DEF TheBook, Current, Drafts, OnFile, Schedule, Leaving, Removed
  <2>. QED BY <2>1, <2>3, SameStarts DEF BookAction, Book!bookVars
<1>. QED BY <1>1, <1>2, <1>3, <1>4, <1>5, <1>6, <1>7, <1>8, <1>9, <1>10, <1>11, <1>12 DEF Next

(* Scheduler, configuration, file, rows, ticks and handlers implement the  *)
(* book of tasks, for any names, ids, schedules and executions, and        *)
(* whatever edits, writes, failures, crashes and starts overlap.           *)
THEOREM BookImplemented == Spec => BookIsKept
<1>1. Init => Book!Init
  <2>. SUFFICES ASSUME Init PROVE Book!Init
    OBVIOUS
  <2>1. Pending = {}
    BY DEF Init, Pending
  <2>2. TheBook = [n \in Name |-> None] /\ OnFile = TheBook /\ Schedule = TheBook
    BY DEF Init, TheBook, Current, OnFile, Schedule, Page, Defined
  <2>3. Drafts = {TheBook}
    BY <2>1 DEF Init, Drafts, TheBook, Current
  <2>4. Leaving = {} /\ UnderWay = {} /\ StartedAs = [r \in Run |-> None]
    BY <2>1 DEF Init, Leaving, Removed, UnderWay, StartedAs, Started, Alive, NoRun, NoTick
  <2>. QED BY <2>2, <2>3, <2>4 DEF Init, Book!Init
<1>2. BookInv /\ BookInv' /\ [Next]_vars => [Book!Next]_(Book!bookVars)
  BY BookStep DEF BookAction
<1>. QED BY <1>1, <1>2, BookInvariant, PTL DEF Spec, BookIsKept, Book!Spec
=============================================================================
