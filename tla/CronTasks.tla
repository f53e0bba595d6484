----------------------------- MODULE CronTasks ------------------------------
(***************************************************************************)
(* Scheduled tasks of the automation engine.  A task is kept in four       *)
(* places: the automation section of the configuration in memory, the      *)
(* config.json it is written to, the scheduler's registrations, and a row  *)
(* of automation_tasks, whose name is unique among the cron tasks and      *)
(* which the rows of automation_runs refer to.  The cron.* procedures, the *)
(* scheduler's ticks and the task handlers all change them.                *)
(*                                                                         *)
(* Grain.  As in ChatTurns, what runs between two awaits on something      *)
(* outside the process (a file, the model, a timer, a connector) is one    *)
(* action; the store is synchronous.  A tick walks the registrations       *)
(* without yielding except while a handler runs: that is Idle.             *)
(***************************************************************************)
EXTENDS Naturals, SequencesExt

CONSTANTS
  Name,         \* the names of tasks
  Id,           \* the task ids cron.add may draw
  Run,          \* executions of handlers; their number is a bound
  Tick,         \* ticks that may overlap
  Flavour,      \* the schedules tasks are given
  Switch,       \* how cron.update may switch them: enabled or not, paused or not
  MaxEdits,     \* bound: calls that change tasks or other settings
  MaxWrites,    \* bound: writes of config.json under way
  MaxAttempts,  \* retryPolicy.maxAttempts
  None

ASSUME CronAssumption ==
  /\ Flavour \subseteq [oneShot: BOOLEAN, once: BOOLEAN]
  /\ Switch \subseteq [enabled: BOOLEAN, paused: BOOLEAN]
  /\ MaxEdits \in Nat /\ MaxWrites \in Nat
  /\ MaxAttempts \in 1..10
  /\ None \notin Name \union Id \union Tick

VARIABLES
  up,
  config,     \* cronTasks of the configuration in memory
  base,       \* cronTasks of baseConfigFile, the configuration at start-up
  aliased,    \* base and config still share one automation object
  disk,       \* cronTasks of config.json
  writes,     \* writeConfigFile calls under way, with what follows them
  sched,      \* Scheduler.tasks
  tick,       \* the ticks under way
  run,        \* the handlers under way
  row,        \* automation_tasks, by task_id
  runRow,     \* the row in runs of an execution's last attempt
  autoRow,    \* its row in automation_runs
  outbox,     \* kernel outbox, topic automation.delivery.notify
  answer,     \* history: was an execution's answer to be delivered, did it arrive?
  newest,     \* history: where the newest write of this start has got
  version,    \* history: edits so far; the last one's number is a definition's version
  usedIds     \* history: ids drawn so far

configVars == <<config, base, aliased, disk, writes, newest>>
storeVars  == <<row, runRow, autoRow, outbox>>
drawnVars  == <<version, usedIds>>
vars == <<up, configVars, sched, tick, run, storeVars, answer, drawnVars>>

Version == 1..MaxEdits
Task    == [id: Id, version: Version, oneShot: BOOLEAN, once: BOOLEAN,
            enabled: BOOLEAN, paused: BOOLEAN]
Tasks   == [Name -> Task \union {None}]
Row     == [name: Name, version: Version, paused: BOOLEAN]
Then    == [do: {"upsert"}, name: Name, task: Task]
           \union [do: {"nothing", "delete"}, name: Name \union {None}, task: {None}]
Job     == [content: Tasks, then: Then]

RunPhases == {"free", "preparing", "chatting", "sleeping", "delivering", "notified",
             "logging", "done"}
RowStatus == {"none", "running", "success", "error", "interrupted"}

Registered == [task: Task, paused: BOOLEAN, last: BOOLEAN]
Walk       == [pc: {"idle", "walking", "running"}, seen: SUBSET Version, ended: SUBSET Name]
Execution  == [pc: RunPhases, name: Name \union {None}, task: Task \union {None},
               by: Tick \union {None}, attempt: 0..MaxAttempts]

ASSUME NoneAssumption == None \notin Task \union Registered \union Row

NoRun  == [pc |-> "free", name |-> None, task |-> None, by |-> None, attempt |-> 0]
NoTick == [pc |-> "idle", seen |-> {}, ended |-> {}]
NoThen == [do |-> "nothing", name |-> None, task |-> None]

TypeOK ==
  /\ up \in BOOLEAN /\ aliased \in BOOLEAN
  /\ config \in Tasks /\ base \in Tasks /\ disk \in Tasks
  /\ writes \in Seq(Job)
  /\ sched \in [Name -> Registered \union {None}]
  /\ tick \in [Tick -> Walk]
  /\ run \in [Run -> Execution]
  /\ row \in [Id -> Row \union {None}]
  /\ runRow \in [Run -> RowStatus] /\ autoRow \in [Run -> RowStatus]
  /\ outbox \subseteq Run /\ answer \in [Run -> {"none", "due", "arrived"}]
  /\ newest \in {"saving", "saved", "lost"}
  /\ version \in 0..MaxEdits /\ usedIds \subseteq Id

Init ==
  /\ up = TRUE /\ aliased = TRUE
  /\ config = [n \in Name |-> None] /\ base = config /\ disk = config
  /\ writes = <<>> /\ newest = "saved"
  /\ sched = [n \in Name |-> None]
  /\ tick = [k \in Tick |-> NoTick]
  /\ run = [r \in Run |-> NoRun]
  /\ row = [i \in Id |-> None]
  /\ runRow = [r \in Run |-> "none"] /\ autoRow = [r \in Run |-> "none"]
  /\ outbox = {} /\ answer = [r \in Run |-> "none"]
  /\ version = 0 /\ usedIds = {}

-----------------------------------------------------------------------------
Idle == up /\ \A k \in Tick : tick[k].pc # "walking"

Alive(r) == run[r].pc \notin {"free", "done"}

(* UNIQUE(task_type, name): another task id holds the name. *)
NameTaken(n, task) == \E i \in Id \ {task.id} : row[i] # None /\ row[i].name = n

(* upsertCronTaskRecord, which throws on a name that is taken.  Callers    *)
(* have nothing left to do then, or did not wait for it: bun reports such  *)
(* a rejection and goes on.                                                *)
Upsert(n, task) ==
  row' = IF NameTaken(n, task) THEN row
         ELSE [row EXCEPT ![task.id] = [name |-> n, version |-> task.version, paused |-> task.paused]]

(* deleteCronTaskRecord by name, and ON DELETE CASCADE. *)
DeleteRow(n) ==
  /\ row' = [i \in Id |-> IF row[i] # None /\ row[i].name = n THEN None ELSE row[i]]
  /\ autoRow' = [r \in Run |->
       IF run[r].task # None /\ row[run[r].task.id] # None /\ row[run[r].task.id].name = n
       THEN "none" ELSE autoRow[r]]

(* The cron tasks of the current automation object are replaced, the ones  *)
(* of baseConfigFile with them as long as it is the same object.           *)
SetConfig(new) ==
  /\ config' = new
  /\ base' = IF aliased THEN new ELSE base
  /\ UNCHANGED <<aliased, disk>>

Write(new, what, n, task) ==
  [content |-> new, then |-> [do |-> what, name |-> n, task |-> task]]

StartWrites(jobs) ==
  /\ Len(writes) + Len(jobs) <= MaxWrites
  /\ writes' = writes \o jobs
  /\ newest' = IF jobs = <<>> THEN newest ELSE "saving"

(* Edits are counted. *)
Edit == version < MaxEdits /\ version' = version + 1

Registration(task) == [task |-> task, paused |-> task.paused, last |-> FALSE]

-----------------------------------------------------------------------------
(* Procedures                                                              *)
-----------------------------------------------------------------------------
(* registerCronTask and persistCronTask: the scheduler, the row and the    *)
(* configuration at once, the row again when the file is written.          *)
Define(n, task) ==
  /\ sched' = [sched EXCEPT ![n] = Registration(task)]
  /\ Upsert(n, task)
  /\ SetConfig([config EXCEPT ![n] = task])
  /\ StartWrites(<<Write([config EXCEPT ![n] = task], "upsert", n, task)>>)
  /\ version' = task.version
  /\ UNCHANGED <<up, tick, run, runRow, autoRow, outbox, answer>>

(* cron.add looks for the name in the scheduler, where a task that was     *)
(* disabled at the start is missing.                                       *)
CronAdd(n, id, flavour) ==
  /\ Idle /\ sched[n] = None
  /\ id \notin usedIds /\ version < MaxEdits
  /\ usedIds' = usedIds \union {id}
  /\ Define(n, [id |-> id, version |-> version + 1, oneShot |-> flavour.oneShot,
                once |-> flavour.once, enabled |-> TRUE, paused |-> FALSE])

(* cron.update looks for it in the configuration, and registers the new    *)
(* definition, with whatever schedule, even if it is disabled.             *)
CronUpdate(n, flavour, switch) ==
  /\ Idle
  /\ config[n] # None /\ version < MaxEdits
  /\ Define(n, [id |-> config[n].id, version |-> version + 1, oneShot |-> flavour.oneShot,
                once |-> flavour.once, enabled |-> switch.enabled, paused |-> switch.paused])
  /\ UNCHANGED usedIds

(* cron.pause and cron.resume. *)
CronPause(n, paused) ==
  LET new == IF config[n] = None THEN config ELSE [config EXCEPT ![n].paused = paused] IN
  /\ Idle /\ sched[n] # None
  /\ sched' = [sched EXCEPT ![n].paused = paused]
  /\ SetConfig(new)
  /\ StartWrites(<<Write(new, IF config[n] = None THEN "nothing" ELSE "upsert", n, new[n])>>)
  /\ Edit
  /\ UNCHANGED <<up, tick, run, storeVars, answer, usedIds>>

(* removeCronTaskFromConfig, up to the write. *)
Without(n) == [config EXCEPT ![n] = None]

RemoveFromConfigOnly(n) ==
  /\ Idle /\ sched[n] # None
  /\ SetConfig(Without(n))
  /\ StartWrites(<<Write(Without(n), "delete", n, None)>>)
  /\ Edit
  /\ UNCHANGED <<up, sched, tick, run, storeVars, answer, usedIds>>

CronRemove(n) ==
  /\ Idle /\ sched[n] # None
  /\ sched' = [sched EXCEPT ![n] = None]
  /\ SetConfig(Without(n))
  /\ StartWrites(<<Write(Without(n), "delete", n, None)>>)
  /\ Edit
  /\ UNCHANGED <<up, tick, run, storeVars, answer, usedIds>>

(* set-api-key saves the configuration as it is; webhookTask.add, update   *)
(* and remove and a finished webhook call build a new automation object.   *)
SaveSettings(unshare) ==
  /\ Idle
  /\ aliased' = (aliased /\ ~unshare)
  /\ StartWrites(<<[content |-> config, then |-> NoThen]>>)
  /\ Edit
  /\ UNCHANGED <<up, config, base, disk, sched, tick, run, storeVars, answer, usedIds>>

(* The model router saves its state into the configuration of start-up.    *)
SaveModels ==
  /\ Idle
  /\ config' = base /\ aliased' = TRUE
  /\ StartWrites(<<[content |-> base, then |-> NoThen]>>)
  /\ Edit
  /\ UNCHANGED <<up, base, disk, sched, tick, run, storeVars, answer, usedIds>>

(* A write has ended, in whatever order, and its caller goes on.  The file *)
(* holds what the newest one wrote until an older one ends after it.       *)
WriteEnds(i) ==
  LET then == writes[i].then IN
  /\ Idle
  /\ disk' = writes[i].content
  /\ writes' = RemoveAt(writes, i)
  /\ newest' = IF newest = "saving" THEN IF i = Len(writes) THEN "saved" ELSE "saving" ELSE "lost"
  /\ CASE then.do = "upsert"  -> Upsert(then.name, then.task) /\ UNCHANGED autoRow
       [] then.do = "delete"  -> DeleteRow(then.name)
       [] then.do = "nothing" -> UNCHANGED <<row, autoRow>>
  /\ UNCHANGED <<up, config, base, aliased, sched, tick, run, runRow, outbox, answer, drawnVars>>

(* A write has failed, and its caller gives up: memory and scheduler have  *)
(* changed already.                                                        *)
WriteFails(i) ==
  /\ Idle
  /\ writes' = RemoveAt(writes, i)
  /\ newest' = IF newest = "saving" /\ i = Len(writes) THEN "lost" ELSE newest
  /\ UNCHANGED <<up, config, base, aliased, disk, sched, tick, run, storeVars, answer, drawnVars>>

-----------------------------------------------------------------------------
(* The scheduler                                                           *)
-----------------------------------------------------------------------------
TickStarts(k) ==
  /\ Idle /\ tick[k].pc = "idle"
  /\ tick' = [tick EXCEPT ![k].pc = "walking"]
  /\ UNCHANGED <<up, configVars, sched, run, storeVars, answer, drawnVars>>

Begin(r, n, by) ==
  /\ run[r].pc = "free"
  /\ sched' = [sched EXCEPT ![n].last = TRUE]
  /\ run' = [run EXCEPT ![r] = [pc |-> "preparing", name |-> n, task |-> sched[n].task,
                                by |-> by, attempt |-> 1]]

(* The walk reaches a task that is due.  When a recurring one is due is    *)
(* left open; one of scheduleKind once is not after its first run.         *)
TickRuns(k, n, r) ==
  /\ up /\ tick[k].pc = "walking"
  /\ sched[n] # None
  /\ sched[n].task.version \notin tick[k].seen
  /\ ~sched[n].paused
  /\ sched[n].task.once => ~sched[n].last
  /\ Begin(r, n, k)
  /\ tick' = [tick EXCEPT ![k].pc = "running", ![k].seen = @ \union {sched[n].task.version}]
  /\ UNCHANGED <<up, configVars, storeVars, answer, drawnVars>>

(* One-shot tasks are dropped, by name, when the walk has ended. *)
TickEnds(k) ==
  /\ up /\ tick[k].pc = "walking"
  /\ sched' = [n \in Name |-> IF n \in tick[k].ended THEN None ELSE sched[n]]
  /\ tick' = [tick EXCEPT ![k] = NoTick]
  /\ UNCHANGED <<up, configVars, run, storeVars, answer, drawnVars>>

(* cron.run *)
CronRun(n, r) ==
  /\ Idle /\ sched[n] # None
  /\ Begin(r, n, None)
  /\ UNCHANGED <<up, configVars, tick, storeVars, answer, drawnVars>>

-----------------------------------------------------------------------------
(* The handler of a task                                                   *)
-----------------------------------------------------------------------------
ToPhase(r, phase) == run' = [run EXCEPT ![r].pc = phase]

(* onComplete: a one-shot task leaves the configuration. *)
LeaveUnsaved(r, jobs) ==
  LET n == run[r].name IN
  IF run[r].task.oneShot
  THEN SetConfig(Without(n)) /\ StartWrites(jobs \o <<Write(config, "delete", n, None)>>)
  ELSE StartWrites(jobs) /\ UNCHANGED <<config, base, aliased, disk>>

Leave(r, jobs) ==
  LET n == run[r].name IN
  IF run[r].task.oneShot
  THEN SetConfig(Without(n)) /\ StartWrites(jobs \o <<Write(Without(n), "delete", n, None)>>)
  ELSE StartWrites(jobs) /\ UNCHANGED <<config, base, aliased, disk>>

(* The tick goes on, also after a handler that threw. *)
Walking(k, ended) == [tick EXCEPT ![k].pc = "walking", ![k].ended = @ \union ended]

ContinueIfSaved(r, jobs) ==
  tick' = IF run[r].by = None \/ jobs = <<>> THEN tick
          ELSE Walking(run[r].by, IF run[r].task.oneShot THEN {run[r].name} ELSE {})

Continue(r, jobs) ==
  tick' = IF run[r].by = None THEN tick
          ELSE Walking(run[r].by, IF run[r].task.oneShot THEN {run[r].name} ELSE {})

(* The scheduler after the handler, which has saved its result with jobs   *)
(* or has thrown: a one-shot task is dropped now or at the tick's end.     *)
Return(r, jobs) ==
  /\ ToPhase(r, "done")
  /\ Leave(r, jobs)
  /\ Continue(r, jobs)
  /\ sched' = IF run[r].task.oneShot /\ run[r].by = None
              THEN [sched EXCEPT ![run[r].name] = None] ELSE sched
  /\ UNCHANGED <<up, outbox, answer, drawnVars>>

(* The prompt cannot be built, and the handler throws. *)
PreparationFails(r) ==
  /\ Idle /\ run[r].pc = "preparing"
  /\ Return(r, <<>>)
  /\ UNCHANGED <<row, runRow, autoRow>>

(* The prompt is built; the attempt gets its run and, if the task still    *)
(* has its row, its automation run.  Without the row the foreign key       *)
(* fails, outside the try block.                                           *)
StartAttempt(r) ==
  /\ Idle /\ run[r].pc = "preparing"
  /\ runRow' = [runRow EXCEPT ![r] = "running"]
  /\ IF row[run[r].task.id] # None
     THEN /\ autoRow' = [autoRow EXCEPT ![r] = "running"]
          /\ ToPhase(r, "chatting")
          /\ UNCHANGED <<up, configVars, sched, tick, outbox, answer, drawnVars>>
     ELSE Return(r, <<>>) /\ UNCHANGED autoRow
  /\ UNCHANGED row

(* finishRun and finishAutomationRun: the one leaves a run alone that is   *)
(* not running, the other writes into the row there is.                    *)
Finish(r, status) ==
  runRow' = IF runRow[r] = "running" THEN [runRow EXCEPT ![r] = status] ELSE runRow

Settle(r, status) ==
  autoRow' = IF autoRow[r] # "none" THEN [autoRow EXCEPT ![r] = status] ELSE autoRow

(* The attempts of an execution are over; its answer is delivered through  *)
(* the outbox if the task has a connector and the answer is not blank.     *)
Deliver(r) ==
  \/ ToPhase(r, "logging") /\ UNCHANGED <<outbox, answer>>
  \/ /\ ToPhase(r, "delivering")
     /\ outbox' = outbox \union {r}
     /\ answer' = [answer EXCEPT ![r] = "due"]

MoreAttempts(r) == run[r].attempt < MaxAttempts

(* The agent ends or throws: both rows are finished. *)
EndAttempt(r, status) ==
  /\ Idle /\ run[r].pc = "chatting"
  /\ Finish(r, status) /\ Settle(r, status)
  /\ IF status = "error" /\ MoreAttempts(r)
     THEN ToPhase(r, "sleeping") /\ UNCHANGED <<outbox, answer>>
     ELSE Deliver(r)
  /\ UNCHANGED <<up, configVars, sched, tick, row, drawnVars>>

(* They are finished, too, when archiving the session then throws: out of  *)
(* the finally block and the handler, without a retry or a delivery.       *)
ArchivingFails(r, status) ==
  /\ Idle /\ run[r].pc = "chatting"
  /\ Finish(r, status) /\ Settle(r, status)
  /\ Return(r, <<>>)
  /\ UNCHANGED row

Retry(r) ==
  /\ Idle /\ run[r].pc = "sleeping"
  /\ run' = [run EXCEPT ![r].pc = "preparing", ![r].attempt = @ + 1]
  /\ UNCHANGED <<up, configVars, sched, tick, storeVars, answer, drawnVars>>

(* The notify tool reaches the connector. *)
Notify(r) ==
  /\ Idle /\ run[r].pc = "delivering"
  /\ answer' = [answer EXCEPT ![r] = "arrived"]
  /\ ToPhase(r, "notified")
  /\ UNCHANGED <<up, configVars, sched, tick, storeVars, drawnVars>>

(* dispatchAutomationDeliveryOutbox with the id of this message, the only  *)
(* way it is called: a message that fails stays in the outbox, even if it  *)
(* arrived and only its confirmation failed.                               *)
AckAnyway(r, sent) ==
  /\ Idle /\ run[r].pc \in {"delivering", "notified"}
  /\ sent => run[r].pc = "notified"
  /\ outbox' = outbox \ {r}
  /\ ToPhase(r, "logging")
  /\ UNCHANGED <<up, configVars, sched, tick, row, runRow, autoRow, answer, drawnVars>>

EndDelivery(r, sent) ==
  /\ Idle /\ run[r].pc \in {"delivering", "notified"}
  /\ sent => run[r].pc = "notified"
  /\ outbox' = IF sent THEN outbox \ {r} ELSE outbox
  /\ ToPhase(r, "logging")
  /\ UNCHANGED <<up, configVars, sched, tick, row, runRow, autoRow, answer, drawnVars>>

(* The log is written.  updateCronTaskState saves the configuration, to    *)
(* write the row from it later; the handler writes the row from the task   *)
(* it was registered with and returns.                                     *)
SaveResult(r) ==
  LET n == run[r].name IN
  /\ Idle /\ run[r].pc = "logging"
  /\ Upsert(n, run[r].task)
  /\ Return(r, <<Write(config, IF config[n] = None THEN "nothing" ELSE "upsert", n, config[n])>>)
  /\ UNCHANGED <<runRow, autoRow>>

-----------------------------------------------------------------------------
(* The process ends and starts again                                       *)
-----------------------------------------------------------------------------
Crash ==
  /\ up /\ up' = FALSE
  /\ config' = [n \in Name |-> None] /\ base' = config' /\ aliased' = TRUE
  /\ writes' = <<>> /\ newest' = "saved"
  /\ sched' = [n \in Name |-> None]
  /\ tick' = [k \in Tick |-> NoTick]
  /\ run' = [r \in Run |-> IF Alive(r) THEN [run[r] EXCEPT !.pc = "done"] ELSE run[r]]
  /\ UNCHANGED <<disk, storeVars, answer, drawnVars>>

Blocked == \E n \in Name : disk[n] # None /\ NameTaken(n, disk[n])

Interrupt(rows) == [r \in Run |-> IF rows[r] = "running" THEN "interrupted" ELSE rows[r]]

(* syncCronDefinition gives the tasks of config.json their rows. *)
Restore(names) ==
  row' = [i \in Id |->
    IF \E n \in names : disk[n].id = i
    THEN LET n == CHOOSE m \in names : disk[m].id = i
         IN  [name |-> n, version |-> disk[n].version, paused |-> disk[n].paused]
    ELSE row[i]]

RestartWithoutSweep ==
  /\ ~up /\ ~Blocked /\ up' = TRUE
  /\ config' = disk /\ base' = disk /\ aliased' = TRUE
  /\ Restore({n \in Name : disk[n] # None})
  /\ sched' = [n \in Name |->
       IF disk[n] # None /\ disk[n].enabled THEN Registration(disk[n]) ELSE None]
  /\ runRow' = Interrupt(runRow)
  /\ UNCHANGED <<disk, writes, newest, tick, run, autoRow, outbox, answer, drawnVars>>

(* markInterruptedState and restoreFromRuntimeConfig: every task of the    *)
(* file gets its row, the enabled ones are registered.                     *)
Restart ==
  /\ ~up /\ ~Blocked /\ up' = TRUE
  /\ config' = disk /\ base' = disk /\ aliased' = TRUE
  /\ Restore({n \in Name : disk[n] # None})
  /\ sched' = [n \in Name |->
       IF disk[n] # None /\ disk[n].enabled THEN Registration(disk[n]) ELSE None]
  /\ runRow' = Interrupt(runRow) /\ autoRow' = Interrupt(autoRow)
  /\ UNCHANGED <<disk, writes, newest, tick, run, outbox, answer, drawnVars>>

(* A name that is taken makes the start fail on the way. *)
StartFails ==
  /\ ~up /\ Blocked
  /\ \E names \in SUBSET {n \in Name : disk[n] # None /\ ~NameTaken(n, disk[n])} : Restore(names)
  /\ runRow' = Interrupt(runRow) /\ autoRow' = Interrupt(autoRow)
  /\ UNCHANGED <<up, configVars, sched, tick, run, outbox, answer, drawnVars>>

-----------------------------------------------------------------------------
RunStep(r) ==
  \/ PreparationFails(r) \/ StartAttempt(r)
  \/ EndAttempt(r, "success") \/ EndAttempt(r, "error")
  \/ ArchivingFails(r, "success") \/ ArchivingFails(r, "error") \/ Retry(r)
  \/ Notify(r) \/ EndDelivery(r, TRUE) \/ EndDelivery(r, FALSE) \/ SaveResult(r)

Next ==
  \/ \E n \in Name :
       \/ \E id \in Id, f \in Flavour : CronAdd(n, id, f)
       \/ \E f \in Flavour, s \in Switch : CronUpdate(n, f, s)
       \/ CronPause(n, TRUE) \/ CronPause(n, FALSE) \/ CronRemove(n)
       \/ \E r \in Run : CronRun(n, r)
       \/ \E k \in Tick, r \in Run : TickRuns(k, n, r)
  \/ SaveSettings(TRUE) \/ SaveSettings(FALSE) \/ SaveModels
  \/ \E i \in DOMAIN writes : WriteEnds(i) \/ WriteFails(i)
  \/ \E k \in Tick : TickStarts(k) \/ TickEnds(k)
  \/ \E r \in Run : RunStep(r)
  \/ Crash \/ Restart \/ StartFails

Spec == Init /\ [][Next]_vars
=============================================================================
