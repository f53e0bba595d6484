--------------------------- MODULE CronProperties ---------------------------
(***************************************************************************)
(* What the four copies of a scheduled task, its executions and their rows *)
(* owe each other.                                                         *)
(***************************************************************************)
EXTENDS CronTasks

(* Whatever has changed the tasks - a procedure, a handler that has ended, *)
(* a change of other settings - has handed config.json the configuration   *)
(* as it is now: it is in the newest write, and then in the file, unless   *)
(* that write has failed or an older one has overwritten it.               *)
ConfigurationIsSaved ==
  /\ up /\ newest = "saving" => writes # <<>> /\ writes[Len(writes)].content = config
  /\ up /\ newest = "saved" => disk = config

(* A run listed as running has a handler that will finish it, and so has   *)
(* its automation run, whatever edits, retries, crashes and starts came    *)
(* between.  One exception: an attempt on a task without a row dies on the *)
(* foreign key, between the two records.                                   *)
RunningRowsHaveHandlers ==
  up => \A r \in Run :
    /\ autoRow[r] = "running" => run[r].pc = "chatting"
    /\ runRow[r] = "running" => run[r].pc = "chatting" \/ (run[r].pc = "done" /\ autoRow[r] = "none")

(* The tasks there are, also while the process is down. *)
Current == IF up THEN config ELSE disk

(* What the abstract book shows of a task, and of an execution's task. *)
Definition == [id: Id, version: Version, oneShot: BOOLEAN]

ASSUME DefinitionAssumption == None \notin Definition \union [name: Name, definition: Definition]

Defined(task) ==
  IF task = None THEN None ELSE [id |-> task.id, version |-> task.version, oneShot |-> task.oneShot]

Page(tasks) == [n \in Name |-> Defined(tasks[n])]

Started(r) ==
  IF run[r].pc = "free" THEN None ELSE [name |-> run[r].name, definition |-> Defined(run[r].task)]

(* The abstract book of tasks: configuration and file for the definitions, *)
(* what is being written for the drafts, scheduler and ticks for the       *)
(* schedule, handlers for executions, automation_runs for their records.   *)
Pending   == {writes[i] : i \in DOMAIN writes}
TheBook   == Page(Current)
Drafts    == IF up THEN {Page(config), Page(base)} \union {Page(job.content) : job \in Pending} ELSE {}
OnFile    == Page(disk)
Schedule  == [n \in Name |-> IF sched[n] = None THEN None ELSE Defined(sched[n].task)]
Removed   == {job.then.name : job \in {j \in Pending : j.then.do = "delete"}}
Leaving   == Removed \union UNION {tick[k].ended : k \in Tick}
UnderWay  == {r \in Run : Alive(r)}
StartedAs == [r \in Run |-> Started(r)]

Book == INSTANCE TaskBook WITH
  book <- TheBook, drafts <- Drafts, saved <- OnFile, due <- Schedule, leaving <- Leaving,
  open <- UnderWay, task <- StartedAs, record <- autoRow

(* Scheduler, configuration, file, rows and handlers together act as one   *)
(* book of tasks, whatever overlaps, fails or crashes: config.json and     *)
(* what comes back from it are whole, no edit, write or tick loses or      *)
(* revives a task another way than TaskBook allows, and no record is lost  *)
(* with its task still there, settled twice, or left running by a start.   *)
BookIsKept == Book!Spec

(* An answer that is to be delivered has arrived or is still in the        *)
(* outbox, also after a failed delivery or a crash.                        *)
AnswersAreKept == \A r \in Run : answer[r] = "due" => r \in outbox

-----------------------------------------------------------------------------
(* The node can always start again: no row keeps the name of a task of     *)
(* config.json for another id, so restoreFromRuntimeConfig does not throw. *)
NodeCanStart == ~up => ~Blocked

(* The agent and the connector answer, files are written, timers fire and  *)
(* the service manager tries to start the node again.  Ticks a minute apart leave  *)
(* the event loop time for everything else, hence SF.                      *)
Fairness ==
  /\ WF_vars(Restart \/ StartFails)
  /\ SF_vars(\E i \in DOMAIN writes : WriteEnds(i) \/ WriteFails(i))
  /\ \A k \in Tick : WF_vars(TickEnds(k))
  /\ \A r \in Run :
       /\ SF_vars(StartAttempt(r) \/ PreparationFails(r))
       /\ SF_vars(\E status \in {"success", "error"} : EndAttempt(r, status) \/ ArchivingFails(r, status))
       /\ SF_vars(Retry(r))
       /\ SF_vars(EndDelivery(r, TRUE) \/ EndDelivery(r, FALSE))
       /\ SF_vars(SaveResult(r))

FairSpec == Spec /\ Fairness

(* Every automation run is settled in the end, by its handler, by the      *)
(* removal of its task, or by the sweep of the next start.                 *)
EveryAutomationRunSettles == \A r \in Run : autoRow[r] = "running" ~> autoRow[r] # "running"

(* A tick ends, so that the one-shot tasks it has run leave the scheduler. *)
EveryTickEnds == \A k \in Tick : tick[k].pc # "idle" ~> tick[k].pc = "idle"
=============================================================================
