# Aria node: TLA+ specifications

Aria is a node that runs conversations with a language model on behalf of
clients (a terminal, a desktop application, chat services). The gateway accepts
their requests, an agent drives the model and its tools, an operator approves
the dangerous ones, and a SQLite store remembers runs, calls, approvals and
messages. These modules specify what happens when all of that overlaps.

## 1. Inventory

| Part | State it keeps | Operations that change it | Hard behaviour |
| --- | --- | --- | --- |
| `gateway` (procedures) | approval tokens; through the coordinator: agents, active runs, pending approvals, questions and escalations | `chat.stream`, `stop`, `stopAll`, `session.destroy`, `tool.approve`, `question.answer`, `escalation.respond`, cron, dispatch, webhook, heartbeat, `engine.shutdown`/`restart` | handlers interleave at awaits; a generator may be abandoned at any yield; timers; shutdown during turns |
| `gateway` (auth, server) | session tokens, pairing code, failed attempts; token and url file | pair, validate, revoke, init, cleanup, bind | expiry, attempt limits; two engines' cleanups of one file |
| `server` (coordinator) | the maps above, security overrides | read and written by the gateway's handlers | shared without locks |
| `server` (checkpoints) | marks of a turn, shadow git repositories | `newTurn`, `snapshot`, `restore` | one manager for all sessions and sub-agents; a repository half made |
| `server` (config) | config.json | `writeConfigFile` | writes overlap and end in any order |
| `agent` | messages, abort controller, loop detector; orchestrator: running, queued, cancelled sub-agents | `chat`, `abort`, spawn, cancel, cleanup | overlapping turns of one agent, retries, ten-minute timer, slots and queue |
| `harness` | history, the runtime agent | `chat`, `abort`, decisions for tools | options bound at the first chat |
| `policy`, `capability` | security mode per session | decisions, one execution | three tables that have to agree |
| `persistence` | sessions, messages, runs, tool calls, approvals, automation tasks and runs, project work, authentication | one statement or transaction per operation; sweep at start | guarded and unguarded updates, crash between two operations, several processes on one file |
| `kernel` | idempotency store, outbox, workflow queue | execute, enqueue, drain, ack | check-then-act across awaits |
| `node-runtime` | command handlers over the store | commands with idempotency keys | keys that make a repeated call a no-op |
| `automation` | scheduler tasks and due times, task records, attempts, deliveries | register, tick, run, retry, deliver, pause | ticks overlap runs; records saved after removal |
| `jobs`, `handoff`, `work` | projects' tasks, threads, handoffs, dispatches, results | submit, materialize, plan, queue, run, accept, report, cancel | the engine and CLI processes write the same rows; a crash between two of them |
| `node-host`, `aria-node`, `cli` | pid, url, token and restart files; signals | start, stop, restart, ensure, boot, shut down | two starters, stale files, a restart by marker |
| `access-client`, `aria-desktop` | two copies of the chat: the controller's and the shell's | bootstrap, open, create, archive, send, answer, stop; events of turns | the second copy follows the events, then is replaced by the first |
| `connectors` | pending questions and approvals of a thread, a stream handler per answer; a WeChat cursor | messages, buttons, events, writes to the service; fetch, save, handle | handlers overlap, writes fail, a runner dies between fetching and handling |
| `console` | React state | the event stream | as `ChatScreen`, in one place |
| `memory`, `tools`, `prompt`, `audit`, `sandbox*`, `workspaces`, `protocol`, `runtime` | files, records | request and answer | see section 6 |

What makes the parts correct:

- *chat*: every run is settled exactly once; nothing runs without the approval
  the tables ask for; nobody waits on a promise that cannot be settled; a stop
  stops; a finished turn is not lost; a shutdown leaves nothing behind.
- *automation*: a due task runs, not twice; a removed task stays removed; an
  answer to be delivered is delivered.
- *project work*: what is started is settled; a handoff is queued once; a
  cancelled dispatch stays cancelled; the planner does not plan one task twice.
- *tools*: what an agent changes can be undone, excluded files stay out of the
  snapshots, no more sub-agents than allowed, none queued for ever.
- *home*: one engine at most, found by its files, with a token that it accepts.
- *screen*: what is shown is the session's conversation; what the engine waits
  for is asked.
- *connectors*: a thread gets the whole answer once; a reply meets the question
  it is for; a message to the account is handled, once.

Interaction: a client calls the gateway over WebSocket or HTTP (in tests also in
process); the gateway calls the harness, which calls the agent; the agent calls
back for approvals, questions and executions, and yields events that travel
back through the gateway's generator to the client. `stop`, `approve`, `answer`
and the shutdown reach the same maps from other requests. All of them write to
the store through the node runtime. The desktop application and the connectors
are clients of the gateway; the CLI and the engine are processes over one home
directory and one store.

## 2. Modules

| Component module | What it is | Properties | Instances | Proofs |
| --- | --- | --- | --- | --- |
| `ApprovalPolicy` | the decision tables: intent of a call, whether it needs an approval, whether the request is announced | | | |
| `RunLedger` | abstract: what the store promises of runs and approvals | | | |
| `ChatTurns` | the chat turns: gateway, coordinator, harness, agent, broker and store as one system | `ChatProperties`, with the refinement of `RunLedger` | `MCChat` | `ChatProofs`, `ChatSerialProofs` |
| `TaskBook` | abstract: what automation promises of the life of a task | | | |
| `CronTasks` | scheduled tasks: procedures, scheduler, handlers, configuration, rows, outbox, start | `CronProperties`, with the refinement of `TaskBook` | `MCCron` | `CronProofs` |
| `Dispatches` | project work: handoffs, threads, dispatches, executions, planner, in several processes | `DispatchProperties` | `MCDispatch` | `DispatchProofs` |
| `SessionTools` | sub-agents and checkpoints, which sessions' tools share | `SessionToolsProperties` | `MCTools` | `SessionToolsProofs` |
| `EngineHome` | the processes and files of a home | `EngineHomeProperties` | `MCHome` | `EngineHomeProofs` |
| `ChatScreen` | the chat of the desktop application | `ChatScreenProperties` | `MCScreen` | `ScreenProofs` |
| `Connectors` | a thread of a chat service, and the runner of a WeChat account | `ConnectorProperties` | `MCConnector` | `ConnectorProofs` |

Each component module abstracts the others to what it meets of them: `ChatScreen`
and `Connectors` see a turn of `ChatTurns` as its events, its waits and its end,
`Dispatches` sees it as an execution, `EngineHome` as an engine that is busy.
Variables of a component carry the names of the code's fields and tables where
these are words; actions carry the names of procedures and methods, or of what
happens to them (a crash, a timer, a write that ends). A few definitions beside
an action (`RemoveFromConfigOnly`, `FinalizeStillActive`, ...) are not part of any
`Next`: each is the action with one plausible mistake, and says which mistake the
property listed for it would reveal.

### ChatTurns

One state machine for everything a turn meets. A *turn* is one request of a
client (its run, its generator, its abort controller); an agent is named by the
turn that created it. `sessionAgent`, `activeRun`, `resolvers`, `meta` and
`questions` are the coordinator's maps; `capability` and `preapproved` the two
token sets of the gateway; `controller` and `agentLog` belong to the agents;
`runRow`, `callRow`, `approvalRow` and `transcript` are the store's tables. `pc`
says where a turn's generator is suspended: `creating` (createHarnessSession),
`ready` (prompt and context), `streaming` (the model), `tools` (between two
calls), `offered` (a request or question yielded, not yet pulled), `waiting` (a
promise), `executing` (a tool), `ending` (the last event), `done`.

*Grain.* The store is synchronous, so an await on it yields only microtasks, and
a handler is one action up to its first await on something outside the process.
A settled promise is continued (the `Wake` actions) before the event loop takes
the next event: `Quiet` in the guard of every other action. The windows
`offered` and `ending` last as long as the transport does not pull: not at all
over WebSocket, where the server pulls at once, and until the reader is ready
over HTTP and in process.

*History.* `executed`, `userApproved`, `refused` and `stopped` record what
happened, for the properties.

*Abstractions.* A call's arguments are its `Shape` (what the tables look at) and
its `IntentKey` (what the token is filed under). The loop detector may block any
call; its circuit breaker is left out, because blocked calls are not counted and
no count gets from the block at 20 to the break at 30. Retries are not bounded.
Events, audit entries, prompts and texts are left out, as are escalations, which
no code of this commit registers.

### CronTasks

A scheduled task lives in four places: `config` (the automation section in
memory), `disk` (config.json), `sched` (the scheduler's registrations) and `row`
(automation_tasks). `cron.add` and `cron.update` change the first, third and
fourth at once and the file when their `writeFile` ends (`writes`, in any order);
what the procedure does after that write (`then`) is part of `WriteEnds`, or never
happens (`WriteFails`). A tick (`tick`) walks over the registrations and awaits each
handler; a handler (`run`)
prepares, opens its two rows, lets the agent work, retries, delivers through the
outbox, logs, saves and returns. `base` is the configuration the model router
remembers from the start, `aliased` says whether it still shares the automation
object with the current one. A crash keeps `disk`, the rows and the outbox;
`Restart` is the sweep and `restoreFromRuntimeConfig`, `StartFails` the same when
an upsert throws on `UNIQUE(task_type, name)`.

A task is its id, version (a definition made by add or update), flavour
(`oneShot`, and `once` for scheduleKind once), `enabled` and `paused`; an update may
give it any schedule. Whether a
recurring task is due is a choice, so a tick may run any registration it has not
seen; so is whether a task has a connector and whether the answer is blank. An
upsert that throws in the background is reported by bun and the process goes on.
`run`, `runRow` and `autoRow` describe an execution's last attempt; the archiving
after its records may throw (`ArchivingFails`). `newest` is history: where the
newest write of this start has got. Nothing keeps operators, handlers, settings or
crashes apart: all of them overlap. Not modelled:
the heartbeat, webhook executions (only what their saves do to the configuration),
files torn by a crash, idempotency keys of upserts.

`TaskBook` says what all this is to amount to: one book of definitions, the books
that are being saved or remembered (`drafts`), the one on file, the schedule, the
names that are leaving it, the executions under way with the definition each began
with, and their records. `CronProperties` reads it off: the definitions from
`config` (from `disk` while the process is down), the drafts from `config`, `base`
and `writes`, the file from `disk`, the schedule from `sched`, the executions from
`run`, the records from `autoRow`. It demands that what is saved, or comes back by a
change of settings or a start, is a whole book there has been; that a new task has
an id and a new definition a version that nothing else uses; that a name leaves the
schedule only by a removal, an ended one-shot or a start; that an execution keeps
the definition it began with; and that a record is opened anew by each attempt,
settled by it or the next start, and goes only with all records of its removed task.
It allows what the code does wrong: an older book may come back (a model switch, a
write that ends late, a crash before a write), and a one-shot that has ended takes
the name from a task that has it by now.

### Dispatches

The rows of aria.db that project work consists of: `task`, `thread`, `dispatch`,
`handoff`, `artifact` (results). The engine and every command of the CLI are
processes that write them. An operation that goes on writing what it has read or
decided before leaves its statements in `todo` of its process, and `Write` makes
them one at a time, so that other processes, and a crash, come in between; in the
engine nothing comes between the statements of one synchronous section. `exec` is
a run of the dispatch runner, from the claim of the dispatch over the agent's
turn to the results. `lapse` records what nothing in the code protects the rows
from: `crash` (a process died in the middle of something), `overlap` (exactly two
plans at once, two processes serving one handoff at once, or a cancellation between
an execution's look at the dispatch and its write), `again` (a dispatch that is no
longer queued, or is being run, was run or queued once more); properties say which
of these they exclude. Any other interleaving of the processes' statements is no
lapse. The planner is the command `projects queue` (`projects.ts:1133`, `:1149`), so
`PlanQueue` is an action of CLI processes only.

Left out: job and binding records (written, never read by these operations);
which of a planner's limits applies (any number is planned); a dispatch's
approvals but one. Nothing in the code moves a thread out of "queued" after its
execution, and the model does not either.

### SessionTools

`queue`, `running`, `cancelled` and `spawned` are the orchestrators' collections,
one orchestrator per session; `phase`, `owner` and `sync` follow the sub-agents.
`marked`, `repo` and `snaps` are the one checkpoint manager of the process: the
directories marked in this turn, the shadow repositories and what they keep;
`tree` is what the directories contain. An agent's tool call marks, creates the
repository over two awaits, snapshots and then changes the directory (`BeginCall`);
or it changes the directory without any of that (`BareCall`): the harness's `bash`, a
`write` or `edit` that names its file `path`, an `exec` whose command does not match,
any tool when checkpoints are disabled. `NewTurn` and `EndTurn` bound a turn.
`touched`, `alone`, `idled` and `torn` are history: what properties except.

Left out: result texts; more than one turn of a session at a time; changes of a
directory by programs that are not tools. `Cancel` is a method of the orchestrator
that only tests call at this commit; it is an action because the class offers it.
Its `cleanup`, which only tests call too, is not modelled.

### EngineHome

`pidFile`, `urlFile`, `tokenFile` and `marker` are the files of a home, `port` who
listens. A process goes through the stages of `life`; a command of the CLI that
opens a runtime of its own is a process too. `cmd` is what users and programs that
give commands are in the middle of: look at the pid, wait for the engine, signal
it, wait for its death, clean up, spawn another. `busy` and `recorded` are an
engine's run under way and its row: a second process that opens the store sweeps
the row. Not modelled: a pid used again by another program, files that disappear
between a look and a removal, connectors that fail to start; the url is written
with the bind.

### ChatScreen

The desktop application keeps two copies of a chat: the access client's controller
(`ctl`) loads histories and makes the calls, the service (`shell`) follows the
events of turns (`wire`) and takes over the controller's copy after each call.
`call` is what each call of the renderer is waiting for; a call continues at its
next await. `turn`, `history` and `known` are the engine as the application meets
it. `since`, `doubt`, `faltered` and `missed` are history: they name what the code
does not protect the screen from, see the disagreements below.

Left out: notices and the order of items; that the engine's acceptance of a
message takes time; lost websocket connections; connectors' sessions; equal
answer texts, which the service would merge.

### Connectors

One thread of a Chat SDK platform and the runner of one WeChat account. Messages
of users (`said`) start turns, answer questions, give verdicts, press buttons or
stop; `at` is how far the adapter's handler is with one. `reply` is a stream
handler: the text so far, its lock, the write under way, and what the thread
shows. `request` is how far the asking of a request has come; the two `pending`
fields are the adapter's. A write that fails may still have reached the platform:
then the first message is sent a second time (`unheard` counts those). `runner`
fetches a batch from `log`, saves its cursor (`saved`) and handles the batch one by
one.

Left out: which session a thread has, `/new` and the commands on models and on the
engine; that short approval ids may be equal; the text of a message (n pieces fill
n/ChunkSize messages); the login to WeChat. `complete` without `done` is an error.

## 3. Runs

Every run but `CronStart`, which shows a violation, ends without an error; counts
are distinct states.

| Run | Instance | States | What it shows |
| --- | --- | --- | --- |
| `ChatSerial` | one session, two turns one after the other, a call to approve and one nobody has to approve | 571,176 | active runs are running; what ran has an approved row; a stop is final |
| `ChatOverlap` | a chat turn with two identical reads of the host and a question, an overlapping /rename | 314,053 | pending maps are exact; the chat's run is settled whoever took it over; what runs was approved where the tables ask for it; a grant is honoured; the ledger is implemented |
| `ChatLive` | two turns of a session that may overlap, one dangerous call, fair | 338,898 | no save drops a stored turn, and a turn under its session's agent is stored; every run is settled, every wait ends |
| `CronShared` | one name, two ids, two executions of one-shots, a tick, three edits, two writes under way, crashes | about 1.05 million | every change is handed to the file as it is; all copies together implement the book of tasks |
| `CronLive` | one task, once-only or recurring, switched on and off and replaced, two attempts, crashes, fair | 120,185 | a running row has a handler; no answer is lost; every automation run is settled, every tick ends |
| `CronStart` | the same, one attempt | (ends at the violation) | the node can not always start again: see the finding below |
| `WorkPlanned` | two dispatches on one thread and task, two CLI processes that plan, the engine beside them, one kind of lapse | 2,263,090 | the planner opens no second dispatch beside an open one |
| `WorkHandoff` | a handoff, two executions of its dispatch, engine and CLI, two kinds of lapse, fair | 1,147,792 | what is started is settled; a handoff is queued once; a cancelled dispatch stays cancelled |
| `ToolsShared` | a session, two sub-agents of which one may run, a directory, fair | 359,732 | changes of tools that ask for a checkpoint can be undone; excludes are respected; slots hold; queued sub-agents start |
| `HomeShared` | two engines, a CLI process, one who gives commands, fair | 556,706 | the engine is found; its runs are not swept; its token is accepted; restarts are asked for, and come back |
| `ScreenShared` | two sessions, two turns, two calls under way, three in all | 3,855,918 | the screen is the session's; what waits is asked |
| `ConnectorsShared` | three messages on a thread or to an account, texts of three pieces, two to a message, fair | 356,245 | answers are whole; replies meet their question, one each; messages are handled once and in the end |

*Bounds.* Chat: two turns are enough for every race over a session's agent, active
run and controller, all of which hold one turn; a third adds only another
overwriting turn. Two calls of one intent are what it takes to take another's
token; turns and calls are used once, so a run is finite without other bounds.
`SYMMETRY` exchanges the two reads; no liveness is checked under it. `Overlap` is
FALSE in `ChatSerial` only, for the one property that is about clients that wait for
the end of a turn, and each of its calls has an intent of its own: with overlapping
turns `StopIsFinal` fails, with two identical calls `RowOfExecutedIsApproved`,
because a token left by a blocked call can serve one whose row a stop has denied.
`ChatLive` has overlapping turns, and so two first turns that each create an agent:
`FinishedTurnsAreKept` holds there because a save never writes less than is stored,
and excepts the turn whose agent was replaced.

Cron: one name shows every conflict over a name, because a task meets others only
through the whole book that a write carries; two ids are a task and its replacement.
`MaxEdits` bounds the calls that change tasks or settings (three are define, remove
and define again; each definition's version is its edit's number), `MaxWrites` the
writes under way at once (two can already end in the wrong order), `MaxAttempts` is
the retry policy. `CronShared` leaves out cron.update (`Switch` is empty) and has only
first-time one-shots, the flavour for which a tick, a handler and a new definition
fight over the name; `CronLive` has the others, with updates that switch a task off
and change its schedule; the theorems hold for all of them. In `CronShared` states
that differ in the outbox and in what happened to answers only count as one (`VIEW
ButAnswers`), since no guard and none of its properties reads these; with the symmetry, how many states remain
depends a little on the order in which they are found.

Project work: a crash, an overlap or a repetition may happen, `MaxLapses` of these
kinds in one behaviour, each as often as it comes. Two processes are enough for a
statement of another to come between any two of one; `WorkPlanned` has three, two
that plan (exchanged by `SYMMETRY`) and the engine. There the only lapse whose effects
matter is a crash, since the property excepts the other two. Tools: one slot and
two sub-agents make one wait; the invariants of the proofs were also checked with
three sub-agents. Home: two engines are an old and a new one; each is used once.
Screen: `MaxCalls` bounds the renderer's calls, `FewEvents` the events on their
way, `OneStart` excludes a second start during the first. Connectors: `InOrder`
only names messages by age, `OnePlace`, `TextAlone` and `FewRequests` look at the
thread and the account, and at long texts and requests, one at a time: a stream
handler and a request touch nothing of another's. Deadlock is checked in the chat
runs; elsewhere the system may stop, when every message, execution or process of
the instance is used up.

*Fairness.* In the chat the event loop continues what is ready (weak fairness on
the steps of a turn), the provider ends its streams, tools return, timers fire, and
the process is started again after it died. These are assumptions about the
environment the code relies on: a tool or a provider that hangs is not interrupted
by the ten-minute timer, which is only looked at between tools and rounds. Clients
and operators owe nothing but to pull their stream. In `CronTasks` the steps of a
handler and the writes are strongly fair: a tick holds the event loop only for its
walk, and ticks are a minute apart, so what is ready between them runs. Elsewhere:
an execution ends (its turn's timer) and a living process makes its statements;
a sub-agent's end is strongly fair, because its timer is looked at between its
tools, and git and tools return; a process that starts or ends goes on; the
WeChat runner goes on, requests expire, turns end. Users, operators, crashes and
failures are never fair.

### What the code does against its own words

Read off the code while modelling. The models have these behaviours unless it is
said that they do not, and the properties except them by name or say less than one
would wish. A run shows one, the start that fails (`CronStart`).

Chat:
- a dangerous command outside the host is approved, then refused by the broker:
  the token is only granted to intents that need one of their own;
- with overlapping turns a stop cancels one turn's run and aborts another;
- a session destroyed while its next turn prepares its prompt (web references,
  memory) leaves a turn without an agent entry: `chat.stopAll` then cancels the
  run's row and aborts nothing, `chat.stop` refuses, and the turn goes on to its
  tools (`procedures.ts:1447` "Stop all running agents across all sessions"). The
  model counts only turns whose session is live as stopped;
- a safe read on the host waits five minutes for an approval nobody is told about
  (`procedures.ts:842`; `policy/src/policy.ts:98` "Safe tools never need approval");
- two first turns of a session each create an agent (`procedures.ts:787`; :782 "Get
  or create a harness session"); the turn whose agent is replaced is not stored
  unless it ends first;
- a shutdown misses an approval that is announced but not yet registered
  (`procedures.ts:124`; `tests/server/recovery-restart.test.ts:65`).

Automation:
- a row left by a crash or written by a late handler keeps a name, and after the
  name is used again the node cannot start (`CronStart`;
  `docs/architecture/runtime/automation.md:44` "On startup the node should restore
  scheduled and webhook triggers");
- a model switch saves the automation section of the start, without tasks defined
  after the first change of webhook tasks; writes that end out of order leave an older
  one in the file; a write that fails is heard of by its caller only;
- the end of a one-shot task drops the task that has taken its name;
- a retry that waits when the process dies is not made (`automation.ts:404`), and a
  failed delivery stays in the outbox, because nobody dispatches it again
  (`automation.ts:551`; `tests/automation-package.test.ts:67` "for recovery").

Tools:
- the orchestrator's `cancel` and `cleanup` have no caller but tests (and `cleanup` is
  not modelled); a cancelled sub-agent keeps running, a spawn after a cancellation
  overtakes the queue, and the status of a queued sub-agent is null;
- checkpoints do not know the harness's tool `bash`, a `write` or `edit` that
  names its file `path`, nor most commands (`BareCall`; `UndoIsPossible` excepts such a
  call, and what follows one is judged by what it has left); a restore leaves files
  that came later; old snapshots are not pruned; a crash between `git init` and the excludes leaves a repository
  without them for good; a sub-agent's `newTurn` clears its parent's marks.

Home:
- the defence of `auth.init` "against race with old engine cleanup" holds against a
  cleanup, or a token, before its one look, not after it;
- a restart marker that a crash leaves behind makes the next stop a restart; a
  second start that fails removes the living engine's files; the health check asks
  whoever holds the port; a shutdown that takes five seconds loses its restart; a
  CLI runtime sweeps the engine's running rows and starts a scheduler of its own.

Screen:
- every answer, approval and stop replaces the screen by the controller's copy:
  what came since the session was opened disappears until it is opened again, and
  the turn no longer counts as under way; changing the session during a turn puts
  its events into the other session's chat;
- a session that is opened while its turn waits does not show the request, one that
  expired or was answered elsewhere stays; "accept for session" approves once.

Connectors:
- approval ids are cut to eight characters and kept for all threads together;
  choices and approvals count as pending only after their post; a free question
  whose post failed or that expired takes the next message;
- `acknowledged: false` is ignored; approval requests reach WeChat only after the
  turn has ended; the cursor is saved before the batch is handled, so a failure or
  a crash loses the rest; a failed last edit, or an error, leaves the text cut; a
  retry after a provider's error repeats what was streamed; a first message that
  was taken while its call failed is sent again;
- all threads of a channel share the latest session, two first messages may create
  two, and one archived elsewhere fails until `/new`.

## 4. Theorems

Every theorem holds for all values of the constants that satisfy the named
assumptions (`ConstantsAssumption`, `PolicyAssumption`, `CronAssumption`,
`NoneAssumption`, `DefinitionAssumption`, `DispatchAssumption`, `StatusAssumption`,
`NoRowAssumption`, `ToolsAssumption`, `HomeAssumption`, `NamesAreNotNone`,
`MaxCallsIsNat`, `ConnectorAssumption`), which the runs evaluate. Every safety
property of the passing runs is proved; seven modules also prove their types.
Strengthened invariants were model-checked on the runs' instances before they were
proved. A hypothesis is listed where a theorem has one; none of the automation or
project work theorems has. Each proof has one lemma per group of actions, and under
it one step per conjunct that an action can disturb.

| Module | Theorem | Property | Hypothesis |
| --- | --- | --- | --- |
| `ChatProofs` | `TypeCorrect` | `TypeOK` | |
| | `ActiveRunsAreRunning` | `ActiveRunIsRunning` | |
| | `RunsHaveTurns` | `ChatRunsHaveTurns` | |
| | `NothingRunsUnapproved` | `RunsOnlyApproved` | |
| | `WaitersResolvable` | `WaitersAreResolvable` | |
| | `GrantsAreHonoured` | `GrantedIsNotRefused` | |
| | `LedgerImplemented` | `LedgerIsMonotone` (refinement of `RunLedger`) | |
| `ChatSerialProofs` | `FinishedTurnsKept` | `FinishedTurnsAreKept` | |
| | `ExecutedRowsAreApproved` | `RowOfExecutedIsApproved` | `[]NoTwins` |
| | `StopsAreFinal` | `StopIsFinal` | `~Overlap`, `[]NoTwins` |
| `CronProofs` | `CronTypesCorrect` | `TypeOK` | |
| | `AnswersKept` | `AnswersAreKept` | |
| | `EveryChangeIsSaved` | `ConfigurationIsSaved` | |
| | `RunningRowsHandled` | `RunningRowsHaveHandlers` | |
| | `BookImplemented` | `BookIsKept` (refinement of `TaskBook`) | |
| `DispatchProofs` | `DispatchTypesCorrect` | `TypeOK` | |
| | `StartedAreUnderWay` | `StartedIsUnderWay` | |
| | `CancelledStay` | `CancelIsFinal` | |
| | `HandoffsQueuedOnce` | `NotQueuedTwice` | |
| | `PlannedStayAlone` | `PlannedAlone` | |
| `SessionToolsProofs` | `ToolsTypesCorrect` | `TypeOK` | |
| | `SlotsKept` | `SlotsAreRespected` | |
| | `UndoPossible` | `UndoIsPossible` | |
| | `ExcludesKept` | `ExcludesAreRespected` | |
| `EngineHomeProofs` | `HomeTypesCorrect` | `TypeOK` | |
| | `EnginesAreFound` | `EngineIsFound` | |
| | `WorkSafe` | `WorkIsNotSwept` | |
| | `TokensAccepted` | `TokenIsAccepted` | |
| | `RestartsAreAsked` | `RestartIsAsked` | |
| `ScreenProofs` | `ScreenTypesCorrect` | `TypeOK` | |
| | `WaitingIsAsked` | `AskedIsShown` | |
| | `ScreenWhole` | `ScreenIsWhole` | `OneStart` at every step |
| `ConnectorProofs` | `ConnectorTypesCorrect` | `TypeOK` | |
| | `RepliesAreWhole` | `ReplyIsWhole` | |
| | `QuestionsArePending` | `OpenQuestionIsPending` | |
| | `QuestionsTakeOne` | `QuestionTakesOne` | |
| | `EachHandledOnce` | `HandledOnce` | |

**Chat, overlapping turns (`ChatProofs`).** The invariant is built in layers, each
preserved given itself and the layers before it: `TypeInv`: types, and that a turn
deals with calls of its own; `LedgerInv`: rows are not there before their time, so
that a step moves rows only as the ledger allows; `RunInv`: a dead process holds
nothing, active runs run, running rows have turns; `ApprovalInv`: a yes comes from
an operator; `WaiterInv`: the pending maps are those of the waiting turns, and
calls nobody waits for have no verdict, needed because a timer or an answer names a
call, not a turn; `GrantInv`: at most one yes is being continued, and it has
brought its token unless a stop has denied the row first. That is why sharing
tokens between calls of one intent does not make the broker refuse a granted one.

**Chat, what is kept (`ChatSerialProofs`).** `SavedInv`, for overlapping turns: an
agent is used by its own session, once it is there (`OwnAgents`, `AgentsExist`), and
remembers the turns it is at and, if it is the session's, all that was saved
(`LogsGrow`: the agent that replaces another was hydrated with the transcript, and
what the other saves later it does not save, since saves write the session's agent).
`OwnInv`, for one turn at a time: of a session's turns one is under way, with the
session's agent (`OneAtATime`, `CurrentAgent`); `ReachInv`: the session's abort
reaches the turn under way, and a stopped turn is aborted and waits for no approval
that could still be granted; `TokenInv`: every token comes from an issued call whose
row says `approve_once`. `NoTwins` says that no two calls a session has issued have
one token. Without it a left-over token serves another call, and the last two
theorems fail; `StopsAreFinal` also needs one turn at a time. No code of the
gateway enforces these two hypotheses: they are about clients that wait for the end of
a turn, and calls that differ.

**Cron (`CronProofs`).** No theorem restricts operators, flavours, failures or
crashes. `TypeInv` adds to the types that an execution under way has a task, and that
one waiting for a retry has an attempt left; `AnswerInv` that a "notified" execution's
answer has arrived; `SavedInv` that a dead process writes nothing; `RecordInv` that
an execution's records fit what its handler does and refer to a row of its task,
which the cascade keeps up. For the refinement of `TaskBook`, `HeldInv` says of every
definition in use anywhere (in memory, in a draft, on file, scheduled, waiting for its
upsert, under execution) that its id and version are drawn, that an id belongs to one
name, and that a row's name is that of its id's task, which is why the cascade of a
removal erases the records of one task only; `DownInv` that nothing is scheduled while
the process is down. Then there is one lemma per group of actions, which names the
step of the book it is, or that it is none.

**Project work (`DispatchProofs`).** `ExecInv`: the statements an execution has left
are in its process and fit its phase, a dispatch names its execution, and one that
is over has settled its dispatch or has the settling event last; `CancelInv`:
nothing is to be written to a cancelled dispatch unless the cancellation came
between check and write; `NameInv` and `AloneInv`: without overlap one process at a
time writes a plan, and one serves a handoff; `HandoffInv`: a handoff's dispatch
is attached or its attachment is next, and one still to be queued is not there; `OneInv`: a
dispatch is run once at a time; `PlanInv`: no open planned dispatch is on the thread
and task of one to come.

**Tools (`SessionToolsProofs`).** `WorkInv`: who is in which collection, and that a
slot is counted for each sub-agent at work; `UndoInv`: while an agent has a
directory to itself and has not changed it, a mark means that its snapshot has been
taken or is being taken by this agent; `HalfInv`: a repository only begun is torn or has
somebody at its excludes.

**Home (`EngineHomeProofs`).** `Solo`: without overlap one engine lives and one
command is under way, which fits its stage; `BusyRuns` and `CliAlone`: who is at
work, and who else opens the store; `Undisturbed`: from an engine's look at its
token on, the token is its own and nobody else lives; `MarkerIsAsked`: the marker is
that of an engine asked to restart that runs or has died.

**Screen (`ScreenProofs`).** `EventInv`: which events of a turn can be on their way,
in which order; `ScreenInv`: the controller's copy is the history until a turn is
sent, a history that was read at rest is still the history when it is shown, and
unless in doubt the shell shows of each turn what its events on their way leave to
be shown; `MarkInv`: the marked session follows the shown one. `AskedIsShown` is inductive with the types.

**Connectors (`ConnectorProofs`).** `ReplyInv`: one write at a time, one first
message and one more for each that was taken unheard, and before the end the last
write is last; `QuestionInv`: a question seen
is pending, taken or overtaken, and what is pending is not taken; `LogInv`,
`HandledInv`: without a reset nothing after the saved cursor has been handled, and
a batch is within it, without repetition, and unhandled but for the one at hand.

Model-checked only, because liveness and `ENABLED` are beyond the prover:
`EveryRunSettles`, `EveryWaitEnds`, `EveryAutomationRunSettles`, `EveryTickEnds`,
`StartedSettles`, `QueuedStarts`, `RestartComesBack`, `EveryUpdateIsHandled`.
The refinements of both abstract specifications, `RunLedger` and `TaskBook`, are
proved.

## 5. What is left

1. A third abstract specification: the life of a dispatch (queued, started,
   settled) that `Dispatches` implements as long as nothing lapses.
2. How an older book comes back: a stronger `TaskBook` under which a definition is
   lost only by the three ways named in section 2.
3. The safety halves of the liveness properties: what a run that is not settled
   still has before it.
4. Automation: heartbeat, webhook executions, schedules with time
   (`computeNextRunAt`, `isTaskDue`).

## 6. Not modelled

- `kernel`: at this commit every key that reaches the command bus is fresh for its
  call, and neither outbox nor queue has a consumer: a model would show properties
  of code that nothing reaches. The one hazard of a repeated key
  (`node-runtime/src/runtime.ts:982`: approvals and tool calls are filed under the
  provider's call ids for ever) has no property for that reason.
- `memory`: files and an index written one after the other; `audit`: append-only
  logs; `prompt`, `protocol`, `runtime`, `workspaces`: text, types, helpers.
- `sandbox`: a provider runs a command and returns; a tool's execution in the models.
- `console`: a third copy of the chat, with the events of `ChatScreen`'s shell.
- `aria-desktop`'s renderer and its project and settings services, `cli`'s printing
  and editing commands: they show or edit records without protocols of their own.
- `gateway`: pairing and session tokens, webhook, heartbeat and read-only
  procedures; `server`: MCP, secrets, archives; the reconnecting websocket.
