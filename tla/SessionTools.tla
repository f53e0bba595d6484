---------------------------- MODULE SessionTools ----------------------------
(***************************************************************************)
(* What the tools of the sessions share: the sub-agents a session's        *)
(* orchestrator runs in the background, and the one checkpoint manager of  *)
(* the process, whose shadow repositories every agent's and sub-agent's    *)
(* tools snapshot a directory into before they change it.                  *)
(*                                                                         *)
(* Grain.  An action is what happens up to the next await on something     *)
(* outside the process.  git is run synchronously, so a snapshot is one    *)
(* step; the creation of a repository awaits twice.                        *)
(***************************************************************************)
EXTENDS Integers, Sequences, FiniteSets

CONSTANTS
  Session, Sub,    \* sub-agents, each used once
  Dir, File,       \* directories, and the files in each
  Value,           \* what a file can contain
  Absent,          \* no such file
  MaxConcurrent, MaxPerTurn,
  None

ASSUME ToolsAssumption ==
  /\ MaxConcurrent \in Nat \ {0} /\ MaxPerTurn \in Nat
  /\ Session \intersect Sub = {}
  /\ IsFiniteSet(Sub)
  /\ Absent \notin Value /\ None \notin Session \union Sub \union Dir

VARIABLES
  turn,       \* has the session a turn under way?
  spawned,    \* turnSpawnCount
  queue, running, cancelled,   \* the orchestrators' collections
  phase,      \* the life of a sub-agent
  owner,      \* the session that created it
  sync,       \* those a delegate call waits for
  marked,     \* checkpointedDirs: snapshotted, or being so, in this turn
  repo,       \* the shadow repositories: none, begun (HEAD is there), ready
  snaps,      \* the contents they keep
  tree,       \* the directories' contents
  call,       \* the tool call each agent makes
  touched,    \* history: what an agent has changed in this turn
  alone,      \* history: directories no other agent used in its turn, and
              \* of which no snapshot failed
  idled,      \* history: sessions whose last slot a cancellation has freed
  torn        \* history: repositories left begun, or found begun by another

orchestrators == <<turn, spawned, queue, running, cancelled, phase, owner, sync>>
checkpoints   == <<marked, repo, snaps, tree, call>>
history       == <<touched, alone, idled, torn>>
vars          == <<orchestrators, checkpoints, history>>

Agent   == Session \union Sub
Tree    == [File -> Value \union {Absent}]
Nothing == [f \in File |-> Absent]
Phases  == {"new", "queued", "working", "ended"}
CallPc  == {"idle", "mkdir", "excluding", "executing", "bare", "waiting"}
NoCall  == [pc |-> "idle", dir |-> None]

TypeOK ==
  /\ turn \in [Session -> BOOLEAN]
  /\ spawned \in [Session -> 0..MaxPerTurn]
  /\ queue \in [Session -> Seq(Sub)]
  /\ running \in [Session -> SUBSET Sub]
  /\ cancelled \in [Session -> SUBSET Sub]
  /\ phase \in [Sub -> Phases]
  /\ owner \in [Sub -> Session \union {None}]
  /\ sync \subseteq Sub
  /\ marked \subseteq Dir
  /\ repo \in [Dir -> {"none", "begun", "ready"}]
  /\ snaps \in [Dir -> SUBSET Tree]
  /\ tree \in [Dir -> Tree]
  /\ call \in [Agent -> [pc: CallPc, dir: Dir \union {None}]]
  /\ touched \in [Agent -> SUBSET Dir]
  /\ alone \in [Agent -> SUBSET Dir]
  /\ idled \subseteq Session /\ torn \subseteq Dir

Init ==
  /\ turn = [s \in Session |-> FALSE]
  /\ spawned = [s \in Session |-> 0]
  /\ queue = [s \in Session |-> <<>>]
  /\ running = [s \in Session |-> {}]
  /\ cancelled = [s \in Session |-> {}]
  /\ phase = [b \in Sub |-> "new"]
  /\ owner = [b \in Sub |-> None]
  /\ sync = {}
  /\ marked = {}
  /\ repo = [d \in Dir |-> "none"]
  /\ snaps = [d \in Dir |-> {}]
  /\ tree \in [Dir -> Tree]
  /\ call = [a \in Agent |-> NoCall]
  /\ touched = [a \in Agent |-> {}]
  /\ alone = [a \in Agent |-> {}]
  /\ idled = {} /\ torn = {}

Works(a) == IF a \in Session THEN turn[a] ELSE phase[a] = "working"

-----------------------------------------------------------------------------
(* Turns and sub-agents. *)

\* directories other agents' tools are at work in
InUse(a) == {call[x].dir : x \in Agent \ {a}}

\* Mutant: newTurn forgets the checkpoint manager
KeepsMarks(agents) ==
  /\ touched' = [a \in Agent |-> IF a \in agents THEN {} ELSE touched[a]]
  /\ alone' = [a \in Agent |-> IF a \in agents THEN Dir \ InUse(a) ELSE alone[a]]
  /\ UNCHANGED marked

\* newTurn of the environments of these agents: the marks of the one manager
\* are gone for everybody.
Clears(agents) ==
  /\ marked' = IF agents = {} THEN marked ELSE {}
  /\ touched' = [a \in Agent |-> IF a \in agents THEN {} ELSE touched[a]]
  /\ alone' = [a \in Agent |-> IF a \in agents THEN Dir \ InUse(a) ELSE alone[a]]

NewTurn(s) ==
  /\ ~turn[s]
  /\ turn' = [turn EXCEPT ![s] = TRUE]
  /\ spawned' = [spawned EXCEPT ![s] = 0]
  /\ Clears({s})
  /\ UNCHANGED <<queue, running, cancelled, phase, owner, sync,
                 repo, snaps, tree, call, idled, torn>>

EndTurn(s) ==
  /\ turn[s] /\ call[s].pc = "idle"
  /\ turn' = [turn EXCEPT ![s] = FALSE]
  /\ UNCHANGED <<spawned, queue, running, cancelled, phase, owner, sync,
                 checkpoints, history>>

\* startSubAgent, for each of these: a running entry, an environment with a
\* turn of its own
Starts(s, subs, phases, others) ==
  /\ running' = [running EXCEPT ![s] = others \union subs]
  /\ phase' = [b \in Sub |-> IF b \in subs THEN "working" ELSE phases[b]]
  /\ idled' = idled \ {s}
  /\ Clears(subs)

MaySpawn(s) == turn[s] /\ call[s].pc = "idle" /\ spawned[s] < MaxPerTurn

\* Mutant: the limit of those running is off by one
OverFull(s) == Cardinality(running[s]) > MaxConcurrent

Full(s) == Cardinality(running[s]) >= MaxConcurrent

\* delegate in the background: over the limit of the turn it is refused, over
\* the limit of those running it is queued
Spawn(s, b) ==
  /\ MaySpawn(s) /\ phase[b] = "new"
  /\ spawned' = [spawned EXCEPT ![s] = @ + 1]
  /\ owner' = [owner EXCEPT ![b] = s]
  /\ \/ /\ Full(s)
        /\ queue' = [queue EXCEPT ![s] = Append(@, b)]
        /\ phase' = [phase EXCEPT ![b] = "queued"]
        /\ UNCHANGED <<running, marked, touched, alone, idled>>
     \/ /\ ~Full(s)
        /\ Starts(s, {b}, phase, running[s])
        /\ UNCHANGED queue
  /\ UNCHANGED <<turn, cancelled, sync, repo, snaps, tree, call, torn>>

\* delegate in the foreground goes round the orchestrator
Delegate(s, b) ==
  /\ turn[s] /\ call[s].pc = "idle" /\ phase[b] = "new"
  /\ owner' = [owner EXCEPT ![b] = s]
  /\ phase' = [phase EXCEPT ![b] = "working"]
  /\ sync' = sync \union {b}
  /\ call' = [call EXCEPT ![s].pc = "waiting"]
  /\ Clears({b})
  /\ UNCHANGED <<turn, spawned, queue, running, cancelled, repo, snaps, tree,
                 idled, torn>>

Cancel(b) ==
  /\ LET s == owner[b]
     IN /\ s # None /\ b \in running[s]
        /\ cancelled' = [cancelled EXCEPT ![s] = @ \union {b}]
        /\ running' = [running EXCEPT ![s] = @ \ {b}]
        /\ idled' = IF running[s] = {b} THEN idled \union {s} ELSE idled
  /\ UNCHANGED <<turn, spawned, queue, phase, owner, sync, checkpoints,
                 touched, alone, torn>>

\* Mutant: the one that has completed still counts
TakesTooFew(s, b) ==
  LET free == MaxConcurrent - Cardinality(running[s])
  IN IF free <= Len(queue[s]) THEN free ELSE Len(queue[s])

\* processQueue fills the slots that are free when b has left
Takes(s, b) ==
  LET free == MaxConcurrent - Cardinality(running[s] \ {b})
  IN IF free <= Len(queue[s]) THEN free ELSE Len(queue[s])

\* The result of a sub-agent: nothing is done for the queue after a cancellation.
Finish(b) ==
  /\ phase[b] = "working" /\ call[b].pc = "idle"
  /\ LET s    == owner[b]
         over == [phase EXCEPT ![b] = "ended"]
     IN \/ /\ b \in sync
           /\ call' = [call EXCEPT ![s].pc = "idle"]
           /\ sync' = sync \ {b}
           /\ phase' = over
           /\ UNCHANGED <<queue, running, cancelled, marked, touched, alone, idled>>
        \/ /\ b \in cancelled[s]
           /\ running' = [running EXCEPT ![s] = @ \ {b}]
           /\ cancelled' = [cancelled EXCEPT ![s] = @ \ {b}]
           /\ phase' = over
           /\ UNCHANGED <<queue, sync, marked, call, touched, alone, idled>>
        \/ /\ b \notin sync \union cancelled[s]
           /\ LET n == Takes(s, b)
              IN /\ Starts(s, {queue[s][i] : i \in 1..n}, over, running[s] \ {b})
                 /\ queue' = [queue EXCEPT ![s] = SubSeq(@, n + 1, Len(@))]
           /\ UNCHANGED <<cancelled, sync, call>>
  /\ UNCHANGED <<turn, spawned, owner, repo, snaps, tree, torn>>

-----------------------------------------------------------------------------
(* Checkpoints. *)

\* d is no longer to itself for these agents
Shared(d, agents) == alone' = [x \in Agent |-> IF x \in agents THEN alone[x] \ {d} ELSE alone[x]]

\* git add, diff, commit: without a change since the last commit, or in an
\* empty directory before the first one, there is nothing to commit.  It may
\* fail, and nobody is told.
Snapshot(d, agents) ==
  \/ /\ snaps' = [snaps EXCEPT ![d] =
                    IF @ = {} /\ tree[d] = Nothing THEN @ ELSE @ \union {tree[d]}]
     /\ Shared(d, agents)
  \/ /\ Shared(d, Agent)
     /\ UNCHANGED snaps

Preparing(d) == \E a \in Agent : call[a].dir = d /\ call[a].pc \in {"mkdir", "excluding"}

\* A tool whose arguments name no directory to the checkpoints: the harness's
\* bash, write and edit of a `path`, most commands of exec; and every tool while
\* checkpoints are disabled.
BareCall(a, d) ==
  /\ Works(a) /\ call[a].pc = "idle"
  /\ call' = [call EXCEPT ![a] = [pc |-> "bare", dir |-> d]]
  /\ Shared(d, Agent \ {a})
  /\ UNCHANGED <<orchestrators, marked, repo, snaps, tree, touched, idled, torn>>

\* A tool that is about to change the directory its arguments name (file_path, a
\* command that removes or redirects, skill_manage): ensureCheckpoint, then the
\* tool itself, whatever has come of the checkpoint.
BeginCall(a, d) ==
  /\ Works(a) /\ call[a].pc = "idle"
  /\ marked' = marked \union {d}
  /\ torn' = IF Preparing(d) THEN torn \union {d} ELSE torn
  /\ \/ /\ d \in marked
        /\ call' = [call EXCEPT ![a] = [pc |-> "executing", dir |-> d]]
        /\ Shared(d, Agent \ {a})
        /\ UNCHANGED snaps
     \/ /\ d \notin marked /\ repo[d] = "none"
        /\ call' = [call EXCEPT ![a] = [pc |-> "mkdir", dir |-> d]]
        /\ Shared(d, Agent \ {a})
        /\ UNCHANGED snaps
     \/ /\ d \notin marked /\ repo[d] # "none"
        /\ call' = [call EXCEPT ![a] = [pc |-> "executing", dir |-> d]]
        /\ Snapshot(d, Agent \ {a})
  /\ UNCHANGED <<orchestrators, repo, tree, touched, idled>>

\* Mutant: the first snapshot before the excludes are there
GitInitCommits(a) ==
  /\ call[a].pc = "mkdir"
  /\ LET d == call[a].dir
     IN /\ repo' = [repo EXCEPT ![d] = IF @ = "none" THEN "begun" ELSE @]
        /\ Snapshot(d, {})
  /\ call' = [call EXCEPT ![a].pc = "excluding"]
  /\ UNCHANGED <<orchestrators, marked, tree, touched, idled, torn>>

\* git init puts HEAD there; over a repository of another's it changes nothing
GitInit(a) ==
  /\ call[a].pc = "mkdir"
  /\ LET d == call[a].dir
     IN repo' = [repo EXCEPT ![d] = IF @ = "none" THEN "begun" ELSE @]
  /\ call' = [call EXCEPT ![a].pc = "excluding"]
  /\ UNCHANGED <<orchestrators, marked, snaps, tree, history>>

\* info/exclude is written
Excluded(a) ==
  /\ call[a].pc = "excluding"
  /\ LET d == call[a].dir
     IN /\ repo' = [repo EXCEPT ![d] = "ready"]
        /\ Snapshot(d, {})
  /\ call' = [call EXCEPT ![a].pc = "executing"]
  /\ UNCHANGED <<orchestrators, marked, tree, touched, idled, torn>>

\* The tool writes or removes a file, or fails.
Execute(a) ==
  /\ call[a].pc \in {"executing", "bare"}
  /\ LET d == call[a].dir
     IN \/ /\ \E f \in File, v \in Value \union {Absent} :
                /\ v # tree[d][f]
                /\ tree' = [tree EXCEPT ![d][f] = v]
           /\ touched' = [touched EXCEPT ![a] = @ \union {d}]
        \/ UNCHANGED <<tree, touched>>
  /\ call' = [call EXCEPT ![a] = NoCall]
  /\ UNCHANGED <<orchestrators, marked, repo, snaps, alone, idled, torn>>

\* checkpoint.restore, after a snapshot of what is there: files the chosen one
\* has not are left
Restore(d, c) ==
  /\ repo[d] # "none" /\ c \in snaps[d]
  /\ Snapshot(d, Agent)
  /\ tree' = [tree EXCEPT ![d] = [f \in File |-> IF c[f] = Absent THEN @[f] ELSE c[f]]]
  /\ torn' = IF Preparing(d) THEN torn \union {d} ELSE torn
  /\ UNCHANGED <<orchestrators, marked, repo, call, touched, idled>>

-----------------------------------------------------------------------------
\* The process dies: directories and repositories are what is left.
Crash ==
  /\ torn' = torn \union {d \in Dir : repo[d] = "begun"}
  /\ turn' = [s \in Session |-> FALSE]
  /\ spawned' = [s \in Session |-> 0]
  /\ queue' = [s \in Session |-> <<>>]
  /\ running' = [s \in Session |-> {}]
  /\ cancelled' = [s \in Session |-> {}]
  /\ phase' = [b \in Sub |-> IF phase[b] = "new" THEN "new" ELSE "ended"]
  /\ sync' = {} /\ marked' = {}
  /\ call' = [a \in Agent |-> NoCall]
  /\ touched' = [a \in Agent |-> {}]
  /\ alone' = [a \in Agent |-> {}]
  /\ idled' = {}
  /\ UNCHANGED <<owner, repo, snaps, tree>>

ToolStep(a) == GitInit(a) \/ Excluded(a) \/ Execute(a)

Next ==
  \/ \E s \in Session : NewTurn(s) \/ EndTurn(s)
  \/ \E s \in Session, b \in Sub : Spawn(s, b) \/ Delegate(s, b)
  \/ \E b \in Sub : Cancel(b) \/ Finish(b)
  \/ \E a \in Agent, d \in Dir : BeginCall(a, d) \/ BareCall(a, d)
  \/ \E a \in Agent : ToolStep(a)
  \/ \E d \in Dir : \E c \in snaps[d] : Restore(d, c)
  \/ Crash

Spec == Init /\ [][Next]_vars
=============================================================================
