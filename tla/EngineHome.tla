----------------------------- MODULE EngineHome -----------------------------
(***************************************************************************)
(* The engine processes of one home directory: the commands that start and *)
(* stop them (engine start, stop, restart, and the ensureEngine of the     *)
(* desktop application and of the other commands), the files by which they *)
(* are found (engine.pid, engine.url, engine.token, engine.restart), and   *)
(* the commands of the CLI that open a runtime of their own on the home.   *)
(*                                                                         *)
(* Grain.  A step of a command or of a process goes up to its next await.  *)
(* A pid is not used again, and every engine listens on the same port.     *)
(***************************************************************************)
EXTENDS Naturals

CONSTANTS
  Engine, Cli,    \* processes, each used once
  Commander,      \* users and programs that give commands, one at a time
  None

ASSUME HomeAssumption ==
  Engine \intersect Cli = {} /\ None \notin Engine \union Cli

VARIABLES
  pidFile, urlFile, marker, tokenFile,   \* the files; a token is its process's
  port,       \* the engine that listens
  life,       \* how far a process has come
  again,      \* engines that will start another one when they have shut down
  due,        \* engines that have a signal of their own coming
  busy,       \* engines at work on a run
  recorded,   \* the runs that are running in the store, by their engine
  cmd,        \* the commands under way
  lapse,      \* history: what has gone wrong, or been done carelessly
  asked,      \* history: engines asked to restart
  disturbed   \* history: engines beside which another process lived after they
              \* had looked at their token

files     == <<pidFile, urlFile, marker, tokenFile>>
processes == <<port, life, again, due>>
work      == <<busy, recorded>>
history   == <<lapse, asked, disturbed>>
vars      == <<files, processes, work, cmd, history>>

Proc   == Engine \union Cli
Stages == {"unborn", "spawned", "opened", "keyed", "ready", "serving",
           "running", "closing", "freed", "dead"}
Ops    == {"start", "launch", "stop", "restart", "ensure", "status"}
Pcs    == {"idle", "look", "await", "term", "dying", "clean", "spawn"}
Lapses == {"overlap", "cli", "crash"}
NoCmd  == [op |-> "stop", pc |-> "idle", pid |-> None]

TypeOK ==
  /\ pidFile \in Engine \union {None} /\ tokenFile \in Proc \union {None}
  /\ urlFile \in BOOLEAN /\ marker \in BOOLEAN
  /\ port \in Engine \union {None}
  /\ life \in [Proc -> Stages]
  /\ again \subseteq Engine /\ due \subseteq Engine
  /\ busy \subseteq Engine /\ recorded \subseteq Engine
  /\ cmd \in [Commander -> [op: Ops, pc: Pcs, pid: Engine \union {None}]]
  /\ lapse \subseteq Lapses
  /\ asked \subseteq Engine /\ disturbed \subseteq Engine

Init ==
  /\ pidFile = None /\ urlFile = FALSE /\ marker = FALSE /\ tokenFile = None
  /\ port = None
  /\ life = [p \in Proc |-> "unborn"]
  /\ again = {} /\ due = {} /\ busy = {} /\ recorded = {}
  /\ cmd = [c \in Commander |-> NoCmd]
  /\ lapse = {} /\ asked = {} /\ disturbed = {}

Alive(p)  == p # None /\ life[p] \notin {"unborn", "dead"}
Engaged   == {c \in Commander : cmd[c].pc # "idle"}
Lapsed(l, when) == IF when THEN lapse \union {l} ELSE lapse

-----------------------------------------------------------------------------
(* Processes. *)

\* History: a process is born beside these.
Disturbs == {e \in Engine : life[e] \in {"ready", "serving", "running"}}
\* History: a process looks at its token, others being there.
Beside(p) == IF \E q \in Proc \ {p} : Alive(q)
             THEN disturbed \union ({p} \intersect Engine) ELSE disturbed

\* A process ends, in whatever way.
Dies(p) ==
  /\ life' = [life EXCEPT ![p] = "dead"]
  /\ port' = IF port = p THEN None ELSE port
  /\ due' = due \ {p} /\ busy' = busy \ {p}

\* A command of the CLI (projects run-dispatch, backends) opens a runtime.
OpenCli(p) ==
  /\ life[p] = "unborn"
  /\ life' = [life EXCEPT ![p] = "spawned"]
  /\ lapse' = Lapsed("cli", \E e \in Engine : Alive(e))
  /\ disturbed' = disturbed \union Disturbs
  /\ UNCHANGED <<files, port, again, due, work, cmd, asked>>

\* store.init: what was running is marked interrupted
OpenStore(p) ==
  /\ life[p] = "spawned"
  /\ life' = [life EXCEPT ![p] = "opened"]
  /\ recorded' = {}
  /\ UNCHANGED <<files, port, again, due, busy, cmd, history>>

\* auth.init writes the master token ...
WriteToken(p) ==
  /\ life[p] = "opened"
  /\ life' = [life EXCEPT ![p] = "keyed"]
  /\ tokenFile' = p
  /\ UNCHANGED <<pidFile, urlFile, marker, port, again, due, work, cmd, history>>

\* Mutant: ... and trusts it is there.
TrustToken(p) ==
  /\ life[p] = "keyed"
  /\ life' = [life EXCEPT ![p] = "ready"]
  /\ disturbed' = Beside(p)
  /\ UNCHANGED <<files, port, again, due, work, cmd, lapse, asked>>

\* ... and looks at it once: another's it writes over, without one it fails.
VerifyToken(p) ==
  /\ life[p] = "keyed"
  /\ \/ /\ tokenFile # None
        /\ tokenFile' = p
        /\ life' = [life EXCEPT ![p] = "ready"]
        /\ UNCHANGED <<port, due, busy>>
     \/ /\ tokenFile = None
        /\ Dies(p)
        /\ UNCHANGED tokenFile
  /\ disturbed' = Beside(p)
  /\ UNCHANGED <<pidFile, urlFile, marker, again, recorded, cmd, lapse, asked>>

\* The runtime of a CLI command is closed.
CloseCli(p) ==
  /\ p \in Cli /\ life[p] = "ready"
  /\ tokenFile' = None
  /\ Dies(p)
  /\ UNCHANGED <<pidFile, urlFile, marker, again, recorded, cmd, history>>

\* startServer: the port is free, and the url is written, or it is another's,
\* and the runtime is closed again.
Bind(e) ==
  /\ e \in Engine /\ life[e] = "ready"
  /\ \/ /\ port = None
        /\ port' = e
        /\ urlFile' = TRUE
        /\ life' = [life EXCEPT ![e] = "serving"]
        /\ UNCHANGED <<due, busy, tokenFile>>
     \/ /\ port # None
        /\ tokenFile' = None
        /\ Dies(e)
        /\ UNCHANGED urlFile
  /\ UNCHANGED <<pidFile, marker, again, recorded, cmd, history>>

\* runAriaNodeDaemonHost, when the connectors are there: from now on signals
\* are handled
WritePid(e) ==
  /\ e \in Engine /\ life[e] = "serving"
  /\ life' = [life EXCEPT ![e] = "running"]
  /\ pidFile' = e /\ urlFile' = TRUE
  /\ UNCHANGED <<marker, tokenFile, port, again, due, work, cmd, history>>

Work(e) ==
  /\ life[e] = "running"
  /\ \/ e \notin busy /\ busy' = busy \union {e} /\ recorded' = recorded \union {e}
     \/ e \in busy /\ busy' = busy \ {e} /\ recorded' = recorded \ {e}
  /\ UNCHANGED <<files, processes, cmd, history>>

\* Mutant: the marker stays.
KeepsMarker(e) ==
  /\ pidFile' = None /\ urlFile' = FALSE
  /\ again' = IF marker THEN again \union {e} ELSE again
  /\ life' = [life EXCEPT ![e] = "closing"]
  /\ UNCHANGED <<marker, tokenFile, port, busy>>

\* Mutant: nobody looks for the marker.
ForgetsRestart(e) ==
  /\ pidFile' = None /\ urlFile' = FALSE /\ marker' = FALSE
  /\ life' = [life EXCEPT ![e] = "closing"]
  /\ UNCHANGED <<again, tokenFile, port, busy>>

\* shutdown: a second signal runs it again, and what it then finds of a marker
\* may or may not be acted on.
Shutdown(e) ==
  /\ pidFile' = None /\ urlFile' = FALSE /\ marker' = FALSE
  /\ again' \in IF life[e] = "running"
                THEN {IF marker THEN again \union {e} ELSE again}
                ELSE {again, IF marker THEN again \union {e} ELSE again}
  /\ life' = [life EXCEPT ![e] = IF @ = "running" THEN "closing" ELSE @]
  /\ UNCHANGED <<tokenFile, port, busy>>

\* SIGTERM: before it is handled it kills.
Signal(e) ==
  /\ Alive(e)
  /\ \/ /\ life[e] \in {"running", "closing", "freed"}
        /\ Shutdown(e)
        /\ due' = due \ {e}
     \/ /\ life[e] \notin {"running", "closing", "freed"}
        /\ Dies(e)
        /\ UNCHANGED <<files, again>>
  /\ UNCHANGED recorded

\* from the terminal or the system, or from the request of a client
Terminate(e) ==
  /\ life[e] = "running"
  /\ Signal(e)
  /\ lapse' = Lapsed("overlap", Engaged # {})
  /\ UNCHANGED <<cmd, asked, disturbed>>

\* engine.restart of the gateway: the signal follows after 200 ms
RestartRequest(e) ==
  /\ life[e] = "running" /\ e \notin due
  /\ \E x \in Engine : life[x] = "unborn"     \* bound: one is left for it
  /\ marker' = TRUE
  /\ due' = due \union {e}
  /\ asked' = asked \union {e}
  /\ lapse' = Lapsed("overlap", Engaged # {})
  /\ UNCHANGED <<pidFile, urlFile, tokenFile, port, life, again, work, cmd, disturbed>>

DueSignal(e) ==
  /\ e \in due
  /\ Signal(e)
  /\ UNCHANGED <<cmd, history>>

\* connectors.stop, flushProcedureState, httpServer.stop
StopServer(e) ==
  /\ life[e] = "closing"
  /\ life' = [life EXCEPT ![e] = "freed"]
  /\ port' = IF port = e THEN None ELSE port
  /\ urlFile' = FALSE
  /\ busy' = busy \ {e} /\ recorded' = recorded \ {e}
  /\ UNCHANGED <<pidFile, marker, tokenFile, again, due, cmd, history>>

\* runtime.close, and the next engine, if one is wanted
Leave(e) ==
  /\ life[e] = "freed"
  /\ tokenFile' = None
  /\ port' = IF port = e THEN None ELSE port
  /\ due' = due \ {e} /\ busy' = busy \ {e}
  /\ \/ /\ e \in again
        /\ \E x \in Engine :
             /\ life[x] = "unborn"
             /\ life' = [life EXCEPT ![e] = "dead", ![x] = "spawned"]
        /\ disturbed' = disturbed \union Disturbs
        /\ lapse' = Lapsed("overlap", Engaged # {})
     \/ /\ e \notin again \/ \A x \in Engine : life[x] # "unborn"   \* bound
        /\ life' = [life EXCEPT ![e] = "dead"]
        /\ UNCHANGED <<disturbed, lapse>>
  /\ UNCHANGED <<pidFile, urlFile, marker, again, recorded, cmd, asked>>

\* A process is killed, runs into its five seconds for shutting down, or fails.
Crash(p) ==
  /\ Alive(p)
  /\ Dies(p)
  /\ lapse' = lapse \union {"crash"}
  /\ UNCHANGED <<files, again, recorded, cmd, asked, disturbed>>

-----------------------------------------------------------------------------
(* Commands. *)

To(c, pc) == cmd' = [cmd EXCEPT ![c].pc = pc]

Careless == Engaged # {} \/ due # {} \/ \E e \in Engine : Alive(e) /\ life[e] # "running"

Begin(c, op) ==
  /\ cmd[c].pc = "idle"
  /\ cmd' = [cmd EXCEPT ![c] = [op |-> op, pc |-> "look", pid |-> None]]
  /\ lapse' = Lapsed("overlap", Careless)
  /\ UNCHANGED <<files, processes, work, asked, disturbed>>

\* Mutant: the pid file is not looked at.
LookAway(c) ==
  /\ cmd[c].pc = "look"
  /\ cmd' = [cmd EXCEPT ![c] = [@ EXCEPT !.op = IF @ = "ensure" THEN "start" ELSE @,
                                        !.pc = "clean"]]
  /\ UNCHANGED <<files, processes, work, history>>

\* readPid and isProcessAlive
Look(c) ==
  /\ cmd[c].pc = "look"
  /\ LET op == cmd[c].op
     IN cmd' = [cmd EXCEPT ![c] =
          CASE op = "status" /\ (Alive(pidFile) \/ pidFile = None) -> NoCmd
            [] op \in {"stop", "restart"} /\ Alive(pidFile) ->
                 [op |-> op, pc |-> "term", pid |-> pidFile]
            [] op \in {"start", "ensure"} /\ Alive(pidFile) ->
                 [op |-> op, pc |-> "await", pid |-> pidFile]
            [] op = "ensure" /\ ~Alive(pidFile) -> [@ EXCEPT !.op = "start"]
            [] OTHER -> [@ EXCEPT !.pc = "clean"]]
  /\ UNCHANGED <<files, processes, work, history>>

\* Mutant: an engine that does not answer is left to itself.
AwaitOnly(c) ==
  /\ cmd[c].pc = "await"
  /\ \/ Alive(cmd[c].pid) /\ urlFile /\ port # None /\ To(c, "idle")
     \/ To(c, "clean")
  /\ UNCHANGED <<files, processes, work, history>>

\* waitForEngineReadiness: whoever has the port answers /health
Await(c) ==
  /\ cmd[c].pc = "await"
  /\ \/ Alive(cmd[c].pid) /\ urlFile /\ port # None /\ To(c, "idle")
     \/ To(c, "term")     \* dead, or the time is up
  /\ UNCHANGED <<files, processes, work, history>>

\* stopPid
Term(c) ==
  /\ cmd[c].pc = "term"
  /\ \/ /\ ~Alive(cmd[c].pid)
        /\ To(c, "clean")
        /\ UNCHANGED <<files, processes, work>>
     \/ /\ Signal(cmd[c].pid)
        /\ To(c, "dying")
  /\ UNCHANGED history

Dying(c) ==
  /\ cmd[c].pc = "dying"
  /\ LET p == cmd[c].pid
     IN \/ /\ ~Alive(p)
           /\ UNCHANGED <<port, life, due, busy, lapse>>
        \/ /\ Alive(p)     \* SIGKILL after five seconds
           /\ Dies(p)
           /\ lapse' = lapse \union {"crash"}
  /\ To(c, "clean")
  /\ UNCHANGED <<files, again, recorded, asked, disturbed>>

\* cleanStaleFiles, and what follows it
Clean(c) ==
  /\ cmd[c].pc = "clean"
  /\ pidFile' = None /\ urlFile' = FALSE
  /\ cmd' = [cmd EXCEPT ![c] =
       CASE @.op = "start" -> [@ EXCEPT !.pc = "spawn"]
         [] @.op \in {"stop", "launch", "status"} -> NoCmd
         [] OTHER -> [@ EXCEPT !.op = "start", !.pc = "look"]]
  /\ UNCHANGED <<marker, tokenFile, processes, work, history>>

\* spawnDaemonHost: the command is then about the process it has launched
Spawn(c) ==
  /\ cmd[c].pc = "spawn"
  /\ \E e \in Engine :
       /\ life[e] = "unborn"
       /\ life' = [life EXCEPT ![e] = "spawned"]
       /\ cmd' = [cmd EXCEPT ![c] = [op |-> "launch", pc |-> "await", pid |-> e]]
  /\ lapse' = Lapsed("cli", \E p \in Cli : Alive(p))
  /\ disturbed' = disturbed \union Disturbs
  /\ UNCHANGED <<files, port, again, due, work, asked>>

\* The program that gave the command goes away.
Quit(c) ==
  /\ cmd[c].pc # "idle"
  /\ cmd' = [cmd EXCEPT ![c] = NoCmd]
  /\ UNCHANGED <<files, processes, work, history>>

Boot(p) == OpenStore(p) \/ WriteToken(p) \/ VerifyToken(p) \/ Bind(p) \/ WritePid(p)
End(e)  == DueSignal(e) \/ StopServer(e) \/ Leave(e)
Command(c) == Look(c) \/ Await(c) \/ Term(c) \/ Dying(c) \/ Clean(c) \/ Spawn(c)

Next ==
  \/ \E p \in Proc : Boot(p) \/ Crash(p)
  \/ \E p \in Cli : OpenCli(p) \/ CloseCli(p)
  \/ \E e \in Engine : Work(e) \/ Terminate(e) \/ RestartRequest(e) \/ End(e)
  \/ \E c \in Commander : \E op \in Ops \ {"launch"} : Begin(c, op)
  \/ \E c \in Commander : Command(c) \/ Quit(c)

Spec == Init /\ [][Next]_vars
=============================================================================
