-------------------------- MODULE EngineHomeProofs --------------------------
(* Proofs about EngineHome, for any number of engines, of commands with a    *)
(* runtime of their own and of users who give commands.                      *)
EXTENDS EngineHomeProperties, TLAPS

LEMMA InitTypes == Init => TypeOK
<1> SUFFICES ASSUME Init PROVE TypeOK
  OBVIOUS
<1>1. NoCmd \in [op: Ops, pc: Pcs, pid: Engine \union {None}]
  BY DEF NoCmd, Ops, Pcs
<1>2. cmd \in [Commander -> [op: Ops, pc: Pcs, pid: Engine \union {None}]]
  BY <1>1 DEF Init
<1> QED BY <1>2 DEF Init, TypeOK, Stages

\* A signal and an end keep the types of what they change.
LEMMA DiesTypes ==
  ASSUME TypeOK, NEW p \in Proc, Dies(p)
  PROVE  /\ life' \in [Proc -> Stages] /\ port' \in Engine \union {None}
         /\ due' \subseteq Engine /\ busy' \subseteq Engine
  BY DEF TypeOK, Dies, Stages

LEMMA SignalTypes ==
  ASSUME TypeOK, NEW e \in Engine, Signal(e)
  PROVE  /\ pidFile' \in Engine \union {None} /\ tokenFile' \in Proc \union {None}
         /\ urlFile' \in BOOLEAN /\ marker' \in BOOLEAN
         /\ life' \in [Proc -> Stages] /\ port' \in Engine \union {None}
         /\ due' \subseteq Engine /\ busy' \subseteq Engine /\ again' \subseteq Engine
         /\ recorded' \subseteq Engine
<1>1. CASE life[e] \in {"running", "closing", "freed"} /\ Shutdown(e) /\ due' = due \ {e}
  BY <1>1 DEF Signal, TypeOK, Shutdown, Stages, Proc
<1>2. CASE Dies(e) /\ UNCHANGED <<files, again>>
  BY <1>2, DiesTypes DEF Signal, TypeOK, files, Proc
<1> QED BY <1>1, <1>2 DEF Signal

LEMMA BootTypes ==
  ASSUME TypeOK, NEW p \in Proc, Boot(p)
  PROVE  TypeOK'
<1>1. CASE OpenStore(p)
  BY <1>1 DEF OpenStore, TypeOK, Stages, files, processes, work, history
<1>2. CASE WriteToken(p)
  BY <1>2 DEF WriteToken, TypeOK, Stages, files, processes, work, history
<1>3. CASE VerifyToken(p)
  <2>1. CASE tokenFile # None
    BY <1>3, <2>1 DEF VerifyToken, TypeOK, Stages, files, processes, work, history, Beside
  <2>2. CASE tokenFile = None
    BY <1>3, <2>2, DiesTypes DEF VerifyToken, TypeOK, files, processes, work, history, Beside
  <2> QED BY <2>1, <2>2
<1>4. CASE Bind(p)
  <2>1. CASE port = None
    BY <1>4, <2>1 DEF Bind, TypeOK, Stages, files, processes, work, history
  <2>2. CASE port # None
    BY <1>4, <2>2, DiesTypes DEF Bind, TypeOK, files, processes, work, history
  <2> QED BY <2>1, <2>2
<1>5. CASE WritePid(p)
  BY <1>5 DEF WritePid, TypeOK, Stages, files, processes, work, history, Proc
<1> QED BY <1>1, <1>2, <1>3, <1>4, <1>5 DEF Boot

\* The commands that are given keep the types, one by one.
Cmds == [op: Ops, pc: Pcs, pid: Engine \union {None}]

LEMMA CmdTypes ==
  ASSUME TypeOK, NEW c \in Commander, NEW r \in Cmds, cmd' = [cmd EXCEPT ![c] = r]
  PROVE  cmd' \in [Commander -> Cmds]
  BY DEF TypeOK, Cmds

LEMMA ToTypes ==
  ASSUME TypeOK, NEW c \in Commander, NEW pc \in Pcs, To(c, pc)
  PROVE  cmd' \in [Commander -> Cmds]
<1>1. [cmd[c] EXCEPT !.pc = pc] \in Cmds
  BY DEF TypeOK, Cmds
<1>2. cmd' = [cmd EXCEPT ![c] = [cmd[c] EXCEPT !.pc = pc]]
  BY DEF To
<1> QED BY <1>1, <1>2, CmdTypes

LEMMA EndTypes ==
  ASSUME TypeOK, NEW e \in Engine, End(e)
  PROVE  TypeOK'
<1>1. CASE DueSignal(e)
  BY <1>1, SignalTypes DEF DueSignal, TypeOK, history
<1>2. CASE StopServer(e)
  BY <1>2 DEF StopServer, TypeOK, Stages, Proc, history
<1>3. CASE Leave(e)
  <2>1. life' \in [Proc -> Stages]
    BY <1>3 DEF Leave, TypeOK, Stages, Proc
  <2>2. disturbed' \subseteq Engine /\ lapse' \subseteq Lapses
    BY <1>3 DEF Leave, TypeOK, Disturbs, Lapsed, Lapses
  <2> QED BY <1>3, <2>1, <2>2 DEF Leave, TypeOK, Proc
<1> QED BY <1>1, <1>2, <1>3 DEF End

LEMMA EngineTypes ==
  ASSUME TypeOK, NEW e \in Engine, Work(e) \/ Terminate(e) \/ RestartRequest(e) \/ Crash(e)
  PROVE  TypeOK'
<1>1. CASE Work(e)
  BY <1>1 DEF Work, TypeOK, files, processes, history
<1>2. CASE Terminate(e)
  BY <1>2, SignalTypes DEF Terminate, TypeOK, Lapsed, Lapses
<1>3. CASE RestartRequest(e)
  BY <1>3 DEF RestartRequest, TypeOK, Lapsed, Lapses, work
<1>4. CASE Crash(e)
  BY <1>4, DiesTypes DEF Crash, TypeOK, Lapses, files, Proc
<1> QED BY <1>1, <1>2, <1>3, <1>4

LEMMA CliTypes ==
  ASSUME TypeOK, NEW p \in Cli, OpenCli(p) \/ CloseCli(p) \/ Crash(p)
  PROVE  TypeOK'
<1>1. CASE OpenCli(p)
  BY <1>1 DEF OpenCli, TypeOK, Lapsed, Lapses, Disturbs, Stages, Proc, files, work
<1>2. CASE CloseCli(p)
  BY <1>2, DiesTypes DEF CloseCli, TypeOK, Proc, history
<1>3. CASE Crash(p)
  BY <1>3, DiesTypes DEF Crash, TypeOK, Lapses, files, Proc
<1> QED BY <1>1, <1>2, <1>3

LEMMA BeginTypes ==
  ASSUME TypeOK, NEW c \in Commander, NEW op \in Ops, Begin(c, op)
  PROVE  TypeOK'
<1> DEFINE r == [op |-> op, pc |-> "look", pid |-> None]
<1>1. r \in Cmds
  BY DEF Cmds, Pcs
<1>2. cmd' = [cmd EXCEPT ![c] = r]
  BY DEF Begin
<1>3. cmd' \in [Commander -> Cmds]
  BY <1>1, <1>2, CmdTypes
<1> QED BY <1>3 DEF Begin, TypeOK, Cmds, Lapsed, Lapses, files, processes, work

LEMMA LookTypes ==
  ASSUME TypeOK, NEW c \in Commander, Look(c)
  PROVE  TypeOK'
<1> DEFINE op == cmd[c].op
<1>1. cmd[c] \in Cmds /\ op \in Ops
  BY DEF TypeOK, Cmds
<1>2. PICK r \in Cmds : cmd' = [cmd EXCEPT ![c] = r]
  <2>1. CASE op = "status" /\ (Alive(pidFile) \/ pidFile = None)
    <3>1. NoCmd \in Cmds
      BY DEF NoCmd, Cmds, Ops, Pcs
    <3> QED BY <2>1, <3>1 DEF Look
  <2>2. CASE op \in {"stop", "restart"} /\ Alive(pidFile)
    <3> DEFINE r == [op |-> op, pc |-> "term", pid |-> pidFile]
    <3>1. r \in Cmds
      BY <1>1 DEF Cmds, Pcs, TypeOK
    <3>2. cmd' = [cmd EXCEPT ![c] = r]
      BY <2>2 DEF Look
    <3> QED BY <3>1, <3>2
  <2>3. CASE op \in {"start", "ensure"} /\ Alive(pidFile)
    <3> DEFINE r == [op |-> op, pc |-> "await", pid |-> pidFile]
    <3>1. r \in Cmds
      BY <1>1 DEF Cmds, Pcs, TypeOK
    <3>2. cmd' = [cmd EXCEPT ![c] = r]
      BY <2>3 DEF Look
    <3> QED BY <3>1, <3>2
  <2>4. CASE op = "ensure" /\ ~Alive(pidFile)
    <3> DEFINE r == [cmd[c] EXCEPT !.op = "start"]
    <3>1. r \in Cmds
      BY <1>1 DEF Cmds, Ops
    <3>2. cmd' = [cmd EXCEPT ![c] = r]
      BY <2>4 DEF Look
    <3> QED BY <3>1, <3>2
  <2>5. CASE /\ ~(op = "status" /\ (Alive(pidFile) \/ pidFile = None))
             /\ ~(op \in {"start", "ensure", "stop", "restart"} /\ Alive(pidFile))
             /\ ~(op = "ensure" /\ ~Alive(pidFile))
    <3> DEFINE r == [cmd[c] EXCEPT !.pc = "clean"]
    <3>1. r \in Cmds
      BY <1>1 DEF Cmds, Pcs
    <3>2. cmd' = [cmd EXCEPT ![c] = r]
      BY <2>5 DEF Look
    <3> QED BY <3>1, <3>2
  <2> QED BY <2>1, <2>2, <2>3, <2>4, <2>5
<1>3. cmd' \in [Commander -> Cmds]
  BY <1>2, CmdTypes
<1> QED BY <1>3 DEF Look, TypeOK, Cmds, files, processes, work, history

LEMMA CleanTypes ==
  ASSUME TypeOK, NEW c \in Commander, Clean(c)
  PROVE  TypeOK'
<1>1. cmd[c] \in Cmds
  BY DEF TypeOK, Cmds
<1>2. PICK r \in Cmds : cmd' = [cmd EXCEPT ![c] = r]
  <2>1. [cmd[c] EXCEPT !.pc = "spawn"] \in Cmds
    BY <1>1 DEF Cmds, Pcs
  <2>2. NoCmd \in Cmds
    BY DEF NoCmd, Cmds, Ops, Pcs
  <2>3. [cmd[c] EXCEPT !.op = "start", !.pc = "look"] \in Cmds
    BY <1>1 DEF Cmds, Pcs, Ops
  <2> QED BY <2>1, <2>2, <2>3 DEF Clean
<1>3. cmd' \in [Commander -> Cmds]
  BY <1>2, CmdTypes
<1> QED BY <1>3 DEF Clean, TypeOK, Cmds, processes, work, history

LEMMA CommandTypes ==
  ASSUME TypeOK, NEW c \in Commander, Command(c) \/ Quit(c)
  PROVE  TypeOK'
<1>1. cmd[c].pid # None => cmd[c].pid \in Engine
  BY DEF TypeOK
<1>2. CASE Await(c)
  <2>1. cmd' \in [Commander -> Cmds]
    BY <1>2, ToTypes DEF Await, Pcs
  <2> QED BY <1>2, <2>1 DEF Await, TypeOK, Cmds, files, processes, work, history
<1>3. CASE Term(c)
  <2>1. cmd' \in [Commander -> Cmds]
    BY <1>3, ToTypes DEF Term, Pcs
  <2>2. CASE UNCHANGED <<files, processes, work>>
    BY <1>3, <2>1, <2>2 DEF Term, TypeOK, Cmds, files, processes, work, history
  <2>3. CASE Signal(cmd[c].pid)
    <3>1. cmd[c].pid \in Engine
      BY <1>1, <2>3 DEF Signal, Alive
    <3> QED BY <1>3, <2>1, <2>3, <3>1, SignalTypes DEF Term, TypeOK, Cmds, history
  <2> QED BY <1>3, <2>2, <2>3 DEF Term
<1>4. CASE Dying(c)
  <2>1. cmd' \in [Commander -> Cmds]
    BY <1>4, ToTypes DEF Dying, Pcs
  <2>2. CASE UNCHANGED <<port, life, due, busy, lapse>>
    BY <1>4, <2>1, <2>2 DEF Dying, TypeOK, Cmds, files
  <2>3. CASE Alive(cmd[c].pid) /\ Dies(cmd[c].pid) /\ lapse' = lapse \union {"crash"}
    <3>1. cmd[c].pid \in Proc
      BY <1>1, <2>3 DEF Alive, Proc
    <3> QED BY <1>4, <2>1, <2>3, <3>1, DiesTypes DEF Dying, TypeOK, Cmds, files, Lapses
  <2> QED BY <1>4, <2>2, <2>3 DEF Dying
<1>5. CASE Spawn(c)
  <2>1. PICK e \in Engine : /\ life' = [life EXCEPT ![e] = "spawned"]
                            /\ cmd' = [cmd EXCEPT ![c] = [op |-> "launch", pc |-> "await", pid |-> e]]
    BY <1>5 DEF Spawn
  <2>2. [op |-> "launch", pc |-> "await", pid |-> e] \in Cmds
    BY DEF Cmds, Ops, Pcs
  <2>3. cmd' \in [Commander -> Cmds]
    BY <2>1, <2>2, CmdTypes
  <2>4. life' \in [Proc -> Stages]
    BY <2>1 DEF TypeOK, Proc, Stages
  <2> QED BY <1>5, <2>3, <2>4 DEF Spawn, TypeOK, Cmds, files, work, Lapsed, Lapses, Disturbs
<1>6. CASE Quit(c)
  <2>1. NoCmd \in Cmds
    BY DEF NoCmd, Cmds, Ops, Pcs
  <2>2. cmd' = [cmd EXCEPT ![c] = NoCmd]
    BY <1>6 DEF Quit
  <2>3. cmd' \in [Commander -> Cmds]
    BY <2>1, <2>2, CmdTypes
  <2> QED BY <1>6, <2>3 DEF Quit, TypeOK, Cmds, files, processes, work, history
<1> QED BY <1>2, <1>3, <1>4, <1>5, <1>6, LookTypes, CleanTypes DEF Command

LEMMA TypeStep == TypeOK /\ [Next]_vars => TypeOK'
<1> SUFFICES ASSUME TypeOK, [Next]_vars PROVE TypeOK'
  OBVIOUS
<1>1. CASE \E p \in Proc : Boot(p) \/ Crash(p)
  BY <1>1, BootTypes, EngineTypes, CliTypes DEF Proc
<1>2. CASE \E p \in Cli : OpenCli(p) \/ CloseCli(p)
  BY <1>2, CliTypes
<1>3. CASE \E e \in Engine : Work(e) \/ Terminate(e) \/ RestartRequest(e) \/ End(e)
  BY <1>3, EngineTypes, EndTypes
<1>4. CASE \E c \in Commander : \E op \in Ops \ {"launch"} : Begin(c, op)
  BY <1>4, BeginTypes
<1>5. CASE \E c \in Commander : Command(c) \/ Quit(c)
  BY <1>5, CommandTypes
<1>6. CASE UNCHANGED vars
  BY <1>6 DEF vars, files, processes, work, history, TypeOK
<1> QED BY <1>1, <1>2, <1>3, <1>4, <1>5, <1>6 DEF Next

\* Every variable of EngineHome keeps its type, for any number of processes
\* and commands.
THEOREM HomeTypesCorrect == Spec => []TypeOK
  BY InitTypes, TypeStep, PTL DEF Spec

-----------------------------------------------------------------------------
(* Without overlap, one engine at most is alive and the commands know it.    *)

OneEngine  == \A e, f \in Engine : Alive(e) /\ Alive(f) => e = f
OneCommand == \A c, d \in Commander : cmd[c].pc # "idle" /\ cmd[d].pc # "idle" => c = d
Calm  == \A c \in Commander : cmd[c].pc # "idle" => due = {}
Found == \A e \in Engine : life[e] = "running" => pidFile = e /\ urlFile
Legal == \A c \in Commander : cmd[c].pc = "look" => cmd[c].op # "launch"
Known == \A c \in Commander, e \in Engine : Alive(e) =>
           /\ cmd[c].pc = "look" => life[e] = "running"
           /\ cmd[c].pc \in {"await", "term", "dying"} => e = cmd[c].pid
           /\ cmd[c].pc \notin {"clean", "spawn"}

Solo == OneEngine /\ OneCommand /\ Calm /\ Found /\ Legal /\ Known

SoloInv == "overlap" \notin lapse => Solo

LEMMA InitSolo == Init => SoloInv
  BY DEF Init, SoloInv, Solo, OneEngine, OneCommand, Calm, Found, Legal, Known, Alive, NoCmd, Proc

\* What befalls the home is remembered.
LEMMA LapsesStay == TypeOK /\ [Next]_vars => lapse \subseteq lapse'
  BY DEF Next, vars, history, Boot, OpenStore, WriteToken, VerifyToken, Bind, WritePid, Crash,
         OpenCli, CloseCli, Work, Terminate, RestartRequest, End, DueSignal, StopServer, Leave,
         Begin, Command, Look, Await, Term, Dying, Clean, Spawn, Quit, Lapsed

LEMMA SoloBoot ==
  ASSUME TypeOK, Solo, NEW p \in Proc, Boot(p) PROVE Solo'
<1> USE HomeAssumption DEF Solo, OneEngine, OneCommand, Calm, Found, Legal, Known, Alive, TypeOK, Proc,
        files, processes, work, history
<1>1. CASE OpenStore(p)
  BY <1>1 DEF OpenStore
<1>2. CASE WriteToken(p)
  BY <1>2 DEF WriteToken
<1>3. CASE VerifyToken(p)
  BY <1>3 DEF VerifyToken, Dies
<1>4. CASE Bind(p)
  BY <1>4 DEF Bind, Dies
<1>5. CASE WritePid(p)
  BY <1>5 DEF WritePid
<1> QED BY <1>1, <1>2, <1>3, <1>4, <1>5 DEF Boot

\* What ends a process, or has it shut down, leaves the others as they are,
\* and a command that looks at the pid file sees a process that is there.
LEMMA SoloEnd ==
  ASSUME TypeOK, Solo, NEW p \in Proc,
         CloseCli(p) \/ Crash(p) \/ (p \in Engine /\ (DueSignal(p) \/ StopServer(p)))
  PROVE  Solo'
<1> USE HomeAssumption DEF Solo, OneEngine, OneCommand, Calm, Found, Legal, Known, Alive, TypeOK, Proc,
        files, processes, work, history
<1>1. CASE CloseCli(p)
  BY <1>1 DEF CloseCli, Dies
<1>2. CASE Crash(p)
  BY <1>2 DEF Crash, Dies
<1>3. CASE p \in Engine /\ DueSignal(p)
  <2>1. \A c \in Commander : cmd[c].pc = "idle"
    BY <1>3 DEF DueSignal
  <2>2. CASE Shutdown(p) /\ due' = due \ {p}
    <3>1. Alive(p)
      BY <1>3 DEF DueSignal, Signal
    <3>2. \A e \in Engine : life[e] = "running" => e = p
      BY <1>3, <3>1
    <3>3. life'[p] # "running" /\ \A e \in Proc \ {p} : life'[e] = life[e]
      BY <2>2 DEF Shutdown
    <3> QED BY <1>3, <2>1, <3>1, <3>2, <3>3 DEF DueSignal
  <2>3. CASE Dies(p) /\ UNCHANGED files
    BY <1>3, <2>1, <2>3 DEF DueSignal, Dies
  <2> QED BY <1>3, <2>2, <2>3 DEF DueSignal, Signal
<1>4. CASE p \in Engine /\ StopServer(p)
  BY <1>4 DEF StopServer
<1> QED BY <1>1, <1>2, <1>3, <1>4

LEMMA SoloEngine ==
  ASSUME TypeOK, Solo, NEW e \in Engine, "overlap" \notin lapse',
         Work(e) \/ Terminate(e) \/ RestartRequest(e) \/ Leave(e)
  PROVE  Solo'
<1> USE HomeAssumption DEF Solo, OneEngine, OneCommand, Calm, Found, Legal, Known, Alive, TypeOK, Proc,
        files, processes, work, history
<1>1. CASE Work(e)
  BY <1>1 DEF Work
<1>2. CASE Terminate(e)
  <2>1. \A c \in Commander : cmd[c].pc = "idle"
    BY <1>2 DEF Terminate, Lapsed, Engaged
  <2> QED BY <1>2, <2>1 DEF Terminate, Signal, Shutdown
<1>3. CASE RestartRequest(e)
  <2>1. \A c \in Commander : cmd[c].pc = "idle"
    BY <1>3 DEF RestartRequest, Lapsed, Engaged
  <2> QED BY <1>3, <2>1 DEF RestartRequest
<1>4. CASE Leave(e)
  <2>1. CASE life' = [life EXCEPT ![e] = "dead"]
    BY <1>4, <2>1 DEF Leave
  <2>2. CASE /\ \E x \in Engine : /\ life[x] = "unborn"
                                /\ life' = [life EXCEPT ![e] = "dead", ![x] = "spawned"]
             /\ lapse' = Lapsed("overlap", Engaged # {})
    <3>1. \A c \in Commander : cmd[c].pc = "idle"
      BY <2>2 DEF Lapsed, Engaged
    <3>2. PICK x \in Engine : life[x] = "unborn" /\ life' = [life EXCEPT ![e] = "dead", ![x] = "spawned"]
      BY <2>2
    <3>3. \A f \in Engine : Alive(f)' => f = x
      BY <1>4, <3>2 DEF Leave
    <3> QED BY <1>4, <3>1, <3>2, <3>3 DEF Leave
  <2> QED BY <1>4, <2>1, <2>2 DEF Leave
<1> QED BY <1>1, <1>2, <1>3, <1>4

LEMMA SoloCli ==
  ASSUME TypeOK, Solo, NEW p \in Cli, OpenCli(p) PROVE Solo'
<1> USE HomeAssumption DEF Solo, OneEngine, OneCommand, Calm, Found, Legal, Known, Alive, TypeOK, Proc,
        files, processes, work, history
<1> QED BY DEF OpenCli

LEMMA SoloBegin ==
  ASSUME TypeOK, Solo, NEW c \in Commander, NEW op \in Ops \ {"launch"}, Begin(c, op), "overlap" \notin lapse'
  PROVE  Solo'
<1> USE HomeAssumption DEF Solo, OneEngine, OneCommand, Calm, Found, Legal, Known, Alive, TypeOK, Proc,
        files, processes, work, history
<1>1. /\ \A d \in Commander : cmd[d].pc = "idle"
      /\ due = {}
      /\ \A e \in Engine : Alive(e) => life[e] = "running"
  BY DEF Begin, Lapsed, Careless, Engaged
<1>2. /\ cmd'[c].pc = "look"
      /\ \A d \in Commander \ {c} : cmd'[d] = cmd[d]
  BY DEF Begin
<1> QED BY <1>1, <1>2 DEF Begin

\* What a command is about when it has looked.
LEMMA LookEffect ==
  ASSUME TypeOK, NEW c \in Commander, Look(c), cmd[c].op # "launch"
  PROVE  /\ cmd'[c].pc \in {"await", "term"} => cmd'[c].pid = pidFile
         /\ cmd'[c].pc \in {"clean", "spawn"} => ~Alive(pidFile)
         /\ cmd'[c].pc # "dying"
         /\ cmd'[c].pc = "look" => cmd'[c].op = "start"
<1> DEFINE op == cmd[c].op
<1>0. op \in {"start", "ensure", "stop", "restart", "status"} /\ cmd[c].pc = "look"
  BY DEF TypeOK, Ops, Look
<1>1. CASE op = "status" /\ (Alive(pidFile) \/ pidFile = None)
  <2>1. cmd' = [cmd EXCEPT ![c] = NoCmd]
    BY <1>1 DEF Look
  <2> QED BY <2>1 DEF NoCmd, TypeOK
<1>2. CASE op \in {"stop", "restart"} /\ Alive(pidFile)
  <2>1. cmd' = [cmd EXCEPT ![c] = [op |-> op, pc |-> "term", pid |-> pidFile]]
    BY <1>2 DEF Look
  <2> QED BY <2>1 DEF TypeOK
<1>3. CASE op \in {"start", "ensure"} /\ Alive(pidFile)
  <2>1. cmd' = [cmd EXCEPT ![c] = [op |-> op, pc |-> "await", pid |-> pidFile]]
    BY <1>3 DEF Look
  <2> QED BY <2>1 DEF TypeOK
<1>4. CASE op = "ensure" /\ ~Alive(pidFile)
  <2>1. cmd' = [cmd EXCEPT ![c] = [cmd[c] EXCEPT !.op = "start"]]
    BY <1>4 DEF Look
  <2> QED BY <1>0, <2>1 DEF TypeOK
<1>5. CASE /\ ~(op = "status" /\ (Alive(pidFile) \/ pidFile = None))
           /\ ~(op \in {"start", "ensure", "stop", "restart"} /\ Alive(pidFile))
           /\ ~(op = "ensure" /\ ~Alive(pidFile))
  <2>1. cmd' = [cmd EXCEPT ![c] = [cmd[c] EXCEPT !.pc = "clean"]]
    BY <1>5 DEF Look
  <2>2. ~Alive(pidFile)
    BY <1>0, <1>5
  <2> QED BY <1>0, <2>1, <2>2 DEF TypeOK
<1> QED BY <1>1, <1>2, <1>3, <1>4, <1>5

LEMMA CleanEffect ==
  ASSUME TypeOK, NEW c \in Commander, Clean(c)
  PROVE  cmd'[c].pc \in {"spawn", "idle", "look"} /\ (cmd'[c].pc = "look" => cmd'[c].op = "start")
<1>1. CASE cmd[c].op = "start"
  <2>1. cmd' = [cmd EXCEPT ![c] = [cmd[c] EXCEPT !.pc = "spawn"]]
    BY <1>1 DEF Clean
  <2> QED BY <2>1 DEF TypeOK
<1>2. CASE cmd[c].op \in {"stop", "launch", "status"}
  <2>1. cmd' = [cmd EXCEPT ![c] = NoCmd]
    BY <1>2 DEF Clean
  <2> QED BY <2>1 DEF TypeOK, NoCmd
<1>3. CASE cmd[c].op \notin {"start", "stop", "launch", "status"}
  <2>1. cmd' = [cmd EXCEPT ![c] = [cmd[c] EXCEPT !.op = "start", !.pc = "look"]]
    BY <1>3 DEF Clean
  <2> QED BY <2>1 DEF TypeOK
<1> QED BY <1>1, <1>2, <1>3

\* A command that is under way is the only one.
LEMMA SoloCommand ==
  ASSUME TypeOK, Solo, NEW c \in Commander, Command(c) \/ Quit(c)
  PROVE  Solo'
<1> USE HomeAssumption DEF Solo, OneEngine, OneCommand, Calm, Found, Legal, Known, Alive, TypeOK, Proc,
        files, processes, work, history
<1>1. CASE Look(c)
  <2>1. \A d \in Commander \ {c} : cmd'[d] = cmd[d] /\ cmd[d].pc = "idle"
    BY <1>1 DEF Look
  <2>2. due = {} /\ \A e \in Engine : Alive(e) => life[e] = "running" /\ pidFile = e
    BY <1>1 DEF Look
  <2>3. /\ cmd'[c].pc \in {"await", "term"} => cmd'[c].pid = pidFile
        /\ cmd'[c].pc \in {"clean", "spawn"} => ~Alive(pidFile)
        /\ cmd'[c].pc # "dying"
        /\ cmd'[c].pc = "look" => cmd'[c].op = "start"
    <3>1. cmd[c].op # "launch"
      BY <1>1 DEF Look
    <3> QED BY <1>1, <3>1, LookEffect
  <2> QED BY <1>1, <2>1, <2>2, <2>3 DEF Look
<1>2. CASE Await(c)
  BY <1>2 DEF Await, To
<1>3. CASE Term(c)
  <2>1. \A d \in Commander \ {c} : cmd'[d] = cmd[d] /\ cmd[d].pc = "idle"
    BY <1>3 DEF Term, To
  <2>0. cmd[c].pc = "term"
    BY <1>3 DEF Term
  <2>2. CASE ~Alive(cmd[c].pid) /\ To(c, "clean") /\ UNCHANGED <<files, processes, work>>
    <3>1. cmd'[c].pc = "clean" /\ \A e \in Engine : ~Alive(e)
      BY <1>3, <2>2 DEF Term, To
    <3> QED BY <2>0, <2>1, <2>2, <3>1
  <2>3. CASE Signal(cmd[c].pid) /\ To(c, "dying")
    <3>1. cmd'[c].pid = cmd[c].pid /\ cmd'[c].pc = "dying"
      BY <2>3 DEF To
    <3> DEFINE p == cmd[c].pid
    <3>2. Alive(p) /\ p \in Engine
      BY <2>3 DEF Signal
    <3>3. /\ life'[p] # "running"
          /\ \A e \in Engine \ {p} : life'[e] = life[e] /\ ~Alive(e)
      BY <2>3, <3>2 DEF Signal, Shutdown, Dies
    <3>4. due = {} /\ due' = {}
      BY <1>3, <2>3 DEF Term, Signal, Shutdown, Dies
    <3> QED BY <1>3, <2>1, <3>1, <3>2, <3>3, <3>4 DEF Term
  <2> QED BY <1>3, <2>2, <2>3 DEF Term
<1>4. CASE Dying(c)
  <2>1. \A d \in Commander \ {c} : cmd'[d] = cmd[d] /\ cmd[d].pc = "idle"
    BY <1>4 DEF Dying, To
  <2>2. cmd'[c].pc = "clean"
    BY <1>4 DEF Dying, To
  <2> QED BY <1>4, <2>1, <2>2 DEF Dying, Dies
<1>5. CASE Clean(c)
  <2>1. \A d \in Commander \ {c} : cmd'[d] = cmd[d] /\ cmd[d].pc = "idle"
    BY <1>5 DEF Clean
  <2>2. \A e \in Engine : ~Alive(e)
    BY <1>5 DEF Clean
  <2>3. cmd'[c].pc \in {"spawn", "idle", "look"} /\ (cmd'[c].pc = "look" => cmd'[c].op = "start")
    BY <1>5, CleanEffect
  <2> QED BY <1>5, <2>1, <2>2, <2>3 DEF Clean
<1>6. CASE Spawn(c)
  <2>1. \A d \in Commander \ {c} : cmd'[d] = cmd[d] /\ cmd[d].pc = "idle"
    BY <1>6 DEF Spawn
  <2>2. PICK e \in Engine : /\ life' = [life EXCEPT ![e] = "spawned"]
                            /\ cmd' = [cmd EXCEPT ![c] = [op |-> "launch", pc |-> "await", pid |-> e]]
    BY <1>6 DEF Spawn
  <2>3. \A f \in Engine : Alive(f)' => f = e
    BY <1>6, <2>2 DEF Spawn
  <2>4. cmd'[c].pid = e /\ cmd'[c].pc = "await"
    BY <2>2
  <2> QED BY <1>6, <2>1, <2>2, <2>3, <2>4 DEF Spawn
<1>7. CASE Quit(c)
  <2>1. cmd'[c].pc = "idle" /\ \A d \in Commander \ {c} : cmd'[d] = cmd[d]
    BY <1>7 DEF Quit, NoCmd
  <2> QED BY <1>7, <2>1 DEF Quit
<1> QED BY <1>1, <1>2, <1>3, <1>4, <1>5, <1>6, <1>7 DEF Command

LEMMA SoloStep == TypeOK /\ SoloInv /\ [Next]_vars => SoloInv'
<1> SUFFICES ASSUME TypeOK, SoloInv, [Next]_vars, "overlap" \notin lapse' PROVE Solo'
  BY DEF SoloInv
<1>0. Solo
  BY LapsesStay DEF SoloInv
<1>1. CASE \E p \in Proc : Boot(p) \/ Crash(p)
  BY <1>0, <1>1, SoloBoot, SoloEnd
<1>2. CASE \E p \in Cli : OpenCli(p) \/ CloseCli(p)
  BY <1>0, <1>2, SoloCli, SoloEnd DEF Proc
<1>3. CASE \E e \in Engine : Work(e) \/ Terminate(e) \/ RestartRequest(e) \/ End(e)
  BY <1>0, <1>3, SoloEngine, SoloEnd DEF End, Proc
<1>4. CASE \E c \in Commander : \E op \in Ops \ {"launch"} : Begin(c, op)
  BY <1>0, <1>4, SoloBegin
<1>5. CASE \E c \in Commander : Command(c) \/ Quit(c)
  BY <1>0, <1>5, SoloCommand
<1>6. CASE UNCHANGED vars
  BY <1>0, <1>6 DEF vars, files, processes, work, history, Solo, OneEngine, OneCommand, Calm,
     Found, Legal, Known, Alive
<1> QED BY <1>1, <1>2, <1>3, <1>4, <1>5, <1>6 DEF Next

\* A running engine can be found by its pid and its url, whatever has crashed
\* before, if no command is given while another is under way or an engine is
\* coming or going.
THEOREM EnginesAreFound == Spec => []EngineIsFound
<1>1. SoloInv => EngineIsFound
  BY DEF SoloInv, Solo, Found, EngineIsFound, Without
<1> QED BY <1>1, InitTypes, TypeStep, InitSolo, SoloStep, PTL DEF Spec

-----------------------------------------------------------------------------
(* Who is at work, and who else opens the store.                             *)

BusyRuns == busy \subseteq {e \in Engine : life[e] \in {"running", "closing"}}

CliAlone ==
  Without({"overlap", "cli"}) =>
    \A p \in Cli : Alive(p) => \A e \in Engine : ~Alive(e)

LEMMA BusyStep == TypeOK /\ BusyRuns /\ [Next]_vars => BusyRuns'
<1> SUFFICES ASSUME TypeOK, BusyRuns, [Next]_vars PROVE BusyRuns'
  OBVIOUS
<1> USE HomeAssumption DEF BusyRuns, TypeOK, Proc, Alive, files, processes, work, history
<1>1. CASE \E p \in Proc : Boot(p)
  BY <1>1 DEF Boot, OpenStore, WriteToken, VerifyToken, Bind, WritePid, Dies
<1>2. CASE \E p \in Proc : Crash(p)
  BY <1>2 DEF Crash, Dies
<1>3. CASE \E p \in Cli : OpenCli(p) \/ CloseCli(p)
  BY <1>3 DEF OpenCli, CloseCli, Dies, Disturbs, Lapsed
<1>4. CASE \E e \in Engine : Work(e)
  BY <1>4 DEF Work
<1>5. CASE \E e \in Engine : Terminate(e) \/ DueSignal(e)
  BY <1>5 DEF Terminate, DueSignal, Signal, Shutdown, Dies, Lapsed
<1>6. CASE \E e \in Engine : RestartRequest(e) \/ StopServer(e)
  BY <1>6 DEF RestartRequest, StopServer, Lapsed
<1>7. CASE \E e \in Engine : Leave(e)
  BY <1>7 DEF Leave, Lapsed, Disturbs
<1>8. CASE \E c \in Commander : \E op \in Ops \ {"launch"} : Begin(c, op)
  BY <1>8 DEF Begin, Lapsed
<1>9. CASE \E c \in Commander : Look(c) \/ Await(c) \/ Clean(c) \/ Quit(c)
  BY <1>9 DEF Look, Await, Clean, Quit
<1>10. CASE \E c \in Commander : Term(c) \/ Dying(c)
  BY <1>10 DEF Term, Dying, Signal, Shutdown, Dies
<1>11. CASE \E c \in Commander : Spawn(c)
  BY <1>11 DEF Spawn, Lapsed, Disturbs
<1>12. CASE UNCHANGED vars
  BY <1>12 DEF vars
<1> QED BY <1>1, <1>2, <1>3, <1>4, <1>5, <1>6, <1>7, <1>8, <1>9, <1>10, <1>11, <1>12 DEF Next, End, Command

LEMMA CliStep == TypeOK /\ CliAlone /\ [Next]_vars => CliAlone'
<1> SUFFICES ASSUME TypeOK, CliAlone, [Next]_vars, Without({"overlap", "cli"})',
                    NEW p \in Cli, Alive(p)', NEW e \in Engine, Alive(e)'
             PROVE  FALSE
  BY DEF CliAlone, Alive
<1>0. Without({"overlap", "cli"}) /\ (Alive(p) => \A f \in Engine : ~Alive(f))
  BY LapsesStay DEF Without, CliAlone
<1> USE HomeAssumption, <1>0 DEF Without, TypeOK, Proc, Alive, files, processes, work, history
<1>1. CASE \E x \in Proc : Boot(x)
  BY <1>1 DEF Boot, OpenStore, WriteToken, VerifyToken, Bind, WritePid, Dies
<1>2. CASE \E x \in Proc : Crash(x)
  BY <1>2 DEF Crash, Dies
<1>3. CASE \E x \in Cli : OpenCli(x) \/ CloseCli(x)
  BY <1>3 DEF OpenCli, CloseCli, Dies, Disturbs, Lapsed
<1>4. CASE \E x \in Engine : Work(x)
  BY <1>4 DEF Work
<1>5. CASE \E x \in Engine : Terminate(x) \/ DueSignal(x)
  BY <1>5 DEF Terminate, DueSignal, Signal, Shutdown, Dies, Lapsed
<1>6. CASE \E x \in Engine : RestartRequest(x) \/ StopServer(x)
  BY <1>6 DEF RestartRequest, StopServer, Lapsed
<1>7. CASE \E x \in Engine : Leave(x)
  BY <1>7 DEF Leave, Lapsed, Disturbs
<1>8. CASE \E c \in Commander : \E op \in Ops \ {"launch"} : Begin(c, op)
  BY <1>8 DEF Begin, Lapsed
<1>9. CASE \E c \in Commander : Look(c) \/ Await(c) \/ Clean(c) \/ Quit(c)
  BY <1>9 DEF Look, Await, Clean, Quit
<1>10. CASE \E c \in Commander : Term(c) \/ Dying(c)
  BY <1>10 DEF Term, Dying, Signal, Shutdown, Dies
<1>11. CASE \E c \in Commander : Spawn(c)
  <2>1. ~Alive(p)
    BY <1>11 DEF Spawn, Lapsed
  <2> QED BY <1>11, <2>1 DEF Spawn
<1>12. CASE UNCHANGED vars
  BY <1>12 DEF vars
<1> QED BY <1>1, <1>2, <1>3, <1>4, <1>5, <1>6, <1>7, <1>8, <1>9, <1>10, <1>11, <1>12 DEF Next, End, Command
LEMMA RecordedStep ==
  TypeOK /\ SoloInv /\ BusyRuns /\ CliAlone /\ WorkIsNotSwept /\ [Next]_vars => WorkIsNotSwept'
<1> SUFFICES ASSUME TypeOK, SoloInv, BusyRuns, CliAlone, WorkIsNotSwept, [Next]_vars,
                    Without({"overlap", "cli"})'
             PROVE  busy' \subseteq recorded'
  BY DEF WorkIsNotSwept
<1>0. Solo /\ busy \subseteq recorded /\ \A p \in Cli : Alive(p) => \A e \in Engine : ~Alive(e)
  BY LapsesStay DEF Without, CliAlone, SoloInv, WorkIsNotSwept
<1> USE HomeAssumption, <1>0 DEF TypeOK, Proc, Alive, files, processes, work, history
<1>1. CASE \E p \in Proc : OpenStore(p)
  <2>1. PICK p \in Proc : OpenStore(p)
    BY <1>1
  <2>2. \A e \in Engine : Alive(e) => e = p
    BY <1>0, <2>1 DEF Solo, OneEngine, OpenStore
  <2>3. busy = {}
    BY <2>1, <2>2 DEF OpenStore, BusyRuns
  <2> QED BY <2>1, <2>3 DEF OpenStore
<1>2. CASE \E p \in Proc : WriteToken(p) \/ VerifyToken(p) \/ Bind(p) \/ WritePid(p)
  BY <1>2 DEF WriteToken, VerifyToken, Bind, WritePid, Dies
<1>3. CASE \E p \in Proc : Crash(p)
  BY <1>3 DEF Crash, Dies
<1>4. CASE \E p \in Cli : OpenCli(p) \/ CloseCli(p)
  BY <1>4 DEF OpenCli, CloseCli, Dies, Disturbs, Lapsed
<1>5. CASE \E e \in Engine : Work(e)
  BY <1>5 DEF Work
<1>6. CASE \E e \in Engine : Terminate(e) \/ DueSignal(e)
  BY <1>6 DEF Terminate, DueSignal, Signal, Shutdown, Dies, Lapsed
<1>7. CASE \E e \in Engine : RestartRequest(e) \/ StopServer(e)
  BY <1>7 DEF RestartRequest, StopServer, Lapsed
<1>8. CASE \E e \in Engine : Leave(e)
  BY <1>8 DEF Leave, Lapsed, Disturbs
<1>9. CASE \E c \in Commander : \E op \in Ops \ {"launch"} : Begin(c, op)
  BY <1>9 DEF Begin, Lapsed
<1>10. CASE \E c \in Commander : Look(c) \/ Await(c) \/ Clean(c) \/ Quit(c)
  BY <1>10 DEF Look, Await, Clean, Quit
<1>11. CASE \E c \in Commander : Term(c) \/ Dying(c)
  BY <1>11 DEF Term, Dying, Signal, Shutdown, Dies
<1>12. CASE \E c \in Commander : Spawn(c)
  BY <1>12 DEF Spawn, Lapsed, Disturbs
<1>13. CASE UNCHANGED vars
  BY <1>13 DEF vars
<1> QED BY <1>1, <1>2, <1>3, <1>4, <1>5, <1>6, <1>7, <1>8, <1>9, <1>10, <1>11, <1>12, <1>13 DEF Next, End, Command, Boot

\* No other process marks the run of an engine at work interrupted, if no
\* command is given while another is under way or an engine is coming or going,
\* or opens a runtime of its own beside it.
THEOREM WorkSafe == Spec => []WorkIsNotSwept
<1>1. Init => BusyRuns /\ CliAlone /\ WorkIsNotSwept
  BY DEF Init, BusyRuns, CliAlone, WorkIsNotSwept, Alive, Proc
<1> QED
  BY <1>1, InitTypes, TypeStep, InitSolo, SoloStep, BusyStep, CliStep, RecordedStep, PTL DEF Spec

-----------------------------------------------------------------------------
(* Tokens. *)

Undisturbed ==
  \A e \in Engine \ disturbed : life[e] \in {"ready", "serving", "running"} =>
    tokenFile = e /\ \A q \in Proc \ {e} : ~Alive(q)

LEMMA TokenStep == TypeOK /\ Undisturbed /\ [Next]_vars => Undisturbed'
<1> SUFFICES ASSUME TypeOK, Undisturbed, [Next]_vars,
                    NEW e \in Engine, e \notin disturbed', life'[e] \in {"ready", "serving", "running"},
                    NEW q \in Proc
             PROVE  tokenFile' = e /\ (q # e => ~Alive(q)')
  BY DEF Undisturbed, Alive, Proc
<1> USE HomeAssumption DEF Undisturbed, TypeOK, Proc, Alive, files, processes, work, history
<1>1. CASE \E p \in Proc : OpenStore(p) \/ WriteToken(p) \/ Bind(p) \/ WritePid(p)
  BY <1>1 DEF OpenStore, WriteToken, Bind, WritePid, Dies
<1>2. CASE \E p \in Proc : VerifyToken(p)
  BY <1>2 DEF VerifyToken, Dies, Beside
<1>3. CASE \E p \in Proc : Crash(p)
  BY <1>3 DEF Crash, Dies
<1>4. CASE \E p \in Cli : OpenCli(p) \/ CloseCli(p)
  BY <1>4 DEF OpenCli, CloseCli, Dies, Disturbs, Lapsed
<1>5. CASE \E x \in Engine : Work(x)
  BY <1>5 DEF Work
<1>6. CASE \E x \in Engine : Terminate(x) \/ DueSignal(x)
  BY <1>6 DEF Terminate, DueSignal, Signal, Shutdown, Dies, Lapsed
<1>7. CASE \E x \in Engine : RestartRequest(x) \/ StopServer(x)
  BY <1>7 DEF RestartRequest, StopServer, Lapsed
<1>8. CASE \E x \in Engine : Leave(x)
  BY <1>8 DEF Leave, Lapsed, Disturbs
<1>9. CASE \E c \in Commander : \E op \in Ops \ {"launch"} : Begin(c, op)
  BY <1>9 DEF Begin, Lapsed
<1>10. CASE \E c \in Commander : Look(c) \/ Await(c) \/ Clean(c) \/ Quit(c)
  BY <1>10 DEF Look, Await, Clean, Quit
<1>11. CASE \E c \in Commander : Term(c) \/ Dying(c)
  BY <1>11 DEF Term, Dying, Signal, Shutdown, Dies
<1>12. CASE \E c \in Commander : Spawn(c)
  BY <1>12 DEF Spawn, Lapsed, Disturbs
<1>13. CASE UNCHANGED vars
  BY <1>13 DEF vars
<1> QED BY <1>1, <1>2, <1>3, <1>4, <1>5, <1>6, <1>7, <1>8, <1>9, <1>10, <1>11, <1>12, <1>13 DEF Next, End, Command, Boot

\* The token in the home is that of the running engine, if no other process was
\* there when it looked, and none has come since.
THEOREM TokensAccepted == Spec => []TokenIsAccepted
<1>1. Init => Undisturbed
  BY DEF Init, Undisturbed, Proc
<1>2. Undisturbed => TokenIsAccepted
  BY DEF Undisturbed, TokenIsAccepted
<1> QED BY <1>1, <1>2, InitTypes, TypeStep, TokenStep, PTL DEF Spec

-----------------------------------------------------------------------------
(* Restarts. *)

AgainEnds == again \subseteq {e \in Engine : life[e] \in {"closing", "freed", "dead"}}

MarkerIsAsked ==
  Without({"overlap"}) /\ marker => \E x \in asked \ again : life[x] \in {"running", "dead"}

LEMMA AgainStep == TypeOK /\ AgainEnds /\ [Next]_vars => AgainEnds'
<1> SUFFICES ASSUME TypeOK, AgainEnds, [Next]_vars PROVE AgainEnds'
  OBVIOUS
<1> USE HomeAssumption DEF AgainEnds, TypeOK, Proc, Alive, files, processes, work, history
<1>1. CASE \E p \in Proc : OpenStore(p) \/ WriteToken(p) \/ Bind(p) \/ WritePid(p)
  BY <1>1 DEF OpenStore, WriteToken, Bind, WritePid, Dies
<1>2. CASE \E p \in Proc : VerifyToken(p)
  BY <1>2 DEF VerifyToken, Dies, Beside
<1>3. CASE \E p \in Proc : Crash(p)
  BY <1>3 DEF Crash, Dies
<1>4. CASE \E p \in Cli : OpenCli(p) \/ CloseCli(p)
  BY <1>4 DEF OpenCli, CloseCli, Dies, Disturbs, Lapsed
<1>5. CASE \E e \in Engine : Work(e)
  BY <1>5 DEF Work
<1>6. CASE \E e \in Engine : Terminate(e) \/ DueSignal(e)
  BY <1>6 DEF Terminate, DueSignal, Signal, Shutdown, Dies, Lapsed
<1>7. CASE \E e \in Engine : RestartRequest(e) \/ StopServer(e)
  BY <1>7 DEF RestartRequest, StopServer, Lapsed
<1>8. CASE \E e \in Engine : Leave(e)
  BY <1>8 DEF Leave, Lapsed, Disturbs
<1>9. CASE \E c \in Commander : \E op \in Ops \ {"launch"} : Begin(c, op)
  BY <1>9 DEF Begin, Lapsed
<1>10. CASE \E c \in Commander : Look(c) \/ Await(c) \/ Clean(c) \/ Quit(c)
  BY <1>10 DEF Look, Await, Clean, Quit
<1>11. CASE \E c \in Commander : Term(c) \/ Dying(c)
  BY <1>11 DEF Term, Dying, Signal, Shutdown, Dies
<1>12. CASE \E c \in Commander : Spawn(c)
  BY <1>12 DEF Spawn, Lapsed, Disturbs
<1>13. CASE UNCHANGED vars
  BY <1>13 DEF vars
<1> QED BY <1>1, <1>2, <1>3, <1>4, <1>5, <1>6, <1>7, <1>8, <1>9, <1>10, <1>11, <1>12, <1>13 DEF Next, End, Command, Boot
\* An engine starts to shut down, or it is asked to shut down again.
Shuts(e) == Alive(e) /\ Shutdown(e) /\ asked' = asked

LEMMA RestartFrame ==
  ASSUME TypeOK, [Next]_vars
  PROVE  /\ asked \subseteq asked'
         /\ \A x \in Engine : life[x] = "dead" => life'[x] = "dead"
         /\ \/ /\ again' = again /\ (marker' => marker)
               /\ \A x \in Engine : life[x] = "running" => life'[x] \in {"running", "dead"}
            \/ \E e \in Engine : RestartRequest(e)
            \/ \E e \in Engine : Shuts(e)
<1> USE DEF TypeOK, Proc, Alive, files, processes, work, history
<1>1. CASE \E p \in Proc : OpenStore(p)
  BY <1>1 DEF OpenStore
<1>2. CASE \E p \in Proc : WriteToken(p) \/ VerifyToken(p) \/ Bind(p) \/ WritePid(p)
  BY <1>2 DEF WriteToken, VerifyToken, Bind, WritePid, Dies
<1>3. CASE \E p \in Proc : Crash(p)
  BY <1>3 DEF Crash, Dies
<1>4. CASE \E p \in Cli : OpenCli(p) \/ CloseCli(p)
  BY <1>4 DEF OpenCli, CloseCli, Dies, Disturbs, Lapsed
<1>5. CASE \E e \in Engine : Work(e)
  BY <1>5 DEF Work
<1>6. CASE \E e \in Engine : Terminate(e) \/ DueSignal(e)
  BY <1>6 DEF Terminate, DueSignal, Signal, Shuts, Shutdown, Dies
<1>7. CASE \E e \in Engine : RestartRequest(e) \/ StopServer(e)
  BY <1>7 DEF RestartRequest, StopServer, Lapsed
<1>8. CASE \E e \in Engine : Leave(e)
  BY <1>8 DEF Leave, Lapsed, Disturbs
<1>9. CASE \E c \in Commander : \E op \in Ops \ {"launch"} : Begin(c, op)
  BY <1>9 DEF Begin, Lapsed
<1>10. CASE \E c \in Commander : Look(c) \/ Await(c) \/ Clean(c) \/ Quit(c)
  BY <1>10 DEF Look, Await, Clean, Quit
<1>11. CASE \E c \in Commander : Dying(c)
  BY <1>11 DEF Dying, Dies
<1>12. CASE \E c \in Commander : Term(c)
  BY <1>12 DEF Term, Signal, Shuts, Shutdown, Dies
<1>13. CASE \E c \in Commander : Spawn(c)
  BY <1>13 DEF Spawn, Lapsed, Disturbs
<1>14. CASE UNCHANGED vars
  BY <1>14 DEF vars
<1> QED BY <1>1, <1>2, <1>3, <1>4, <1>5, <1>6, <1>7, <1>8, <1>9, <1>10, <1>11, <1>12, <1>13, <1>14 DEF Next, End, Command, Boot

LEMMA RestartStep ==
  TypeOK /\ SoloInv /\ AgainEnds /\ MarkerIsAsked /\ RestartIsAsked /\ [Next]_vars
    => MarkerIsAsked' /\ RestartIsAsked'
<1> SUFFICES ASSUME TypeOK, SoloInv, AgainEnds, MarkerIsAsked, RestartIsAsked, [Next]_vars,
                    Without({"overlap"})'
             PROVE  MarkerIsAsked' /\ RestartIsAsked'
  BY DEF MarkerIsAsked, RestartIsAsked
<1>0. Without({"overlap"}) /\ Solo
  BY LapsesStay DEF Without, SoloInv
<1>1. /\ asked \subseteq asked'
      /\ \A x \in Engine : life[x] = "dead" => life'[x] = "dead"
  BY RestartFrame
<1>2. asked \subseteq Engine /\ again \subseteq Engine
  BY DEF TypeOK
<1>3. CASE /\ again' = again /\ (marker' => marker)
           /\ \A x \in Engine : life[x] = "running" => life'[x] \in {"running", "dead"}
  BY <1>0, <1>1, <1>2, <1>3 DEF MarkerIsAsked, RestartIsAsked
<1>4. ASSUME NEW e \in Engine, RestartRequest(e) PROVE MarkerIsAsked' /\ RestartIsAsked'
  <2>1. e \in asked' \ again' /\ life'[e] = "running" /\ again' = again
    BY <1>4 DEF RestartRequest, AgainEnds
  <2> QED BY <1>0, <1>1, <1>2, <2>1 DEF MarkerIsAsked, RestartIsAsked
<1>5. ASSUME NEW e \in Engine, Shuts(e) PROVE MarkerIsAsked' /\ RestartIsAsked'
  <2>1. /\ again' \subseteq again \union {e} /\ (e \in again' \ again => marker)
        /\ ~marker' /\ asked' = asked /\ life[e] # "dead"
    BY <1>5 DEF Shuts, Shutdown, Alive, TypeOK
  <2>2. \A x \in asked \ again : life[x] = "dead" => x \in asked' \ again' /\ life'[x] = "dead"
    BY <1>1, <1>2, <2>1
  <2>3. ASSUME NEW f \in again'
        PROVE  f \in asked' \/ \E x \in asked' \ again' : life'[x] = "dead"
    <3>1. CASE f \in again
      BY <1>0, <2>1, <2>2, <3>1 DEF RestartIsAsked
    <3>2. CASE f \notin again
      <4>1. f = e /\ marker
        BY <2>1, <3>2
      <4>2. PICK x \in asked \ again : life[x] \in {"running", "dead"}
        BY <1>0, <4>1 DEF MarkerIsAsked
      <4>3. CASE life[x] = "running"
        <5>1. x = e
          BY <1>0, <1>2, <1>5, <4>3, HomeAssumption DEF Solo, OneEngine, Alive, Shuts, Proc
        <5> QED BY <2>1, <4>1, <5>1
      <4>4. CASE life[x] = "dead"
        BY <2>2, <4>4
      <4> QED BY <4>2, <4>3, <4>4
    <3> QED BY <3>1, <3>2
  <2> QED BY <2>1, <2>3 DEF MarkerIsAsked, RestartIsAsked
<1> QED BY <1>3, <1>4, <1>5, RestartFrame

\* An engine that shuts down starts another one only if it was asked to
\* restart, or if one that was has died with its marker left behind.
THEOREM RestartsAreAsked == Spec => []RestartIsAsked
<1>1. Init => AgainEnds /\ MarkerIsAsked /\ RestartIsAsked
  BY DEF Init, AgainEnds, MarkerIsAsked, RestartIsAsked
<1> QED
  BY <1>1, InitTypes, TypeStep, InitSolo, SoloStep, AgainStep, RestartStep, PTL DEF Spec
=============================================================================
