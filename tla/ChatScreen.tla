----------------------------- MODULE ChatScreen -----------------------------
(***************************************************************************)
(* The chat of the desktop application: what its main process shows of a   *)
(* session while the user sends, answers, opens, archives and creates, and *)
(* turns go on in the engine.  There are two copies of the chat.  The      *)
(* controller of the access client (ctl) loads histories and makes the     *)
(* calls; the desktop service (shell) follows the events of the turns by   *)
(* itself and takes over the controller's copy after each of its calls.    *)
(*                                                                         *)
(* since, doubt, faltered and missed are history variables: they record what the     *)
(* user has done that the code does not protect the screen from.           *)
(***************************************************************************)
EXTENDS Naturals, Sequences

CONSTANTS Session, Turn, Hand, None,
          MaxCalls    \* bound on the calls of the renderer

ASSUME NamesAreNotNone == None \notin Session \cup Turn
ASSUME MaxCallsIsNat == MaxCalls \in Nat

VARIABLES
  known,      \* the engine's sessions: "new" (not created yet), "live", "archived"
  history,    \* what chat.history answers of each
  turn,       \* the turns of the engine and where they stand
  wire,       \* the events of each turn on their way to the application
  ctl,        \* the controller's copy of the chat
  shell,      \* the service's copy: what the screen shows
  selected,   \* the session marked in the side bar
  booted,     \* bootstrapped
  call,       \* what each call of the renderer is waiting for
  calls,      \* how many there have been
  since,      \* a turn has been sent since the messages were loaded
  doubt,      \* messages shown may have been replaced or mixed
  faltered,   \* a start has met an error
  missed      \* turns whose question has been shown and replaced

engine == <<known, history, turn, wire>>
screen == <<ctl, shell, selected, booted>>
ghosts == <<since, doubt, faltered, missed>>
vars == <<engine, screen, call, calls, ghosts>>

\* The items of a conversation, each named for its turn and its place in it.
\* Notes of the application itself ("Stopped by user", errors of connecting)
\* and the order of the items are left out.
Items == Turn \X {"prompt", "tool", "answer", "error"}
Events == {"ask", "tool", "done", "error", "complete"}

Ops == {"boot", "default", "create", "open", "archive", "send", "respond", "stop"}
Starting == {"boot", "default"}
Idle == [op |-> "none", at |-> "none", session |-> None, turn |-> None,
         read |-> {}, clean |-> FALSE]

\* How often each item of S is shown, when S has just been loaded.
Once(S) == [i \in Items |-> IF i \in S THEN 1 ELSE 0]

\* The shell's copy right after it has been taken from the controller, whose
\* own pendingApproval, isStreaming and streamingText nothing here ever sets.
Taken(c) == [session |-> c.session, messages |-> Once(c.messages), asked |-> None, streaming |-> FALSE]

UnderWay(t) == turn[t].at \in {"talk", "ask"} \/ wire[t] # <<>>
Quiet == \A t \in Turn : ~UnderWay(t)
Waiting(t) == turn[t].at = "ask"
Live == {s \in Session : known[s] = "live"}
Delivered(t) == Waiting(t) /\ \A i \in DOMAIN wire[t] : wire[t][i] # "ask"

TypeOK ==
  /\ known \in [Session -> {"new", "live", "archived"}]
  /\ history \in [Session -> SUBSET Items]
  /\ turn \in [Turn -> [at : {"none", "talk", "ask", "over"},
                        session : Session \cup {None}, asked : BOOLEAN]]
  /\ wire \in [Turn -> Seq(Events)]
  /\ ctl \in [session : Session \cup {None}, messages : SUBSET Items]
  /\ shell \in [session : Session \cup {None}, messages : [Items -> Nat],
                asked : Turn \cup {None}, streaming : BOOLEAN]
  /\ selected \in Session \cup {None}
  /\ booted \in BOOLEAN
  /\ call \in [Hand -> [op : Ops \cup {"none"},
                        at : {"none", "latest", "create", "read", "show", "send", "ask",
                              "settle", "destroy", "list", "inventory"},
                        session : Session \cup {None}, turn : Turn \cup {None},
                        read : SUBSET Items, clean : BOOLEAN]]
  /\ calls \in 0 .. MaxCalls
  /\ since \in BOOLEAN /\ doubt \in BOOLEAN /\ faltered \in BOOLEAN /\ missed \subseteq Turn

Init ==
  /\ known \in [Session -> {"new", "live"}]
  /\ history = [s \in Session |-> {}]
  /\ turn = [t \in Turn |-> [at |-> "none", session |-> None, asked |-> FALSE]]
  /\ wire = [t \in Turn |-> <<>>]
  /\ ctl = [session |-> None, messages |-> {}]
  /\ shell = Taken(ctl)
  /\ selected = None
  /\ booted = FALSE
  /\ call = [h \in Hand |-> Idle]
  /\ calls = 0
  /\ since = FALSE /\ doubt = FALSE /\ faltered = FALSE /\ missed = {}

-----------------------------------------------------------------------------
(* Calls of the renderer.  Each may be under way while others are. *)

Begin(h, op, at, s, t) ==
  /\ call[h] = Idle
  /\ calls < MaxCalls
  /\ calls' = calls + 1
  /\ call' = [call EXCEPT ![h] = [op |-> op, at |-> at, session |-> s, turn |-> t,
                                  read |-> {}, clean |-> FALSE]]
  /\ UNCHANGED <<engine, screen, ghosts>>

\* Any call made before the first bootstrap is over bootstraps as well.
Boot(h) == ~booted /\ Begin(h, "boot", "latest", None, None)

CreateChat(h) == booted /\ Begin(h, "create", "create", None, None)

Open(h, s) == booted /\ known[s] # "new" /\ Begin(h, "open", "read", s, None)

Archive(h, s) == booted /\ known[s] # "new" /\ Begin(h, "archive", "destroy", s, None)

\* Without a session on the screen the first message creates one.
FirstMessage(h, t) ==
  /\ booted /\ shell.session = None /\ turn[t].at = "none"
  /\ Begin(h, "send", "create", None, t)

\* The user answers what is on the screen: a request for approval or a question.
Respond(h) == booted /\ shell.asked # None /\ Begin(h, "respond", "ask", None, shell.asked)

Stop(h) == booted /\ ctl.session # None /\ Begin(h, "stop", "ask", ctl.session, None)

SelectScreen ==
  /\ booted /\ calls < MaxCalls
  /\ calls' = calls + 1
  /\ selected' = None
  /\ UNCHANGED <<engine, ctl, shell, booted, call, ghosts>>

-----------------------------------------------------------------------------
(* The requests a call makes, in the order in which it awaits them. *)

\* session.getLatest: a session to resume, or none.
Latest(h) ==
  /\ call[h].at = "latest"
  /\ \/ /\ Live = {}
        /\ call' = [call EXCEPT ![h].at = "create"]
     \/ \E s \in Live : call' = [call EXCEPT ![h].at = "read", ![h].session = s]
  /\ UNCHANGED <<engine, screen, calls, ghosts>>

Create(h) ==
  /\ call[h].at = "create"
  /\ \E s \in Session :
       /\ known[s] = "new"
       /\ known' = [known EXCEPT ![s] = "live"]
       /\ call' = [call EXCEPT ![h].at = "show", ![h].session = s, ![h].clean = Quiet]
  /\ UNCHANGED <<history, turn, wire, screen, calls, ghosts>>

\* chat.history; the screen is set only after the session's controls have come.
Read(h) ==
  /\ call[h].at = "read"
  /\ call' = [call EXCEPT ![h].at = "show", ![h].read = history[call[h].session],
                          ![h].clean = Quiet]
  /\ UNCHANGED <<engine, screen, calls, ghosts>>

\* What was shown is replaced by the controller's copy c.
Replace(c) ==
  /\ ctl' = c
  /\ shell' = Taken(c)
  /\ missed' = missed \cup {t \in Turn : Delivered(t)}

\* Connecting goes on with the inventory of sessions, a first message with its turn.
After(c) ==
  CASE c.op = "boot" -> [Idle EXCEPT !.op = "boot", !.at = "inventory"]
    [] c.op = "send" -> [Idle EXCEPT !.op = "send", !.at = "send", !.turn = c.turn]
    [] OTHER -> Idle

Show(h) ==
  /\ call[h].at = "show"
  /\ Replace([session |-> call[h].session, messages |-> call[h].read])
  /\ selected' = IF call[h].op \in Starting THEN selected ELSE call[h].session
  /\ booted' = (booted \/ call[h].op = "default")
  /\ since' = ~call[h].clean
  /\ doubt' = ~call[h].clean
  /\ call' = [call EXCEPT ![h] = After(@)]
  /\ UNCHANGED <<engine, calls, faltered>>

\* The end of ensureBootstrapped: the session connected to is selected or,
\* without one, any session there is.
Inventory(h) ==
  /\ call[h].at = "inventory"
  /\ LET others == {s \in Session : known[s] # "new"}
     IN \/ /\ shell.session # None \/ others = {}
           /\ selected' = shell.session
           /\ booted' = TRUE
           /\ call' = [call EXCEPT ![h] = Idle]
        \/ \E s \in others :
             /\ shell.session = None
             /\ selected' = s
             /\ call' = [call EXCEPT ![h] = [Idle EXCEPT !.op = "default", !.at = "read", !.session = s]]
             /\ UNCHANGED booted
  /\ UNCHANGED <<engine, ctl, shell, calls, ghosts>>

\* A request fails.  Connecting and creating say so on the screen and go on, the
\* other calls are rejected; so is a first message whose session is there, when
\* the list of sessions cannot be refreshed: it is never sent.
Fail(h) ==
  /\ call[h].at # "none"
  /\ IF call[h].op \in {"boot", "create", "send"} /\ call[h].at \notin {"inventory", "send"}
       THEN /\ Replace(ctl)
            /\ selected' = IF call[h].op = "boot" THEN selected ELSE ctl.session
            /\ doubt' = (doubt \/ since)
            /\ call' = [call EXCEPT ![h] = After(@)]
            /\ UNCHANGED since
       ELSE /\ call' = [call EXCEPT ![h] = Idle]
            /\ UNCHANGED <<ctl, shell, selected, since, doubt, missed>>
  /\ faltered' = (faltered \/ call[h].op \in Starting)
  /\ UNCHANGED <<engine, booted, calls>>

\* One more item of a kind on the screen.
Say(kind, t) == [shell EXCEPT !.messages[<<t, kind>>] = @ + 1]

Emit(t, events) == wire' = [wire EXCEPT ![t] = @ \o events]

\* runChatTurn, up to its subscription, and the engine's answer to that: only
\* a live session starts a turn.
SendNow(t) ==
  /\ turn[t].at = "none"
  /\ IF shell.session \in Live
       THEN /\ turn' = [turn EXCEPT ![t] = [at |-> "talk", session |-> shell.session, asked |-> FALSE]]
            /\ history' = [history EXCEPT ![shell.session] = @ \cup {<<t, "prompt">>}]
            /\ UNCHANGED wire
       ELSE /\ turn' = [turn EXCEPT ![t] = [at |-> "over", session |-> shell.session, asked |-> FALSE]]
            /\ Emit(t, <<"error">>)
            /\ UNCHANGED history
  /\ shell' = [Say("prompt", t) EXCEPT !.streaming = TRUE]
  /\ selected' = shell.session
  /\ since' = TRUE
  /\ UNCHANGED <<known, ctl, booted, doubt, faltered, missed>>

Unclean(c) == [h \in Hand |-> [c[h] EXCEPT !.clean = FALSE]]

Send(t) ==
  /\ booted /\ shell.session # None
  /\ SendNow(t)
  /\ call' = Unclean(call)
  /\ UNCHANGED calls

SendFirst(h) ==
  /\ call[h].at = "send"
  /\ IF turn[call[h].turn].at = "none" THEN SendNow(call[h].turn)
     ELSE UNCHANGED <<engine, screen, ghosts>>
  /\ call' = Unclean([call EXCEPT ![h] = Idle])
  /\ UNCHANGED calls

\* A turn that waited goes on: its tool runs and says so.
Resume(t) ==
  /\ turn' = [turn EXCEPT ![t].at = "talk"]
  /\ history' = [history EXCEPT ![turn[t].session] = @ \cup {<<t, "tool">>}]
  /\ Emit(t, <<"tool">>)

\* chat.stop: what waits in the session waits no longer, and its tools do not run.
Unblock(s) ==
  turn' = [t \in Turn |-> IF Waiting(t) /\ turn[t].session = s
                          THEN [turn[t] EXCEPT !.at = "talk"] ELSE turn[t]]

\* tool.approve, question.answer or chat.stop reaches the engine.
Reach(h) ==
  /\ call[h].at = "ask"
  /\ call' = [call EXCEPT ![h].at = "settle"]
  /\ \/ call[h].op # "stop" /\ Waiting(call[h].turn) /\ Resume(call[h].turn)
     \/ call[h].op # "stop" /\ ~Waiting(call[h].turn) /\ UNCHANGED <<turn, history, wire>>
     \/ call[h].op = "stop" /\ Unblock(call[h].session) /\ UNCHANGED <<history, wire>>
  /\ UNCHANGED <<known, screen, calls, ghosts>>

\* Its reply: the screen becomes the controller's copy, which has none of the
\* turns sent since it was loaded.
Settle(h) ==
  /\ call[h].at = "settle"
  /\ Replace(ctl)
  /\ doubt' = (doubt \/ since)
  /\ call' = [call EXCEPT ![h] = Idle]
  /\ UNCHANGED <<engine, selected, booted, calls, since, faltered>>

\* session.destroy; a session already archived is left alone.
Destroy(h) ==
  /\ call[h].at = "destroy"
  /\ LET s == call[h].session
     IN /\ known' = [known EXCEPT ![s] = "archived"]
        /\ Unblock(s)
        /\ call' = [call EXCEPT ![h] = IF known[s] = "live" THEN [@ EXCEPT !.at = "list"] ELSE Idle]
  /\ UNCHANGED <<history, wire, screen, calls, ghosts>>

\* The session list: when the archived session is the one on the screen, the
\* next live one is opened, and without one the screen is emptied.
List(h) ==
  /\ call[h].at = "list"
  /\ LET s == call[h].session
     IN IF call[h].session \notin {shell.session, selected}
          THEN /\ call' = [call EXCEPT ![h] = Idle]
               /\ UNCHANGED <<shell, selected, missed>>
        ELSE IF Live # {}
          THEN /\ \E n \in Live : call' = [call EXCEPT ![h].at = "read", ![h].session = n]
               /\ UNCHANGED <<shell, selected, missed>>
          ELSE /\ shell' = Taken([session |-> None, messages |-> {}])
               /\ selected' = None
               /\ missed' = missed \cup {t \in Turn : Delivered(t)}
               /\ call' = [call EXCEPT ![h] = Idle]
  /\ UNCHANGED <<engine, ctl, booted, calls, since, doubt, faltered>>

-----------------------------------------------------------------------------
(* The turns in the engine, as the application can tell them apart. *)

Ask(t) ==
  /\ turn[t].at = "talk" /\ ~turn[t].asked
  /\ turn' = [turn EXCEPT ![t] = [at |-> "ask", session |-> @.session, asked |-> TRUE]]
  /\ Emit(t, <<"ask">>)
  /\ UNCHANGED <<known, history, screen, call, calls, ghosts>>

\* The request times out or another client answers it: nothing tells this one.
Expire(t) ==
  /\ Waiting(t)
  /\ Resume(t)
  /\ UNCHANGED <<known, screen, call, calls, ghosts>>

Finish(t) ==
  /\ turn[t].at = "talk"
  /\ turn' = [turn EXCEPT ![t].at = "over"]
  /\ \/ /\ history' = [history EXCEPT ![turn[t].session] = @ \cup {<<t, "answer">>}]
        /\ Emit(t, <<"done", "complete">>)
     \/ UNCHANGED history /\ Emit(t, <<"error", "complete">>)
  /\ UNCHANGED <<known, screen, call, calls, ghosts>>

-----------------------------------------------------------------------------
(* The handlers of the subscription, which work on whatever is shown. *)

OnAsk(t) == [shell EXCEPT !.asked = t]
\* Mutant: a tool that has ended clears the request on the screen.
ClearsRequest(t) == [Say("tool", t) EXCEPT !.asked = None]
OnTool(t) == Say("tool", t)
OnDone(t) == [Say("answer", t) EXCEPT !.streaming = FALSE]
OnError(t) == [Say("error", t) EXCEPT !.streaming = FALSE]
\* Mutant: the completion adds the text whether or not it is shown.
SaysTwice(t) == Say("answer", t)
OnComplete(t) == IF shell.messages[<<t, "answer">>] > 0 THEN shell ELSE Say("answer", t)

\* The completion adds what a turn that broke off has streamed.
Receive(t) ==
  /\ wire[t] # <<>>
  /\ wire' = [wire EXCEPT ![t] = Tail(@)]
  /\ \/ Head(wire[t]) = "ask" /\ shell' = OnAsk(t)
     \/ Head(wire[t]) = "tool" /\ shell' = OnTool(t)
     \/ Head(wire[t]) = "done" /\ shell' = OnDone(t)
     \/ Head(wire[t]) = "error" /\ shell' = OnError(t)
     \/ Head(wire[t]) = "complete" /\ shell' = OnComplete(t)
  /\ missed' = IF Head(wire[t]) = "ask" THEN missed \cup {u \in Turn \ {t} : Delivered(u)} ELSE missed
  /\ UNCHANGED <<known, history, turn, ctl, selected, booted, call, calls, since, doubt, faltered>>

-----------------------------------------------------------------------------
Call(h) ==
  \/ Boot(h) \/ CreateChat(h) \/ Respond(h) \/ Stop(h)
  \/ \E s \in Session : Open(h, s) \/ Archive(h, s)
  \/ \E t \in Turn : FirstMessage(h, t)

Continue(h) ==
  \/ Latest(h) \/ Create(h) \/ Read(h) \/ Show(h) \/ Inventory(h) \/ Fail(h) \/ SendFirst(h)
  \/ Reach(h) \/ Settle(h) \/ Destroy(h) \/ List(h)

TurnStep(t) == Send(t) \/ Ask(t) \/ Expire(t) \/ Finish(t) \/ Receive(t)

Next ==
  \/ SelectScreen
  \/ \E h \in Hand : Call(h) \/ Continue(h)
  \/ \E t \in Turn : TurnStep(t)

Spec == Init /\ [][Next]_vars
=============================================================================
