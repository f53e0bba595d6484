---------------------------- MODULE ScreenProofs ----------------------------
(***************************************************************************)
(* Theorems about ChatScreen for any sessions, turns and calls.            *)
(***************************************************************************)
EXTENDS ChatScreenProperties, TLAPS

USE NamesAreNotNone, MaxCallsIsNat
USE DEF engine, screen, ghosts, Ops, Starting, Idle, Events

-----------------------------------------------------------------------------
(* Types                                                                   *)
-----------------------------------------------------------------------------
(* A call has the session or the turn its next request is about, and a turn *)
(* that has begun has a session.                                            *)
Fits(c) ==
  /\ c.at = "none" <=> c.op = "none"
  /\ c.at \in {"read", "show", "destroy", "list"} => c.session \in Session
  /\ c.at = "ask" => \/ c.op = "stop" /\ c.session \in Session
                     \/ c.op = "respond" /\ c.turn \in Turn
  /\ c.at = "send" \/ c.op = "send" => c.turn \in Turn
CallsFit == \A h \in Hand : Fits(call[h])
TurnsFit == \A t \in Turn : turn[t].at \in {"talk", "ask"} => turn[t].session \in Session

CallRecord ==
  [op : Ops \cup {"none"},
   at : {"none", "latest", "create", "read", "show", "send", "ask",
         "settle", "destroy", "list", "inventory"},
   session : Session \cup {None}, turn : Turn \cup {None},
   read : SUBSET Items, clean : BOOLEAN]
TurnRecord == [at : {"none", "talk", "ask", "over"}, session : Session \cup {None}, asked : BOOLEAN]
Copy == [session : Session \cup {None}, messages : SUBSET Items]
Shown == [session : Session \cup {None}, messages : [Items -> Nat],
          asked : Turn \cup {None}, streaming : BOOLEAN]

(* The parts of TypeOK, each by its name. *)
EngineTypes ==
  /\ known \in [Session -> {"new", "live", "archived"}]
  /\ history \in [Session -> SUBSET Items]
  /\ turn \in [Turn -> TurnRecord]
  /\ wire \in [Turn -> Seq(Events)]
ScreenTypes ==
  /\ ctl \in Copy
  /\ shell \in Shown
  /\ selected \in Session \cup {None}
  /\ booted \in BOOLEAN
GhostTypes == since \in BOOLEAN /\ doubt \in BOOLEAN /\ faltered \in BOOLEAN /\ missed \in SUBSET Turn
CallTypes == call \in [Hand -> CallRecord]

TypeInv ==
  /\ EngineTypes /\ ScreenTypes /\ GhostTypes /\ CallTypes /\ calls \in 0 .. MaxCalls
  /\ CallsFit /\ TurnsFit

LEMMA TypeInvIsEnough == TypeInv => TypeOK
BY DEF TypeInv, TypeOK, EngineTypes, ScreenTypes, GhostTypes, CallTypes, CallRecord, TurnRecord, Copy, Shown

LEMMA TypeInit == Init => TypeInv
<1>. SUFFICES ASSUME Init PROVE TypeInv
  OBVIOUS
<1>1. EngineTypes
  BY DEF Init, EngineTypes, TurnRecord
<1>2. ScreenTypes
  BY DEF Init, ScreenTypes, Copy, Shown, Taken, Once
<1>3. CallTypes
  <2>1. Idle \in CallRecord
    BY DEF CallRecord
  <2>. QED BY <2>1 DEF Init, CallTypes
<1>4. CallsFit /\ TurnsFit
  BY DEF Init, CallsFit, Fits, TurnsFit
<1>5. calls = 0 /\ since = FALSE /\ doubt = FALSE /\ faltered = FALSE /\ missed = {}
  BY DEF Init
<1>6. calls \in 0 .. MaxCalls
  BY <1>5
<1>7. GhostTypes
  BY <1>5 DEF GhostTypes
<1>. QED BY <1>1, <1>2, <1>3, <1>4, <1>6, <1>7 DEF TypeInv

LEMMA EmitType ==
  ASSUME EngineTypes, NEW t \in Turn, NEW events \in Seq(Events), Emit(t, events)
  PROVE  wire' \in [Turn -> Seq(Events)]
BY DEF EngineTypes, Emit

LEMMA EventsType ==
  /\ <<"ask">> \in Seq(Events) /\ <<"tool">> \in Seq(Events) /\ <<"error">> \in Seq(Events)
  /\ <<"done", "complete">> \in Seq(Events) /\ <<"error", "complete">> \in Seq(Events)
OBVIOUS

LEMMA TakenType == ASSUME NEW c \in Copy PROVE Taken(c) \in Shown
BY DEF Taken, Once, Copy, Shown

(* The record of a call after a step of it. *)
LEMMA CallStepType ==
  ASSUME CallTypes, CallsFit, NEW h \in Hand, NEW new \in CallRecord, Fits(new),
         call' = [call EXCEPT ![h] = new]
  PROVE  CallTypes' /\ CallsFit'
BY DEF CallTypes, CallsFit

LEMMA IdleFits == Idle \in CallRecord /\ Fits(Idle)
BY DEF CallRecord, Fits

LEMMA TypeCall == ASSUME TypeInv, NEW h \in Hand, Call(h) PROVE TypeInv'
<1>1. SUFFICES ASSUME NEW op \in Ops, NEW at \in {"latest", "create", "read", "destroy", "ask"},
                      NEW s \in Session \cup {None}, NEW t \in Turn \cup {None},
                      Begin(h, op, at, s, t),
                      at \in {"read", "destroy"} => s \in Session,
                      op = "send" => t \in Turn,
                      at = "ask" => \/ op = "stop" /\ s \in Session
                                    \/ op = "respond" /\ t \in Turn
               PROVE  TypeInv'
  <2>1. shell.asked \in Turn \cup {None} /\ ctl.session \in Session \cup {None}
    BY DEF TypeInv, ScreenTypes, Copy, Shown
  <2>. QED BY <2>1 DEF Call, Boot, CreateChat, Open, Archive, FirstMessage, Respond, Stop
<1>2. CallTypes /\ CallsFit /\ TurnsFit /\ EngineTypes /\ ScreenTypes /\ GhostTypes /\ calls \in Nat
  BY DEF TypeInv
<1> DEFINE new == [op |-> op, at |-> at, session |-> s, turn |-> t, read |-> {}, clean |-> FALSE]
<1>3. new \in CallRecord /\ Fits(new)
  <2>1. new \in CallRecord
    BY DEF CallRecord
  <2>2. /\ new.at = at /\ new.op = op /\ new.session = s /\ new.turn = t
        /\ at \notin {"none", "send", "show", "list"} /\ op # "none"
    OBVIOUS
  <2> HIDE DEF new
  <2>3. Fits(new)
    BY <1>1, <2>2 DEF Fits
  <2>. QED BY <2>1, <2>3
<1>4. call' = [call EXCEPT ![h] = new] /\ UNCHANGED <<engine, screen, ghosts>>
  BY <1>1 DEF Begin
<1>5. CallTypes' /\ CallsFit'
  BY <1>2, <1>3, <1>4, CallStepType
<1>6. EngineTypes' /\ ScreenTypes' /\ GhostTypes' /\ TurnsFit'
  BY <1>2, <1>4 DEF EngineTypes, ScreenTypes, GhostTypes, TurnsFit
<1>7. calls' \in 0 .. MaxCalls
  BY <1>1, <1>2 DEF Begin
<1>. QED BY <1>5, <1>6, <1>7 DEF TypeInv

(* The requests that change nothing but their call. *)
LEMMA TypeLook ==
  ASSUME TypeInv, NEW h \in Hand, Latest(h) \/ Read(h)
  PROVE  TypeInv'
<1>0. /\ CallTypes /\ CallsFit /\ EngineTypes
      /\ call[h] \in CallRecord /\ Fits(call[h])
  BY DEF TypeInv, CallTypes, CallsFit
<1>1. SUFFICES ASSUME NEW new \in CallRecord, Fits(new), call' = [call EXCEPT ![h] = new],
                      UNCHANGED <<engine, screen, calls, ghosts>>
               PROVE  TypeInv'
  <2>1. ASSUME call[h].at = "latest", call' = [call EXCEPT ![h].at = "create"],
               UNCHANGED <<engine, screen, calls, ghosts>>
        PROVE  TypeInv'
    <3> DEFINE new == [call[h] EXCEPT !.at = "create"]
    <3>1. new \in CallRecord /\ Fits(new)
      BY <1>0, <2>1 DEF CallRecord, Fits
    <3>. QED BY <1>1, <2>1, <3>1
  <2>2. ASSUME NEW s \in Live, call[h].at = "latest",
               call' = [call EXCEPT ![h].at = "read", ![h].session = s],
               UNCHANGED <<engine, screen, calls, ghosts>>
        PROVE  TypeInv'
    <3> DEFINE new == [call[h] EXCEPT !.at = "read", !.session = s]
    <3>1. new \in CallRecord /\ Fits(new)
      BY <1>0, <2>2 DEF CallRecord, Fits, Live
    <3>. QED BY <1>1, <2>2, <3>1
  <2>3. ASSUME Read(h) PROVE TypeInv'
    <3> DEFINE new == [call[h] EXCEPT !.at = "show", !.read = history[call[h].session], !.clean = Quiet]
    <3>1. call[h].session \in Session /\ call[h].op # "none"
      BY <1>0, <2>3 DEF Read, Fits
    <3>2. history[call[h].session] \in SUBSET Items
      BY <1>0, <3>1 DEF EngineTypes
    <3>3. Quiet \in BOOLEAN
      BY DEF Quiet, UnderWay
    <3>4. new \in CallRecord
      BY <1>0, <3>2, <3>3 DEF CallRecord
    <3>5. Fits(new)
      BY <1>0, <2>3, <3>1 DEF CallRecord, Fits
    <3>. QED BY <1>1, <2>3, <3>4, <3>5 DEF Read
  <2>. QED BY <2>1, <2>2, <2>3 DEF Latest
<1>2. CallTypes' /\ CallsFit'
  BY <1>0, <1>1, CallStepType
<1>. QED BY <1>1, <1>2 DEF TypeInv, EngineTypes, ScreenTypes, GhostTypes, TurnsFit

(* What each of the other steps of a call does to it, given its record. *)
LEMMA NewType ==
  ASSUME TypeInv, NEW h \in Hand
  PROVE  /\ call[h] \in CallRecord /\ Fits(call[h])
         /\ \A new \in CallRecord : Fits(new) /\ call' = [call EXCEPT ![h] = new] => CallTypes' /\ CallsFit'
<1>1. call[h] \in CallRecord /\ Fits(call[h]) /\ CallTypes /\ CallsFit
  BY DEF TypeInv, CallTypes, CallsFit
<1>. QED BY <1>1, CallStepType

LEMMA AfterType ==
  ASSUME TypeInv, NEW h \in Hand
  PROVE  After(call[h]) \in CallRecord /\ Fits(After(call[h]))
<1>1. call[h] \in CallRecord /\ Fits(call[h])
  BY NewType
<1>2. CASE call[h].op = "boot"
  <2>1. After(call[h]) = [Idle EXCEPT !.op = "boot", !.at = "inventory"]
    BY <1>2 DEF After
  <2>. QED BY <2>1 DEF CallRecord, Fits
<1>3. CASE call[h].op = "send"
  <2>1. After(call[h]) = [Idle EXCEPT !.op = "send", !.at = "send", !.turn = call[h].turn]
    BY <1>3 DEF After
  <2>2. call[h].turn \in Turn
    BY <1>1, <1>3 DEF Fits
  <2>. QED BY <2>1, <2>2 DEF CallRecord, Fits
<1>4. CASE call[h].op \notin {"boot", "send"}
  BY <1>4, IdleFits DEF After
<1>. QED BY <1>2, <1>3, <1>4

LEMMA ReplaceType ==
  ASSUME TypeInv, NEW c \in Copy, Replace(c)
  PROVE  ctl' \in Copy /\ shell' \in Shown /\ missed' \in SUBSET Turn
BY TakenType DEF Replace, TypeInv, GhostTypes

LEMMA TypeShow == ASSUME TypeInv, NEW h \in Hand, Show(h) PROVE TypeInv'
<1>0. call[h] \in CallRecord /\ Fits(call[h])
  BY NewType
<1>1. call[h].session \in Session /\ call[h].read \in SUBSET Items
  BY <1>0 DEF Show, Fits, CallRecord
<1>2. CallTypes' /\ CallsFit'
  BY AfterType, NewType DEF Show
<1>3. ctl' \in Copy /\ shell' \in Shown /\ missed' \in SUBSET Turn
  BY <1>1, ReplaceType DEF Show, Copy
<1>4. ScreenTypes' /\ GhostTypes' /\ EngineTypes' /\ TurnsFit' /\ calls' = calls
  BY <1>0, <1>1, <1>3 DEF Show, TypeInv, ScreenTypes, GhostTypes, EngineTypes, TurnsFit, CallRecord
<1>. QED BY <1>2, <1>4 DEF TypeInv

LEMMA TypeCreate == ASSUME TypeInv, NEW h \in Hand, Create(h) PROVE TypeInv'
<1>0. call[h] \in CallRecord /\ Fits(call[h]) /\ Quiet \in BOOLEAN
  BY NewType DEF Quiet, UnderWay
<1>1. PICK s \in Session : /\ known' = [known EXCEPT ![s] = "live"]
                           /\ call' = [call EXCEPT ![h].at = "show", ![h].session = s, ![h].clean = Quiet]
  BY DEF Create
<1> DEFINE new == [call[h] EXCEPT !.at = "show", !.session = s, !.clean = Quiet]
<1>2. new \in CallRecord /\ call' = [call EXCEPT ![h] = new]
  BY <1>0, <1>1 DEF CallRecord
<1>3. Fits(new)
  BY <1>0 DEF CallRecord, Fits, Create
<1>4. CallTypes' /\ CallsFit'
  BY <1>2, <1>3, NewType
<1>5. ScreenTypes' /\ GhostTypes' /\ EngineTypes' /\ TurnsFit' /\ calls' = calls
  BY <1>1 DEF Create, TypeInv, ScreenTypes, GhostTypes, EngineTypes, TurnsFit
<1>. QED BY <1>4, <1>5 DEF TypeInv

LEMMA TypeInventory == ASSUME TypeInv, NEW h \in Hand, Inventory(h) PROVE TypeInv'
<1>1. CASE call' = [call EXCEPT ![h] = Idle] /\ selected' = shell.session /\ booted' = TRUE
  <2>1. CallTypes' /\ CallsFit'
    BY <1>1, IdleFits, NewType
  <2>. QED BY <1>1, <2>1 DEF Inventory, TypeInv, ScreenTypes, Shown, GhostTypes, EngineTypes, TurnsFit
<1>2. ASSUME NEW s \in Session, selected' = s, UNCHANGED booted,
             call' = [call EXCEPT ![h] = [Idle EXCEPT !.op = "default", !.at = "read", !.session = s]]
      PROVE  TypeInv'
  <2> DEFINE new == [Idle EXCEPT !.op = "default", !.at = "read", !.session = s]
  <2>1. new \in CallRecord /\ Fits(new)
    BY DEF CallRecord, Fits
  <2>2. CallTypes' /\ CallsFit'
    BY <1>2, <2>1, NewType
  <2>. QED BY <1>2, <2>2 DEF Inventory, TypeInv, ScreenTypes, Shown, GhostTypes, EngineTypes, TurnsFit
<1>. QED BY <1>1, <1>2 DEF Inventory

LEMMA TypeFail == ASSUME TypeInv, NEW h \in Hand, Fail(h) PROVE TypeInv'
<1>0. ctl \in Copy
  BY DEF TypeInv, ScreenTypes
<1>1. CallTypes' /\ CallsFit'
  BY AfterType, IdleFits, NewType DEF Fail
<1>2. ctl' \in Copy /\ shell' \in Shown /\ missed' \in SUBSET Turn
  BY <1>0, ReplaceType DEF Fail, TypeInv, ScreenTypes, GhostTypes
<1>3. selected' \in Session \cup {None} /\ booted' \in BOOLEAN
  BY <1>0 DEF Fail, TypeInv, ScreenTypes, Copy
<1>4. since' \in BOOLEAN /\ doubt' \in BOOLEAN /\ faltered' \in BOOLEAN
  BY DEF Fail, TypeInv, GhostTypes
<1>. QED BY <1>1, <1>2, <1>3, <1>4 DEF Fail, TypeInv, ScreenTypes, GhostTypes, EngineTypes, TurnsFit

LEMMA SayType ==
  ASSUME ScreenTypes, NEW t \in Turn, NEW kind \in {"prompt", "tool", "answer", "error"}
  PROVE  Say(kind, t) \in Shown
BY DEF ScreenTypes, Shown, Say, Items

(* A turn is sent. *)
LEMMA SendNowType ==
  ASSUME TypeInv, NEW t \in Turn, SendNow(t)
  PROVE  EngineTypes' /\ TurnsFit' /\ ScreenTypes' /\ GhostTypes'
<1>0. EngineTypes /\ TurnsFit /\ ScreenTypes /\ GhostTypes /\ shell.session \in Session \cup {None}
  BY DEF TypeInv, ScreenTypes, Shown
<1>1. shell' \in Shown
  <2>1. Say("prompt", t) \in Shown
    BY <1>0, SayType
  <2>. QED BY <2>1 DEF SendNow, Shown
<1>2. GhostTypes'
  BY <1>0 DEF SendNow, GhostTypes
<1>3. wire' \in [Turn -> Seq(Events)]
  BY <1>0, EmitType, EventsType DEF SendNow, EngineTypes
<1>4. turn' \in [Turn -> TurnRecord] /\ TurnsFit'
  <2>1. CASE /\ shell.session \in Live
             /\ turn' = [turn EXCEPT ![t] = [at |-> "talk", session |-> shell.session, asked |-> FALSE]]
    BY <1>0, <2>1 DEF Live, EngineTypes, TurnRecord, TurnsFit
  <2>2. CASE turn' = [turn EXCEPT ![t] = [at |-> "over", session |-> shell.session, asked |-> FALSE]]
    BY <1>0, <2>2 DEF EngineTypes, TurnRecord, TurnsFit
  <2>. QED BY <2>1, <2>2 DEF SendNow
<1>5. history' \in [Session -> SUBSET Items]
  BY <1>0 DEF SendNow, EngineTypes, Live, Items
<1>. QED BY <1>0, <1>1, <1>2, <1>3, <1>4, <1>5 DEF SendNow, EngineTypes, ScreenTypes

LEMMA UncleanType ==
  ASSUME NEW c \in [Hand -> CallRecord], \A h \in Hand : Fits(c[h]), call' = Unclean(c)
  PROVE  CallTypes' /\ CallsFit'
<1>1. \A h \in Hand : [c[h] EXCEPT !.clean = FALSE] \in CallRecord
  BY DEF CallRecord
<1>2. \A h \in Hand : Fits([c[h] EXCEPT !.clean = FALSE])
  BY DEF CallRecord, Fits
<1>. QED BY <1>1, <1>2 DEF Unclean, CallTypes, CallsFit

LEMMA TypeSend == ASSUME TypeInv, NEW t \in Turn, Send(t) PROVE TypeInv'
<1>1. CallTypes' /\ CallsFit'
  BY UncleanType DEF Send, TypeInv, CallTypes, CallsFit
<1>. QED BY <1>1, SendNowType DEF Send, TypeInv

LEMMA TypeSendFirst == ASSUME TypeInv, NEW h \in Hand, SendFirst(h) PROVE TypeInv'
<1>1. CallTypes' /\ CallsFit'
  <2> DEFINE c == [call EXCEPT ![h] = Idle]
  <2>1. c \in [Hand -> CallRecord] /\ \A g \in Hand : Fits(c[g])
    BY IdleFits DEF TypeInv, CallTypes, CallsFit
  <2>. QED BY <2>1, UncleanType DEF SendFirst
<1>2. call[h].turn \in Turn
  BY NewType DEF SendFirst, Fits
<1>3. EngineTypes' /\ TurnsFit' /\ ScreenTypes' /\ GhostTypes'
  <2>1. CASE turn[call[h].turn].at = "none"
    BY <1>2, <2>1, SendNowType DEF SendFirst
  <2>2. CASE turn[call[h].turn].at # "none"
    BY <2>2 DEF SendFirst, TypeInv, EngineTypes, TurnsFit, ScreenTypes, GhostTypes
  <2>. QED BY <2>1, <2>2
<1>. QED BY <1>1, <1>3 DEF SendFirst, TypeInv

LEMMA ResumeType ==
  ASSUME TypeInv, NEW t \in Turn, Waiting(t), Resume(t), UNCHANGED known
  PROVE  EngineTypes' /\ TurnsFit'
<1>0. EngineTypes /\ TurnsFit /\ turn[t].session \in Session
  BY DEF TypeInv, TurnsFit, Waiting
<1>1. wire' \in [Turn -> Seq(Events)]
  BY <1>0, EmitType, EventsType DEF Resume
<1>2. turn' \in [Turn -> TurnRecord] /\ TurnsFit'
  BY <1>0 DEF Resume, EngineTypes, TurnRecord, TurnsFit
<1>3. history' \in [Session -> SUBSET Items]
  BY <1>0 DEF Resume, EngineTypes, Items
<1>. QED BY <1>0, <1>1, <1>2, <1>3 DEF EngineTypes

LEMMA UnblockType ==
  ASSUME TypeInv, NEW s, Unblock(s)
  PROVE  turn' \in [Turn -> TurnRecord] /\ TurnsFit'
BY DEF TypeInv, EngineTypes, Unblock, TurnRecord, TurnsFit, Waiting

LEMMA TypeReach == ASSUME TypeInv, NEW h \in Hand, Reach(h) PROVE TypeInv'
<1>0. call[h] \in CallRecord /\ Fits(call[h]) /\ EngineTypes /\ TurnsFit
  BY NewType DEF TypeInv
<1>1. CallTypes' /\ CallsFit'
  <2> DEFINE new == [call[h] EXCEPT !.at = "settle"]
  <2>1. new \in CallRecord /\ Fits(new) /\ call' = [call EXCEPT ![h] = new]
    BY <1>0 DEF Reach, CallRecord, Fits
  <2>. QED BY <2>1, NewType
<1>2. EngineTypes' /\ TurnsFit'
  <2>1. CASE call[h].op # "stop" /\ Waiting(call[h].turn) /\ Resume(call[h].turn)
    BY <1>0, <2>1, ResumeType DEF Reach, Fits
  <2>2. CASE UNCHANGED <<turn, history, wire>>
    BY <1>0, <2>2 DEF Reach, EngineTypes, TurnsFit
  <2>3. CASE Unblock(call[h].session) /\ UNCHANGED <<history, wire>>
    BY <1>0, <2>3, UnblockType DEF Reach, EngineTypes
  <2>. QED BY <2>1, <2>2, <2>3 DEF Reach
<1>. QED BY <1>1, <1>2 DEF Reach, TypeInv, ScreenTypes, GhostTypes

LEMMA TypeSettle == ASSUME TypeInv, NEW h \in Hand, Settle(h) PROVE TypeInv'
<1>1. CallTypes' /\ CallsFit'
  BY IdleFits, NewType DEF Settle
<1>2. ctl' \in Copy /\ shell' \in Shown /\ missed' \in SUBSET Turn
  BY ReplaceType DEF Settle, TypeInv, ScreenTypes
<1>. QED BY <1>1, <1>2 DEF Settle, TypeInv, ScreenTypes, GhostTypes, EngineTypes, TurnsFit

LEMMA TypeDestroy == ASSUME TypeInv, NEW h \in Hand, Destroy(h) PROVE TypeInv'
<1>0. call[h] \in CallRecord /\ Fits(call[h]) /\ EngineTypes /\ call[h].session \in Session
  BY NewType DEF TypeInv, Destroy, Fits
<1>1. CallTypes' /\ CallsFit'
  <2> DEFINE new == [call[h] EXCEPT !.at = "list"]
  <2>1. new \in CallRecord /\ Fits(new)
    BY <1>0 DEF Destroy, CallRecord, Fits
  <2>. QED BY <2>1, IdleFits, NewType DEF Destroy
<1>2. turn' \in [Turn -> TurnRecord] /\ TurnsFit'
  BY UnblockType DEF Destroy
<1>. QED BY <1>0, <1>1, <1>2 DEF Destroy, TypeInv, ScreenTypes, GhostTypes, EngineTypes

LEMMA TypeList == ASSUME TypeInv, NEW h \in Hand, List(h) PROVE TypeInv'
<1>0. call[h] \in CallRecord /\ Fits(call[h]) /\ ScreenTypes /\ GhostTypes
  BY NewType DEF TypeInv
<1>1. CallTypes' /\ CallsFit'
  <2>1. ASSUME NEW n \in Live, call' = [call EXCEPT ![h].at = "read", ![h].session = n]
        PROVE  CallTypes' /\ CallsFit'
    <3> DEFINE new == [call[h] EXCEPT !.at = "read", !.session = n]
    <3>1. new \in CallRecord /\ Fits(new) /\ call' = [call EXCEPT ![h] = new]
      BY <1>0, <2>1 DEF List, CallRecord, Fits, Live
    <3>. QED BY <3>1, NewType
  <2>. QED BY <2>1, IdleFits, NewType DEF List
<1>2. shell' \in Shown /\ selected' \in Session \cup {None} /\ missed' \in SUBSET Turn
  <2>1. [session |-> None, messages |-> {}] \in Copy
    BY DEF Copy
  <2>. QED BY <1>0, <2>1, TakenType DEF List, ScreenTypes, GhostTypes
<1>. QED BY <1>1, <1>2 DEF List, TypeInv, ScreenTypes, GhostTypes, EngineTypes, TurnsFit

(* The turns. *)
LEMMA TypeTurn == ASSUME TypeInv, NEW t \in Turn, Ask(t) \/ Expire(t) \/ Finish(t) PROVE TypeInv'
<1>0. EngineTypes /\ TurnsFit
  BY DEF TypeInv
<1>1. EngineTypes' /\ TurnsFit' /\ UNCHANGED <<screen, call, calls, ghosts>>
  <2>1. CASE Ask(t)
    <3>1. wire' \in [Turn -> Seq(Events)]
      BY <1>0, <2>1, EmitType, EventsType DEF Ask
    <3>. QED BY <1>0, <2>1, <3>1 DEF Ask, EngineTypes, TurnRecord, TurnsFit
  <2>2. CASE Expire(t)
    BY <2>2, ResumeType DEF Expire
  <2>3. CASE Finish(t)
    <3>1. wire' \in [Turn -> Seq(Events)]
      BY <1>0, <2>3, EmitType, EventsType DEF Finish
    <3>2. turn[t].session \in Session
      BY <1>0, <2>3 DEF Finish, TurnsFit
    <3>3. history' \in [Session -> SUBSET Items]
      BY <1>0, <2>3, <3>2 DEF Finish, EngineTypes, Items
    <3>. QED BY <1>0, <2>3, <3>1, <3>3 DEF Finish, EngineTypes, TurnRecord, TurnsFit
  <2>. QED BY <2>1, <2>2, <2>3
<1>. QED BY <1>1 DEF TypeInv, ScreenTypes, GhostTypes, CallTypes, CallsFit

LEMMA TypeReceive == ASSUME TypeInv, NEW t \in Turn, Receive(t) PROVE TypeInv'
<1>0. EngineTypes /\ ScreenTypes /\ GhostTypes /\ wire[t] \in Seq(Events) /\ wire[t] # <<>>
  BY DEF TypeInv, EngineTypes, Receive
<1>1. wire' \in [Turn -> Seq(Events)]
  <2>1. Tail(wire[t]) \in Seq(Events)
    BY <1>0
  <2>. QED BY <1>0, <2>1 DEF Receive, EngineTypes
<1>2. shell' \in Shown
  <2>1. OnAsk(t) \in Shown
    BY <1>0 DEF OnAsk, ScreenTypes, Shown
  <2>2. OnTool(t) \in Shown /\ OnComplete(t) \in Shown
    BY <1>0, SayType DEF OnTool, OnComplete, ScreenTypes
  <2>3. OnDone(t) \in Shown /\ OnError(t) \in Shown
    <3>1. Say("answer", t) \in Shown /\ Say("error", t) \in Shown
      BY <1>0, SayType
    <3>. QED BY <3>1 DEF OnDone, OnError, Shown
  <2>. QED BY <2>1, <2>2, <2>3 DEF Receive
<1>3. missed' \in SUBSET Turn
  BY <1>0 DEF Receive, GhostTypes
<1>. QED BY <1>0, <1>1, <1>2, <1>3
      DEF Receive, TypeInv, EngineTypes, ScreenTypes, GhostTypes, CallTypes, CallsFit, TurnsFit

LEMMA TypeNext == TypeInv /\ [Next]_vars => TypeInv'
<1>. SUFFICES ASSUME TypeInv, [Next]_vars PROVE TypeInv'
  OBVIOUS
<1>1. CASE UNCHANGED vars
  BY <1>1 DEF vars, TypeInv, EngineTypes, ScreenTypes, GhostTypes, CallTypes, CallsFit, TurnsFit
<1>2. CASE SelectScreen
  BY <1>2 DEF SelectScreen, TypeInv, EngineTypes, ScreenTypes, GhostTypes, CallTypes, CallsFit, TurnsFit
<1>3. ASSUME NEW h \in Hand, Call(h) PROVE TypeInv'
  BY <1>3, TypeCall
<1>4. ASSUME NEW h \in Hand, Continue(h) PROVE TypeInv'
  BY <1>4, TypeLook, TypeCreate, TypeShow, TypeInventory, TypeFail, TypeSendFirst, TypeReach,
     TypeSettle, TypeDestroy, TypeList DEF Continue
<1>5. ASSUME NEW t \in Turn, TurnStep(t) PROVE TypeInv'
  BY <1>5, TypeSend, TypeTurn, TypeReceive DEF TurnStep
<1>. QED BY <1>1, <1>2, <1>3, <1>4, <1>5 DEF Next

(* Every variable keeps its type. *)
THEOREM ScreenTypesCorrect == Spec => []TypeOK
BY TypeInit, TypeNext, TypeInvIsEnough, PTL DEF Spec

-----------------------------------------------------------------------------
(* What waits is asked                                                     *)
-----------------------------------------------------------------------------
(* No request of t arrives. *)
NothingAsked(t) ==
  \/ wire'[t] = wire[t]
  \/ \E events \in Seq(Events) : wire'[t] = wire[t] \o events
  \/ wire[t] # <<>> /\ Head(wire[t]) # "ask" /\ wire'[t] = Tail(wire[t])

(* A turn that a step does not make wait is delivered only if it was, and  *)
(* if its next event is not the request.                                   *)
LEMMA DeliveredBefore ==
  ASSUME TypeInv, NEW t \in Turn, Delivered(t)',
         turn'[t].at = "ask" => turn[t].at = "ask",
         NothingAsked(t)
  PROVE  Delivered(t)
<1>0. wire[t] \in Seq(Events) /\ Waiting(t)
  BY DEF TypeInv, EngineTypes, Delivered, Waiting
<1>1. \A i \in DOMAIN wire'[t] : wire'[t][i] # "ask"
  BY DEF Delivered
<1>2. SUFFICES ASSUME NEW i \in DOMAIN wire[t] PROVE wire[t][i] # "ask"
  BY <1>0 DEF Delivered
<1>3. CASE wire'[t] = wire[t]
  BY <1>1, <1>3
<1>4. ASSUME NEW events \in Seq(Events), wire'[t] = wire[t] \o events PROVE wire[t][i] # "ask"
  <2>1. i \in DOMAIN (wire[t] \o events) /\ (wire[t] \o events)[i] = wire[t][i]
    BY <1>0
  <2>. QED BY <1>1, <1>4, <2>1
<1>5. CASE wire[t] # <<>> /\ Head(wire[t]) # "ask" /\ wire'[t] = Tail(wire[t])
  <2>1. CASE i = 1
    BY <1>0, <1>5, <2>1
  <2>2. CASE i # 1
    <3>1. i - 1 \in DOMAIN Tail(wire[t]) /\ Tail(wire[t])[i - 1] = wire[t][i]
      BY <1>0, <1>5, <2>2
    <3>. QED BY <1>1, <1>5, <3>1
  <2>. QED BY <2>1, <2>2
<1>. QED BY <1>3, <1>4, <1>5 DEF NothingAsked

(* The steps that leave the request on the screen and make no turn wait. *)
LEMMA AskedKept ==
  ASSUME TypeInv, AskedIsShown, missed \subseteq missed',
         shell'.session = shell.session, shell'.asked = shell.asked,
         \A t \in Turn : /\ turn'[t].at = "ask" => turn[t].at = "ask" /\ turn'[t].session = turn[t].session
                         /\ NothingAsked(t)
  PROVE  AskedIsShown'
<1>1. SUFFICES ASSUME NEW t \in Turn, Delivered(t)', turn'[t].session = shell'.session, t \notin missed'
               PROVE  shell'.asked = t
  BY DEF AskedIsShown
<1>2. Delivered(t)
  <2>1. turn'[t].at = "ask" => turn[t].at = "ask"
    OBVIOUS
  <2>2. NothingAsked(t)
    OBVIOUS
  <2>. QED BY ONLY TypeInv, <1>1, <2>1, <2>2, DeliveredBefore
<1>3. turn'[t].at = "ask"
  BY <1>1 DEF Delivered, Waiting
<1>. QED BY <1>1, <1>2, <1>3 DEF AskedIsShown

(* The steps after which every request delivered before has been missed. *)
LEMMA AskedMissed ==
  ASSUME TypeInv, {t \in Turn : Delivered(t)} \subseteq missed', UNCHANGED <<turn, wire>>
  PROVE  AskedIsShown'
BY DEF AskedIsShown, Delivered, Waiting

LEMMA AskedSend == ASSUME TypeInv, AskedIsShown, NEW t \in Turn, SendNow(t) PROVE AskedIsShown'
<1>0. EngineTypes /\ ScreenTypes /\ <<"error">> \in Seq(Events)
  BY EventsType DEF TypeInv
<1>1. \A u \in Turn : wire'[u] = wire[u] \/ wire'[u] = wire[u] \o <<"error">>
  BY <1>0 DEF SendNow, Emit, EngineTypes
<1>2. \A u \in Turn : turn'[u].at = "ask" => turn'[u] = turn[u]
  BY <1>0 DEF SendNow, EngineTypes, TurnRecord
<1>3. shell'.session = shell.session /\ shell'.asked = shell.asked /\ missed' = missed
  BY <1>0 DEF SendNow, Say, ScreenTypes, Shown
<1>. QED BY <1>0, <1>1, <1>2, <1>3, AskedKept DEF NothingAsked

LEMMA AskedResume ==
  ASSUME TypeInv, AskedIsShown, NEW t \in Turn, Resume(t), UNCHANGED <<screen, ghosts>>
  PROVE  AskedIsShown'
<1>0. EngineTypes /\ <<"tool">> \in Seq(Events)
  BY EventsType DEF TypeInv
<1>1. \A u \in Turn : wire'[u] = wire[u] \/ wire'[u] = wire[u] \o <<"tool">>
  BY <1>0 DEF Resume, Emit, EngineTypes
<1>2. \A u \in Turn : turn'[u].at = "ask" => turn'[u] = turn[u]
  BY <1>0 DEF Resume, EngineTypes, TurnRecord
<1>. QED BY <1>0, <1>1, <1>2, AskedKept DEF NothingAsked

LEMMA AskedCall == 
  ASSUME TypeInv, AskedIsShown, NEW h \in Hand, Continue(h)
  PROVE  AskedIsShown'
<1>0. \A t \in Turn : wire[t] \in Seq(Events) /\ wire \in [Turn -> Seq(Events)] /\ turn \in [Turn -> TurnRecord]
  BY DEF TypeInv, EngineTypes
<1>1. CASE Latest(h) \/ Create(h) \/ Read(h) \/ Inventory(h)
  BY <1>1, AskedKept DEF NothingAsked, Latest, Create, Read, Inventory
<1>2. CASE Show(h) \/ Settle(h)
  BY <1>2, AskedMissed DEF Show, Settle, Replace
<1>3. CASE Fail(h)
  <2>1. CASE Replace(ctl)
    BY <1>3, <2>1, AskedMissed DEF Fail, Replace
  <2>2. CASE UNCHANGED <<shell, missed>>
    BY <1>3, <2>2, AskedKept DEF NothingAsked, Fail
  <2>. QED BY <1>3, <2>1, <2>2 DEF Fail
<1>4. CASE List(h)
  <2>1. CASE missed' = missed \cup {t \in Turn : Delivered(t)}
    BY <1>4, <2>1, AskedMissed DEF List
  <2>2. CASE UNCHANGED <<shell, missed>>
    BY <1>4, <2>2, AskedKept DEF NothingAsked, List
  <2>. QED BY <1>4, <2>1, <2>2 DEF List
<1>5. CASE SendFirst(h)
  <2>1. CASE SendNow(call[h].turn)
    <3>1. call[h].turn \in Turn
      BY <1>5, NewType DEF SendFirst, Fits
    <3>. QED BY <2>1, <3>1, AskedSend
  <2>2. CASE UNCHANGED <<engine, screen, ghosts>>
    BY <2>2, AskedKept DEF NothingAsked
  <2>. QED BY <1>5, <2>1, <2>2 DEF SendFirst
<1>6. CASE Reach(h)
  <2>1. CASE call[h].op # "stop" /\ Waiting(call[h].turn) /\ Resume(call[h].turn)
    <3>1. call[h].turn \in Turn
      BY <1>6, <2>1, NewType DEF Reach, Fits
    <3>. QED BY <1>6, <2>1, <3>1, AskedResume DEF Reach
  <2>2. CASE UNCHANGED <<turn, history, wire>>
    BY <1>6, <2>2, AskedKept DEF NothingAsked, Reach
  <2>3. CASE Unblock(call[h].session) /\ UNCHANGED <<history, wire>>
    BY <1>0, <1>6, <2>3, AskedKept DEF NothingAsked, Reach, Unblock
  <2>. QED BY <1>6, <2>1, <2>2, <2>3 DEF Reach
<1>7. CASE Destroy(h)
  BY <1>0, <1>7, AskedKept DEF NothingAsked, Destroy, Unblock
<1>. QED BY <1>1, <1>2, <1>3, <1>4, <1>5, <1>6, <1>7 DEF Continue

LEMMA AskedTurn == ASSUME TypeInv, AskedIsShown, NEW t \in Turn, TurnStep(t) PROVE AskedIsShown'
<1>0. /\ EngineTypes /\ ScreenTypes /\ GhostTypes
      /\ wire[t] \in Seq(Events)
      /\ \A e \in Events : <<e>> \in Seq(Events) /\ <<e, "complete">> \in Seq(Events)
  BY DEF TypeInv, EngineTypes
<1>1. CASE Send(t)
  BY <1>1, AskedSend DEF Send
<1>2. CASE Ask(t)
  <2>1. SUFFICES ASSUME NEW u \in Turn, Delivered(u)', turn'[u].session = shell'.session, u \notin missed'
                 PROVE  shell'.asked = u
    BY DEF AskedIsShown
  <2>2. u # t
    <3>1. wire'[t] = wire[t] \o <<"ask">>
      BY <1>0, <1>2 DEF Ask, Emit, EngineTypes
    <3>2. /\ Len(wire[t]) + 1 \in DOMAIN (wire[t] \o <<"ask">>)
          /\ (wire[t] \o <<"ask">>)[Len(wire[t]) + 1] = "ask"
      BY <1>0
    <3>. QED BY <2>1, <3>1, <3>2 DEF Delivered
  <2>3. turn'[u] = turn[u] /\ wire'[u] = wire[u] /\ shell' = shell /\ missed' = missed
    BY <1>0, <1>2, <2>2 DEF Ask, Emit, EngineTypes
  <2>4. Delivered(u)
    BY <2>1, <2>3 DEF Delivered, Waiting
  <2>. QED BY <2>1, <2>3, <2>4 DEF AskedIsShown
<1>3. CASE Expire(t)
  BY <1>3, AskedResume DEF Expire
<1>4. CASE Finish(t)
  <2>1. \A u \in Turn : wire'[u] = wire[u] \/ \E events \in Seq(Events) : wire'[u] = wire[u] \o events
    BY <1>0, <1>4 DEF Finish, Emit, EngineTypes
  <2>2. \A u \in Turn : turn'[u].at = "ask" => turn'[u] = turn[u]
    BY <1>0, <1>4 DEF Finish, EngineTypes, TurnRecord
  <2>. QED BY <1>4, <2>1, <2>2, AskedKept DEF NothingAsked, Finish
<1>5. CASE Receive(t)
  <2>0. /\ turn' = turn /\ wire'[t] = Tail(wire[t]) /\ wire[t] # <<>>
        /\ \A u \in Turn \ {t} : wire'[u] = wire[u]
    BY <1>0, <1>5 DEF Receive, EngineTypes
  <2>1. CASE Head(wire[t]) = "ask"
    <3>1. shell'.asked = t /\ {u \in Turn \ {t} : Delivered(u)} \subseteq missed'
      BY <1>0, <1>5, <2>1 DEF Receive, OnAsk, ScreenTypes, Shown
    <3>2. \A u \in Turn \ {t} : Delivered(u)' => Delivered(u)
      BY <2>0 DEF Delivered, Waiting
    <3>. QED BY <3>1, <3>2 DEF AskedIsShown
  <2>2. CASE Head(wire[t]) # "ask"
    <3>1. missed' = missed
      BY <1>5, <2>2 DEF Receive
    <3>2. shell'.session = shell.session /\ shell'.asked = shell.asked
      BY <1>0, <1>5, <2>2 DEF Receive, OnTool, OnDone, OnError, OnComplete, Say, ScreenTypes, Shown
    <3>. QED BY <2>0, <2>2, <3>1, <3>2, AskedKept DEF NothingAsked
  <2>. QED BY <2>1, <2>2
<1>. QED BY <1>1, <1>2, <1>3, <1>4, <1>5 DEF TurnStep

LEMMA AskedNext == TypeInv /\ AskedIsShown /\ [Next]_vars => AskedIsShown'
<1>. SUFFICES ASSUME TypeInv, AskedIsShown, [Next]_vars PROVE AskedIsShown'
  OBVIOUS
<1>1. CASE UNCHANGED vars
  BY <1>1, AskedKept DEF NothingAsked, vars
<1>2. CASE SelectScreen
  BY <1>2, AskedKept DEF NothingAsked, SelectScreen
<1>3. ASSUME NEW h \in Hand, Call(h) PROVE AskedIsShown'
  <2>1. UNCHANGED <<engine, screen, ghosts>>
    BY <1>3 DEF Call, Boot, CreateChat, Open, Archive, FirstMessage, Respond, Stop, Begin
  <2>. QED BY <2>1, AskedKept DEF NothingAsked
<1>4. ASSUME NEW h \in Hand, Continue(h) PROVE AskedIsShown'
  BY <1>4, AskedCall
<1>5. ASSUME NEW t \in Turn, TurnStep(t) PROVE AskedIsShown'
  BY <1>5, AskedTurn
<1>. QED BY <1>1, <1>2, <1>3, <1>4, <1>5 DEF Next

LEMMA AskedInit == Init => AskedIsShown
BY DEF Init, AskedIsShown, Delivered, Waiting

(* A turn of the shown session that waits for the user is the one the      *)
(* screen asks about, unless its request has been replaced.                *)
THEOREM WaitingIsAsked == Spec => []AskedIsShown
BY TypeInit, TypeNext, AskedInit, AskedNext, PTL DEF Spec

-----------------------------------------------------------------------------
(* The events on their way                                                 *)
-----------------------------------------------------------------------------
On(w, e) == \E i \in DOMAIN w : w[i] = e

(* Requests aside, an event comes once, and the completion last. *)
Ordered(w) == \A i, j \in DOMAIN w : i < j => w[i] # "complete" /\ (w[i] = w[j] => w[i] = "ask")

LEMMA OnEmpty == Ordered(<<>>) /\ \A e : ~On(<<>>, e)
BY DEF Ordered, On

LEMMA OnAppend ==
  ASSUME NEW w \in Seq(Events), NEW v \in Seq(Events), NEW e
  PROVE  On(w \o v, e) <=> On(w, e) \/ On(v, e)
<1>1. ASSUME On(w, e) PROVE On(w \o v, e)
  <2>1. PICK i \in DOMAIN w : w[i] = e
    BY <1>1 DEF On
  <2>2. i \in DOMAIN (w \o v) /\ (w \o v)[i] = e
    BY <2>1
  <2>. QED BY <2>2 DEF On
<1>2. ASSUME On(v, e) PROVE On(w \o v, e)
  <2>1. PICK i \in DOMAIN v : v[i] = e
    BY <1>2 DEF On
  <2>2. i + Len(w) \in DOMAIN (w \o v) /\ (w \o v)[i + Len(w)] = e
    BY <2>1
  <2>. QED BY <2>2 DEF On
<1>3. ASSUME On(w \o v, e) PROVE On(w, e) \/ On(v, e)
  <2>1. PICK i \in DOMAIN (w \o v) : (w \o v)[i] = e
    BY <1>3 DEF On
  <2>2. CASE i <= Len(w)
    <3>1. i \in DOMAIN w /\ w[i] = e
      BY <2>1, <2>2
    <3>. QED BY <3>1 DEF On
  <2>3. CASE i > Len(w)
    <3>1. i - Len(w) \in DOMAIN v /\ v[i - Len(w)] = e
      BY <2>1, <2>3
    <3>. QED BY <3>1 DEF On
  <2>. QED BY <2>1, <2>2, <2>3
<1>. QED BY <1>1, <1>2, <1>3

LEMMA OnOne == \A e, f : On(<<e>>, f) <=> e = f
BY DEF On

LEMMA OnTwo == \A e, g, f : On(<<e, g>>, f) <=> f \in {e, g}
<1>. SUFFICES ASSUME NEW e, NEW g, NEW f PROVE On(<<e, g>>, f) <=> f \in {e, g}
  OBVIOUS
<1>1. DOMAIN <<e, g>> = {1, 2} /\ <<e, g>>[1] = e /\ <<e, g>>[2] = g
  OBVIOUS
<1>. QED BY <1>1 DEF On

LEMMA OrderedAppend ==
  ASSUME NEW w \in Seq(Events), NEW e \in Events, Ordered(w), ~On(w, "complete"), e = "ask" \/ ~On(w, e)
  PROVE  Ordered(w \o <<e>>)
<1> DEFINE x == w \o <<e>>
<1>1. /\ DOMAIN x = 1 .. (Len(w) + 1) /\ x[Len(w) + 1] = e
      /\ DOMAIN w = 1 .. Len(w) /\ Len(w) \in Nat
      /\ \A i \in DOMAIN w : x[i] = w[i]
  OBVIOUS
<1>2. \A i \in DOMAIN w : w[i] # "complete" /\ (w[i] = e => e = "ask")
  BY DEF On
<1> HIDE DEF x
<1>3. Ordered(x)
  <2>1. SUFFICES ASSUME NEW i \in DOMAIN x, NEW j \in DOMAIN x, i < j
                 PROVE  x[i] # "complete" /\ (x[i] = x[j] => x[i] = "ask")
    BY DEF Ordered
  <2>2. i \in DOMAIN w
    BY <1>1, <2>1
  <2>3. CASE j \in DOMAIN w
    BY <1>1, <2>1, <2>2, <2>3 DEF Ordered
  <2>4. CASE j = Len(w) + 1
    BY <1>1, <1>2, <2>2, <2>4
  <2>. QED BY <1>1, <2>3, <2>4
<1>. QED BY <1>3 DEF x

LEMMA OrderedTail ==
  ASSUME NEW w \in Seq(Events), w # <<>>, Ordered(w)
  PROVE  /\ Ordered(Tail(w))
         /\ Head(w) \in Events
         /\ On(Tail(w), Head(w)) => Head(w) = "ask"
         /\ Head(w) = "complete" => Tail(w) = <<>>
         /\ \A e : On(w, e) <=> e = Head(w) \/ On(Tail(w), e)
<1> DEFINE v == Tail(w)
<1>1. /\ v \in Seq(Events) /\ Len(v) \in Nat /\ DOMAIN v = 1 .. Len(v)
      /\ DOMAIN w = 1 .. (Len(v) + 1) /\ Head(w) = w[1] /\ w[1] \in Events
      /\ \A i \in DOMAIN v : v[i] = w[i + 1]
      /\ \A i \in DOMAIN w : i # 1 => w[i] = v[i - 1]
  OBVIOUS
<1>2. v # <<>> => 1 \in DOMAIN v
  BY <1>1
<1> HIDE DEF v
<1>3. Ordered(v)
  <2>1. SUFFICES ASSUME NEW i \in DOMAIN v, NEW j \in DOMAIN v, i < j
                 PROVE  v[i] # "complete" /\ (v[i] = v[j] => v[i] = "ask")
    BY DEF Ordered
  <2>2. i + 1 \in DOMAIN w /\ j + 1 \in DOMAIN w /\ i + 1 < j + 1
    BY <1>1, <2>1
  <2>. QED BY <1>1, <2>1, <2>2 DEF Ordered
<1>4. \A i \in DOMAIN v : w[1] # "complete" /\ (w[1] = v[i] => w[1] = "ask")
  <2>1. SUFFICES ASSUME NEW i \in DOMAIN v PROVE w[1] # "complete" /\ (w[1] = v[i] => w[1] = "ask")
    OBVIOUS
  <2>2. 1 \in DOMAIN w /\ i + 1 \in DOMAIN w /\ 1 < i + 1 /\ w[i + 1] = v[i]
    BY <1>1, <2>1
  <2>. QED BY <2>2 DEF Ordered
<1>5. \A e : On(w, e) <=> e = w[1] \/ On(v, e)
  <2>1. SUFFICES ASSUME NEW e PROVE On(w, e) <=> e = w[1] \/ On(v, e)
    OBVIOUS
  <2>2. ASSUME NEW i \in DOMAIN w, w[i] = e PROVE e = w[1] \/ On(v, e)
    <3>1. i # 1 => i - 1 \in DOMAIN v /\ v[i - 1] = e
      BY <1>1, <2>2
    <3>. QED BY <2>2, <3>1 DEF On
  <2>3. ASSUME NEW i \in DOMAIN v, v[i] = e PROVE On(w, e)
    <3>1. i + 1 \in DOMAIN w /\ w[i + 1] = e
      BY <1>1, <2>3
    <3>. QED BY <3>1 DEF On
  <2>4. On(w, w[1])
    <3>1. 1 \in DOMAIN w
      BY <1>1
    <3>. QED BY <3>1 DEF On
  <2>. QED BY <2>2, <2>3, <2>4 DEF On
<1>6. w[1] = "complete" => v = <<>>
  BY <1>2, <1>4
<1>7. On(v, w[1]) => w[1] = "ask"
  BY <1>4 DEF On
<1>. QED BY <1>1, <1>3, <1>5, <1>6, <1>7 DEF v

-----------------------------------------------------------------------------
(* Turns, their events and the histories                                   *)
-----------------------------------------------------------------------------
(* What is on the way from a turn fits where it stands. *)
WireFits(t) ==
  /\ Ordered(wire[t])
  /\ turn[t].at = "none" => turn[t].session = None /\ wire[t] = <<>>
  /\ turn[t].at # "over" => \A e \in {"done", "error", "complete"} : ~On(wire[t], e)
  /\ turn[t].at = "ask" => turn[t].asked
  /\ turn[t].at = "ask" \/ ~turn[t].asked => ~On(wire[t], "tool")

(* A history has items of the session's turns only, when they have come so far. *)
Belongs(i, s) ==
  /\ turn[i[1]].session = s
  /\ i[2] = "tool" => turn[i[1]].asked /\ turn[i[1]].at # "ask"
  /\ i[2] = "answer" => turn[i[1]].at = "over"
  /\ i[2] # "error"

HistoryFits(s) == (\A i \in history[s] : Belongs(i, s)) /\ (known[s] = "new" => history[s] = {})

EventInv ==
  /\ \A t \in Turn : WireFits(t)
  /\ \A s \in Session : HistoryFits(s)
  /\ \A t \in Turn : turn[t].at \in {"talk", "ask"} => known[turn[t].session] # "new"

LEMMA EventInit == Init => EventInv
BY OnEmpty DEF Init, EventInv, WireFits, HistoryFits

LEMMA EventKept == ASSUME EventInv, UNCHANGED <<known, history, turn, wire>> PROVE EventInv'
BY DEF EventInv, WireFits, HistoryFits, Belongs

(* The steps of one turn: the others keep theirs. *)
LEMMA EventOne ==
  ASSUME TypeInv, EventInv, NEW t \in Turn, NEW r \in TurnRecord, NEW w \in Seq(Events),
         turn' = [turn EXCEPT ![t] = r], wire' = [wire EXCEPT ![t] = w], known' = known,
         WireFits(t)', r.at \in {"talk", "ask"} => r.session \in Session /\ known[r.session] # "new",
         \A s \in Session : /\ \A i \in history'[s] : (i \in history[s] /\ i[1] # t) \/ Belongs(i, s)'
                            /\ history'[s] = history[s] \/ known[s] # "new"
  PROVE  EventInv'
<1>0. EngineTypes /\ TurnsFit
  BY DEF TypeInv
<1>1. \A u \in Turn \ {t} : turn'[u] = turn[u] /\ wire'[u] = wire[u]
  BY <1>0 DEF EngineTypes
<1>2. turn'[t] = r /\ wire'[t] = w
  BY <1>0 DEF EngineTypes
<1>3. \A u \in Turn : WireFits(u)'
  BY <1>1 DEF EventInv, WireFits
<1>4. ASSUME NEW s \in Session PROVE HistoryFits(s)'
  <2>1. ASSUME NEW i \in history'[s] PROVE Belongs(i, s)'
    <3>1. CASE i \in history[s] /\ i[1] # t
      <4>1. i[1] \in Turn
        BY <1>0, <3>1 DEF EngineTypes, Items
      <4>. QED BY <1>1, <3>1, <4>1 DEF EventInv, HistoryFits, Belongs
    <3>. QED BY <2>1, <3>1
  <2>. QED BY <2>1 DEF EventInv, HistoryFits
<1>5. ASSUME NEW u \in Turn, turn'[u].at \in {"talk", "ask"} PROVE known'[turn'[u].session] # "new"
  BY <1>1, <1>2, <1>5 DEF EventInv
<1>. QED BY <1>3, <1>4, <1>5 DEF EventInv

LEMMA EventSend == ASSUME TypeInv, EventInv, NEW t \in Turn, SendNow(t) PROVE EventInv'
<1>0. /\ EngineTypes /\ ScreenTypes /\ WireFits(t) /\ turn[t].at = "none" /\ wire[t] = <<>>
      /\ shell.session \in Session \cup {None}
      /\ \A s \in Session : \A i \in history[s] : i[1] # t
  BY DEF TypeInv, EventInv, WireFits, HistoryFits, Belongs, SendNow, ScreenTypes, Shown
<1>1. CASE shell.session \in Live
  <2> DEFINE r == [at |-> "talk", session |-> shell.session, asked |-> FALSE]
  <2>1. /\ r \in TurnRecord /\ turn' = [turn EXCEPT ![t] = r] /\ wire' = [wire EXCEPT ![t] = <<>>]
        /\ known' = known /\ shell.session \in Session /\ known[shell.session] = "live"
        /\ history' = [history EXCEPT ![shell.session] = @ \cup {<<t, "prompt">>}]
    BY <1>0, <1>1 DEF SendNow, Live, TurnRecord, EngineTypes
  <2>2. turn'[t] = r /\ wire'[t] = <<>>
    BY <1>0, <2>1 DEF EngineTypes
  <2>3. WireFits(t)'
    BY <2>2, OnEmpty DEF WireFits
  <2>5. ASSUME NEW s \in Session
        PROVE  /\ \A i \in history'[s] : (i \in history[s] /\ i[1] # t) \/ Belongs(i, s)'
               /\ history'[s] = history[s] \/ known[s] # "new"
    <3>1. CASE s = shell.session
      <4>1. Belongs(<<t, "prompt">>, s)'
        BY <2>2, <3>1 DEF Belongs
      <4>2. history'[s] = history[s] \cup {<<t, "prompt">>}
        BY <1>0, <2>1, <3>1 DEF EngineTypes
      <4>. QED BY <1>0, <2>1, <3>1, <4>1, <4>2
    <3>2. CASE s # shell.session
      BY <1>0, <2>1, <3>2 DEF EngineTypes
    <3>. QED BY <3>1, <3>2
  <2>6. r.session = shell.session /\ <<>> \in Seq(Events)
    OBVIOUS
  <2>7. r.session \in Session /\ known[r.session] # "new"
    BY <2>1, <2>6
  <2> HIDE DEF r
  <2>. QED BY <2>1, <2>3, <2>5, <2>6, <2>7, EventOne
<1>2. CASE shell.session \notin Live
  <2> DEFINE r == [at |-> "over", session |-> shell.session, asked |-> FALSE]
  <2>1. /\ r \in TurnRecord /\ turn' = [turn EXCEPT ![t] = r] /\ wire' = [wire EXCEPT ![t] = <<"error">>]
        /\ known' = known /\ history' = history
    BY <1>0, <1>2 DEF SendNow, Emit, TurnRecord, EngineTypes
  <2>2. turn'[t] = r /\ wire'[t] = <<"error">>
    BY <1>0, <2>1 DEF EngineTypes
  <2>3. WireFits(t)'
    <3>1. Ordered(<<"error">>)
      BY DEF Ordered
    <3>. QED BY <2>2, <3>1, OnOne DEF WireFits
  <2> HIDE DEF r
  <2>4. r.at = "over"
    BY DEF r
  <2>. QED BY <1>0, <2>1, <2>3, <2>4, EventOne, EventsType
<1>. QED BY <1>1, <1>2

LEMMA EventResume ==
  ASSUME TypeInv, EventInv, NEW t \in Turn, Waiting(t), Resume(t), UNCHANGED known
  PROVE  EventInv'
<1>0. /\ EngineTypes /\ WireFits(t) /\ turn[t] \in TurnRecord /\ wire[t] \in Seq(Events)
      /\ turn[t].at = "ask" /\ turn[t].asked /\ turn[t].session \in Session
      /\ known[turn[t].session] # "new"
  BY DEF TypeInv, EventInv, WireFits, Waiting, EngineTypes, TurnsFit
<1> DEFINE r == [turn[t] EXCEPT !.at = "talk"]
           w == wire[t] \o <<"tool">>
<1>1. /\ r \in TurnRecord /\ r.at = "talk" /\ r.session = turn[t].session /\ r.asked
      /\ w \in Seq(Events)
      /\ turn' = [turn EXCEPT ![t] = r] /\ wire' = [wire EXCEPT ![t] = w]
      /\ history' = [history EXCEPT ![turn[t].session] = @ \cup {<<t, "tool">>}]
  BY <1>0, EventsType DEF Resume, Emit, TurnRecord
<1>2. Ordered(w) /\ \A e : On(w, e) <=> On(wire[t], e) \/ e = "tool"
  BY <1>0, OrderedAppend, OnAppend, OnOne, EventsType DEF WireFits
<1> HIDE DEF r, w
<1>3. turn'[t] = r /\ wire'[t] = w
  BY <1>0, <1>1 DEF EngineTypes
<1>4. WireFits(t)'
  BY <1>0, <1>1, <1>2, <1>3 DEF WireFits
<1>5. Belongs(<<t, "tool">>, turn[t].session)'
  BY <1>1, <1>3 DEF Belongs
<1>6. \A s \in Session : \A i \in history[s] : i[1] = t => Belongs(i, s)'
  BY <1>0, <1>1, <1>3 DEF EventInv, HistoryFits, Belongs
<1>7. \A s \in Session : /\ \A i \in history'[s] : (i \in history[s] /\ i[1] # t) \/ Belongs(i, s)'
                         /\ history'[s] = history[s] \/ known[s] # "new"
  BY <1>0, <1>1, <1>5, <1>6 DEF EngineTypes
<1>. QED BY <1>0, <1>1, <1>4, <1>7, EventOne

LEMMA EventUnblock ==
  ASSUME TypeInv, EventInv, NEW s, Unblock(s), UNCHANGED <<history, wire>>,
         \A x \in Session : known'[x] = "new" => known[x] = "new"
  PROVE  EventInv'
<1>0. EngineTypes /\ TurnsFit
  BY DEF TypeInv
<1>1. ASSUME NEW t \in Turn
      PROVE  /\ turn'[t].session = turn[t].session /\ turn'[t].asked = turn[t].asked
             /\ turn'[t].at = turn[t].at \/ (turn[t].at = "ask" /\ turn'[t].at = "talk")
  <2>1. turn[t] \in TurnRecord
    BY <1>0 DEF EngineTypes
  <2>2. turn'[t] = turn[t] \/ (turn[t].at = "ask" /\ turn'[t] = [turn[t] EXCEPT !.at = "talk"])
    BY DEF Unblock, Waiting
  <2>. QED BY <2>1, <2>2 DEF TurnRecord
<1>2. \A t \in Turn : WireFits(t)'
  BY <1>1 DEF EventInv, WireFits
<1>3. ASSUME NEW x \in Session PROVE HistoryFits(x)'
  <2>1. \A i \in history[x] : i[1] \in Turn
    BY <1>0 DEF EngineTypes, Items
  <2>2. \A i \in history[x] : Belongs(i, x)'
    BY <1>1, <2>1 DEF EventInv, HistoryFits, Belongs
  <2>. QED BY <2>2 DEF EventInv, HistoryFits
<1>4. \A t \in Turn : turn'[t].at \in {"talk", "ask"} => known'[turn'[t].session] # "new"
  BY <1>0, <1>1 DEF EventInv, TurnsFit
<1>. QED BY <1>2, <1>3, <1>4 DEF EventInv

LEMMA EventCreate == ASSUME TypeInv, EventInv, NEW h \in Hand, Create(h) PROVE EventInv'
<1>0. EngineTypes /\ TurnsFit
  BY DEF TypeInv
<1>1. UNCHANGED <<history, turn, wire>> /\ \A x \in Session : known'[x] = "new" => known[x] = "new"
  BY <1>0 DEF Create, EngineTypes
<1>. QED BY <1>0, <1>1 DEF EventInv, WireFits, HistoryFits, Belongs, TurnsFit

LEMMA EventAsk == ASSUME TypeInv, EventInv, NEW t \in Turn, Ask(t) PROVE EventInv'
<1>0. /\ EngineTypes /\ WireFits(t) /\ turn[t] \in TurnRecord /\ wire[t] \in Seq(Events)
      /\ turn[t].at = "talk" /\ ~turn[t].asked /\ turn[t].session \in Session
      /\ known[turn[t].session] # "new"
  BY DEF TypeInv, EventInv, Ask, EngineTypes, TurnsFit
<1> DEFINE r == [at |-> "ask", session |-> turn[t].session, asked |-> TRUE]
           w == wire[t] \o <<"ask">>
<1>1. /\ r \in TurnRecord /\ r.at = "ask" /\ r.session = turn[t].session /\ r.asked = TRUE
      /\ w \in Seq(Events)
      /\ turn' = [turn EXCEPT ![t] = r] /\ wire' = [wire EXCEPT ![t] = w]
      /\ UNCHANGED <<known, history>>
  BY <1>0, EventsType DEF Ask, Emit, TurnRecord
<1>2. Ordered(w) /\ \A e : On(w, e) <=> On(wire[t], e) \/ e = "ask"
  BY <1>0, OrderedAppend, OnAppend, OnOne, EventsType DEF WireFits
<1> HIDE DEF r, w
<1>3. turn'[t] = r /\ wire'[t] = w
  BY <1>0, <1>1 DEF EngineTypes
<1>4. WireFits(t)'
  BY <1>0, <1>1, <1>2, <1>3 DEF WireFits
<1>6. \A s \in Session : \A i \in history[s] : i[1] = t => Belongs(i, s)'
  BY <1>0, <1>1, <1>3 DEF EventInv, HistoryFits, Belongs
<1>. QED BY <1>0, <1>1, <1>4, <1>6, EventOne

LEMMA EventFinish == ASSUME TypeInv, EventInv, NEW t \in Turn, Finish(t) PROVE EventInv'
<1>0. /\ EngineTypes /\ WireFits(t) /\ turn[t] \in TurnRecord /\ wire[t] \in Seq(Events)
      /\ turn[t].at = "talk" /\ turn[t].session \in Session /\ known[turn[t].session] # "new"
  BY DEF TypeInv, EventInv, Finish, EngineTypes, TurnsFit
<1> DEFINE r == [turn[t] EXCEPT !.at = "over"]
<1>1. /\ r \in TurnRecord /\ r.at = "over" /\ r.session = turn[t].session /\ r.asked = turn[t].asked
      /\ turn' = [turn EXCEPT ![t] = r] /\ known' = known
  BY <1>0 DEF Finish, TurnRecord
<1> HIDE DEF r
<1>2. PICK e \in {"done", "error"} :
        /\ wire' = [wire EXCEPT ![t] = wire[t] \o <<e, "complete">>]
        /\ \/ e = "done" /\ history' = [history EXCEPT ![turn[t].session] = @ \cup {<<t, "answer">>}]
           \/ history' = history
  BY DEF Finish, Emit
<1> DEFINE w == wire[t] \o <<e, "complete">>
<1>3. w \in Seq(Events) /\ w = (wire[t] \o <<e>>) \o <<"complete">> /\ wire[t] \o <<e>> \in Seq(Events)
  BY <1>0
<1>4. Ordered(wire[t] \o <<e>>)
  BY <1>0, OrderedAppend DEF WireFits
<1>5. ~On(wire[t] \o <<e>>, "complete")
  <2>1. <<e>> \in Seq(Events) /\ ~On(<<e>>, "complete")
    BY OnOne
  <2>. QED BY <1>0, <2>1, OnAppend DEF WireFits
<1>6. Ordered(w)
  BY <1>3, <1>4, <1>5, OrderedAppend
<1>7. \A f : On(w, f) <=> On(wire[t], f) \/ f \in {e, "complete"}
  <2>1. <<e, "complete">> \in Seq(Events) /\ \A f : On(<<e, "complete">>, f) <=> f \in {e, "complete"}
    BY OnTwo
  <2>. QED BY <1>0, <2>1, OnAppend
<1> HIDE DEF w
<1>8. turn'[t] = r /\ wire'[t] = w /\ wire' = [wire EXCEPT ![t] = w]
  BY <1>0, <1>1, <1>2 DEF EngineTypes, w
<1>9. WireFits(t)'
  BY <1>0, <1>1, <1>6, <1>7, <1>8 DEF WireFits
<1>11. \A s \in Session : \A i \in history[s] : i[1] = t => Belongs(i, s)'
  BY <1>0, <1>1, <1>8 DEF EventInv, HistoryFits, Belongs
<1>12. ASSUME NEW s \in Session
       PROVE  /\ \A i \in history'[s] : (i \in history[s] /\ i[1] # t) \/ Belongs(i, s)'
              /\ history'[s] = history[s] \/ known[s] # "new"
  <2>1. CASE history' = history
    BY <1>11, <2>1
  <2>2. CASE s # turn[t].session
    BY <1>0, <1>2, <1>11, <2>2 DEF EngineTypes
  <2>3. CASE s = turn[t].session /\ history' = [history EXCEPT ![turn[t].session] = @ \cup {<<t, "answer">>}]
    <3>1. history'[s] = history[s] \cup {<<t, "answer">>}
      BY <1>0, <2>3 DEF EngineTypes
    <3>2. Belongs(<<t, "answer">>, s)'
      BY <1>1, <1>8, <2>3 DEF Belongs
    <3>. QED BY <1>0, <1>11, <2>3, <3>1, <3>2
  <2>. QED BY <1>2, <2>1, <2>2, <2>3
<1>. QED BY <1>0, <1>1, <1>3, <1>8, <1>9, <1>12, EventOne

LEMMA EventReceive == ASSUME TypeInv, EventInv, NEW t \in Turn, Receive(t) PROVE EventInv'
<1>0. /\ EngineTypes /\ WireFits(t) /\ turn[t] \in TurnRecord /\ wire[t] \in Seq(Events)
      /\ wire[t] # <<>> /\ UNCHANGED <<known, history, turn>>
      /\ wire' = [wire EXCEPT ![t] = Tail(wire[t])]
  BY DEF TypeInv, EventInv, Receive, EngineTypes
<1>1. wire'[t] = Tail(wire[t]) /\ \A u \in Turn \ {t} : wire'[u] = wire[u]
  BY <1>0 DEF EngineTypes
<1>2. Ordered(Tail(wire[t])) /\ \A e : On(Tail(wire[t]), e) => On(wire[t], e)
  BY <1>0, OrderedTail DEF WireFits
<1>3. \A u \in Turn : WireFits(u)'
  BY <1>0, <1>1, <1>2 DEF EventInv, WireFits
<1>. QED BY <1>0, <1>3 DEF EventInv, HistoryFits, Belongs

LEMMA EventNext == TypeInv /\ EventInv /\ [Next]_vars => EventInv'
<1>. SUFFICES ASSUME TypeInv, EventInv, [Next]_vars PROVE EventInv'
  OBVIOUS
<1>1. CASE UNCHANGED vars
  BY <1>1, EventKept DEF vars
<1>2. CASE SelectScreen
  BY <1>2, EventKept DEF SelectScreen
<1>3. ASSUME NEW h \in Hand, Call(h) PROVE EventInv'
  <2>1. UNCHANGED <<engine, screen, ghosts>>
    BY <1>3 DEF Call, Boot, CreateChat, Open, Archive, FirstMessage, Respond, Stop, Begin
  <2>. QED BY <2>1, EventKept
<1>4. ASSUME NEW h \in Hand, Continue(h) PROVE EventInv'
  <2>0. call[h] \in CallRecord /\ Fits(call[h])
    BY NewType
  <2>1. CASE Latest(h) \/ Read(h) \/ Show(h) \/ Inventory(h) \/ Fail(h) \/ Settle(h) \/ List(h)
    BY <2>1, EventKept DEF Latest, Read, Show, Inventory, Fail, Settle, List
  <2>2. CASE SendFirst(h)
    BY <2>0, <2>2, EventSend, EventKept DEF SendFirst, Fits
  <2>3. CASE Reach(h)
    BY <2>0, <2>3, EventResume, EventUnblock, EventKept DEF Reach, Fits
  <2>4. CASE Destroy(h)
    <3>1. \A x \in Session : known'[x] = "new" => known[x] = "new"
      BY <2>4 DEF Destroy, TypeInv, EngineTypes
    <3>. QED BY <2>4, <3>1, EventUnblock DEF Destroy
  <2>. QED BY <1>4, <2>1, <2>2, <2>3, <2>4, EventCreate DEF Continue
<1>5. ASSUME NEW t \in Turn, TurnStep(t) PROVE EventInv'
  BY <1>5, EventSend, EventAsk, EventResume, EventFinish, EventReceive DEF TurnStep, Send, Expire
<1>. QED BY <1>1, <1>2, <1>3, <1>4, <1>5 DEF Next

-----------------------------------------------------------------------------
(* What the screen shows                                                   *)
-----------------------------------------------------------------------------
Count(t, kind) == shell.messages[<<t, kind>>]
Kept(t, kind) == turn[t].session \in Session /\ <<t, kind>> \in history[turn[t].session]

(* The screen has of a turn of its session what the turn has said, except   *)
(* for what is still on its way, and of any other turn nothing.             *)
ShowsOwn(t) ==
  /\ turn[t].session = shell.session
  /\ \A kind \in {"prompt", "tool", "answer", "error"} : Count(t, kind) \in {0, 1}
  /\ Kept(t, "prompt") => Count(t, "prompt") = 1
  /\ Kept(t, "tool") /\ ~On(wire[t], "tool") => Count(t, "tool") = 1
  /\ On(wire[t], "tool") \/ turn[t].at = "ask" \/ ~turn[t].asked => Count(t, "tool") = 0
  /\ Kept(t, "answer") /\ ~On(wire[t], "done") => Count(t, "answer") = 1
  /\ On(wire[t], "done") \/ turn[t].at # "over" => Count(t, "answer") = 0
  /\ ~Kept(t, "error")
  /\ On(wire[t], "error") \/ turn[t].at # "over" => Count(t, "error") = 0

ShowsNone(t) ==
  /\ turn[t].session # shell.session
  /\ \A kind \in {"prompt", "tool", "answer", "error"} : Count(t, kind) = 0
  /\ ~UnderWay(t)

Shows(t) == ShowsOwn(t) \/ ShowsNone(t)

(* The controller's copy is the history until a turn is sent. *)
CtlFits == ~since => Quiet /\ (ctl.session # None => ctl.messages = history[ctl.session])

(* A history that was read at rest is still the history. *)
CleanFits(h) ==
  /\ call[h].at \in {"latest", "create"} => call[h].read = {}
  /\ call[h].at = "show" /\ call[h].clean => Quiet /\ call[h].read = history[call[h].session]

ShellFits == ~doubt /\ shell.session # None => \A t \in Turn : Shows(t)

(* A screen that streams has a turn that will tell it to stop. *)
Streams ==
  shell.streaming => \E t \in Turn : turn[t].at \in {"talk", "ask"} \/ On(wire[t], "done") \/ On(wire[t], "error")

ScreenInv == CtlFits /\ ShellFits /\ Streams /\ \A h \in Hand : CleanFits(h)

LEMMA ScreenInit == Init => ScreenInv
<1>. SUFFICES ASSUME Init PROVE ScreenInv
  OBVIOUS
<1>1. shell.session = None /\ shell.streaming = FALSE /\ ctl.session = None
  BY DEF Init, Taken
<1>2. Quiet
  BY DEF Init, Quiet, UnderWay
<1>3. \A h \in Hand : CleanFits(h)
  BY DEF Init, CleanFits
<1>. QED BY <1>1, <1>2, <1>3 DEF ScreenInv, CtlFits, ShellFits, Streams

(* A screen loaded from a history at rest. *)
LEMMA LoadedShows ==
  ASSUME TypeInv, EventInv, Quiet, NEW s \in Session,
         shell' = Taken([session |-> s, messages |-> history[s]]),
         UNCHANGED <<history, turn, wire>>
  PROVE  \A t \in Turn : Shows(t)'
<1>1. SUFFICES ASSUME NEW t \in Turn PROVE Shows(t)'
  OBVIOUS
<1>2. ~UnderWay(t) /\ wire[t] = <<>> /\ turn[t].at \notin {"talk", "ask"} /\ \A e : ~On(wire[t], e)
  BY OnEmpty DEF Quiet, UnderWay
<1>3. ~UnderWay(t)'
  BY <1>2 DEF UnderWay
<1>4. /\ shell'.session = s
      /\ \A kind \in {"prompt", "tool", "answer", "error"} :
           Count(t, kind)' = IF <<t, kind>> \in history[s] THEN 1 ELSE 0
  <2>1. shell'.session = s /\ shell'.messages = Once(history[s])
    BY DEF Taken
  <2>2. \A kind \in {"prompt", "tool", "answer", "error"} : <<t, kind>> \in Items
    BY DEF Items
  <2>. QED BY <2>1, <2>2 DEF Once, Count
<1>5. \A kind : <<t, kind>> \in history[s] =>
        /\ turn[t].session = s /\ kind # "error"
        /\ kind = "tool" => turn[t].asked /\ turn[t].at # "ask"
        /\ kind = "answer" => turn[t].at = "over"
  BY DEF EventInv, HistoryFits, Belongs
<1>6. CASE turn[t].session = s
  <2>1. \A kind : Kept(t, kind)' <=> <<t, kind>> \in history[s]
    BY <1>6 DEF Kept
  <2>. QED BY <1>2, <1>4, <1>5, <1>6, <2>1 DEF Shows, ShowsOwn
<1>7. CASE turn[t].session # s
  BY <1>3, <1>4, <1>5, <1>7 DEF Shows, ShowsNone
<1>. QED BY <1>6, <1>7

(* The screen becomes the controller's copy. *)
LEMMA ReplaceShows ==
  ASSUME TypeInv, EventInv, ScreenInv, Replace(ctl), doubt' = (doubt \/ since),
         UNCHANGED <<history, turn, wire, since>>
  PROVE  CtlFits' /\ ShellFits' /\ Streams'
<1>0. ctl \in Copy /\ ctl' = ctl /\ shell' = Taken(ctl) /\ shell'.session = ctl.session /\ shell'.streaming = FALSE
  BY DEF TypeInv, ScreenTypes, Replace, Taken
<1>1. CtlFits'
  BY <1>0 DEF ScreenInv, CtlFits, Quiet, UnderWay
<1>2. Streams'
  BY <1>0 DEF Streams
<1>3. ASSUME ~doubt', ctl.session # None PROVE \A t \in Turn : Shows(t)'
  <2>1. Quiet /\ ctl.messages = history[ctl.session]
    BY <1>3 DEF ScreenInv, CtlFits
  <2>2. ctl.session \in Session /\ shell' = Taken([session |-> ctl.session, messages |-> history[ctl.session]])
    BY <1>0, <1>3, <2>1 DEF Copy, Taken
  <2>. QED BY <2>1, <2>2, LoadedShows
<1>. QED BY <1>0, <1>1, <1>2, <1>3 DEF ShellFits

(* A step of a call without effect on the turns. *)
LEMMA CleanOne ==
  ASSUME TypeInv, ScreenInv, NEW h \in Hand, NEW new \in CallRecord, call' = [call EXCEPT ![h] = new],
         UNCHANGED <<history, turn, wire>>,
         new.at \in {"latest", "create"} => new.read = {},
         new.at = "show" /\ new.clean => Quiet /\ new.read = history[new.session]
  PROVE  \A g \in Hand : CleanFits(g)'
<1>1. SUFFICES ASSUME NEW g \in Hand PROVE CleanFits(g)'
  OBVIOUS
<1>2. Quiet' = Quiet
  BY DEF Quiet, UnderWay
<1>3. call \in [Hand -> CallRecord]
  BY DEF TypeInv, CallTypes
<1>4. CASE g = h
  BY <1>2, <1>3, <1>4 DEF CleanFits
<1>5. CASE g # h
  BY <1>2, <1>3, <1>5 DEF ScreenInv, CleanFits
<1>. QED BY <1>4, <1>5

LEMMA StillFits ==
  ASSUME TypeInv, ScreenInv, UNCHANGED <<history, turn, wire, ctl, shell, since, doubt>>
  PROVE  CtlFits' /\ ShellFits' /\ Streams'
<1>1. CtlFits'
  BY DEF ScreenInv, CtlFits, Quiet, UnderWay
<1>2. ShellFits'
  BY DEF ScreenInv, ShellFits, Shows, ShowsOwn, ShowsNone, UnderWay, Count, Kept
<1>3. Streams'
  BY DEF ScreenInv, Streams
<1>. QED BY <1>1, <1>2, <1>3

LEMMA ScreenCall == ASSUME TypeInv, ScreenInv, NEW h \in Hand, Call(h) PROVE ScreenInv'
<1>1. PICK op, at, s, t :
        /\ op \in Ops /\ at \in {"latest", "create", "read", "destroy", "ask"}
        /\ Begin(h, op, at, s, t)
  BY DEF Call, Boot, CreateChat, Open, Archive, FirstMessage, Respond, Stop
<1> DEFINE new == [op |-> op, at |-> at, session |-> s, turn |-> t, read |-> {}, clean |-> FALSE]
<1>2. CallTypes /\ CallTypes'
  BY TypeCall DEF TypeInv
<1>3. call'[h] = new /\ \A g \in Hand \ {h} : call'[g] = call[g]
  BY <1>1, <1>2 DEF Begin, CallTypes
<1>4. \A g \in Hand : CleanFits(g)'
  <2>1. CleanFits(h)'
    BY <1>3 DEF CleanFits
  <2>2. ASSUME NEW g \in Hand \ {h} PROVE CleanFits(g)'
    BY <1>1, <1>3, <2>2 DEF Begin, ScreenInv, CleanFits, Quiet, UnderWay
  <2>. QED BY <2>1, <2>2
<1>. QED BY <1>1, <1>4, StillFits DEF Begin, ScreenInv

LEMMA ScreenLook ==
  ASSUME TypeInv, EventInv, ScreenInv, NEW h \in Hand, Latest(h) \/ Create(h) \/ Read(h) \/ Inventory(h)
  PROVE  ScreenInv'
<1>0. call[h] \in CallRecord /\ CleanFits(h) /\ EngineTypes /\ Quiet \in BOOLEAN /\ Fits(call[h])
  BY NewType DEF TypeInv, ScreenInv, Quiet, UnderWay
<1>1. \A g \in Hand : CleanFits(g)'
  <2>1. CASE Latest(h)
    <3>1. CASE call' = [call EXCEPT ![h].at = "create"]
      <4> DEFINE new == [call[h] EXCEPT !.at = "create"]
      <4>1. new \in CallRecord /\ call' = [call EXCEPT ![h] = new] /\ new.at = "create" /\ new.read = {}
        BY <1>0, <2>1, <3>1 DEF CallRecord, Latest, CleanFits
      <4> HIDE DEF new
      <4>. QED BY <2>1, <4>1, CleanOne DEF Latest
    <3>2. ASSUME NEW s \in Live, call' = [call EXCEPT ![h].at = "read", ![h].session = s]
          PROVE  \A g \in Hand : CleanFits(g)'
      <4> DEFINE new == [call[h] EXCEPT !.at = "read", !.session = s]
      <4>1. new \in CallRecord /\ call' = [call EXCEPT ![h] = new] /\ new.at = "read"
        BY <1>0, <3>2 DEF CallRecord, Live
      <4> HIDE DEF new
      <4>. QED BY <2>1, <4>1, CleanOne DEF Latest
    <3>. QED BY <2>1, <3>1, <3>2 DEF Latest
  <2>2. CASE Create(h)
    <3>1. PICK s \in Session : /\ known[s] = "new"
                               /\ call' = [call EXCEPT ![h].at = "show", ![h].session = s, ![h].clean = Quiet]
      BY <2>2 DEF Create
    <3> DEFINE new == [call[h] EXCEPT !.at = "show", !.session = s, !.clean = Quiet]
    <3>2. /\ new \in CallRecord /\ call' = [call EXCEPT ![h] = new]
          /\ new.at = "show" /\ new.session = s /\ new.clean = Quiet /\ new.read = call[h].read
      BY <1>0, <3>1 DEF CallRecord
    <3>3. call[h].read = {} /\ history[s] = {}
      BY <1>0, <2>2, <3>1 DEF CleanFits, Create, EventInv, HistoryFits
    <3> HIDE DEF new
    <3>. QED BY <2>2, <3>2, <3>3, CleanOne DEF Create
  <2>3. CASE Read(h)
    <3> DEFINE new == [call[h] EXCEPT !.at = "show", !.read = history[call[h].session], !.clean = Quiet]
    <3>1. call[h].session \in Session
      BY <1>0, <2>3 DEF Read, Fits
    <3>2. history[call[h].session] \in SUBSET Items
      BY <1>0, <3>1 DEF EngineTypes
    <3>3. /\ new \in CallRecord /\ call' = [call EXCEPT ![h] = new]
          /\ new.at = "show" /\ new.session = call[h].session /\ new.clean = Quiet
          /\ new.read = history[call[h].session]
      BY <1>0, <2>3, <3>2 DEF CallRecord, Read
    <3> HIDE DEF new
    <3>. QED BY <2>3, <3>3, CleanOne DEF Read
  <2>4. CASE Inventory(h)
    <3>1. CASE call' = [call EXCEPT ![h] = Idle]
      BY <2>4, <3>1, IdleFits, CleanOne DEF Inventory
    <3>2. ASSUME NEW s \in Session,
                 call' = [call EXCEPT ![h] = [Idle EXCEPT !.op = "default", !.at = "read", !.session = s]]
          PROVE  \A g \in Hand : CleanFits(g)'
      <4> DEFINE new == [Idle EXCEPT !.op = "default", !.at = "read", !.session = s]
      <4>1. new \in CallRecord /\ new.at = "read"
        BY DEF CallRecord
      <4>2. call' = [call EXCEPT ![h] = new]
        BY <3>2
      <4> HIDE DEF new
      <4>. QED BY <2>4, <4>1, <4>2, CleanOne DEF Inventory
    <3>. QED BY <2>4, <3>1, <3>2 DEF Inventory
  <2>. QED BY <2>1, <2>2, <2>3, <2>4
<1>2. UNCHANGED <<history, turn, wire, ctl, shell, since, doubt>>
  BY DEF Latest, Create, Read, Inventory
<1>. QED BY <1>1, <1>2, StillFits DEF ScreenInv

LEMMA AfterClean == ASSUME NEW h \in Hand PROVE After(call[h]).at \in {"none", "inventory", "send"}
BY DEF After

LEMMA ScreenReplaced ==
  ASSUME TypeInv, EventInv, ScreenInv, NEW h \in Hand, Show(h) \/ Fail(h) \/ Settle(h) \/ List(h)
  PROVE  ScreenInv'
<1>0. call[h] \in CallRecord /\ CleanFits(h) /\ EngineTypes /\ Fits(call[h])
  BY NewType DEF TypeInv, ScreenInv
<1>1. CASE Show(h)
  <2>1. \A g \in Hand : CleanFits(g)'
    BY <1>1, AfterType, AfterClean, CleanOne DEF Show
  <2>2. /\ ctl'.session = call[h].session /\ ctl'.messages = call[h].read
        /\ shell' = Taken([session |-> call[h].session, messages |-> call[h].read])
        /\ shell'.streaming = FALSE /\ since' = ~call[h].clean /\ doubt' = ~call[h].clean
        /\ UNCHANGED <<history, turn, wire>> /\ call[h].session \in Session
    BY <1>0, <1>1 DEF Show, Replace, Taken, Fits
  <2>3. call[h].clean => Quiet /\ call[h].read = history[call[h].session]
    BY <1>0, <1>1 DEF Show, CleanFits
  <2>4. CtlFits'
    BY <2>2, <2>3 DEF CtlFits, Quiet, UnderWay
  <2>5. ASSUME call[h].clean PROVE \A t \in Turn : Shows(t)'
    BY <2>2, <2>3, <2>5, LoadedShows
  <2>. QED BY <2>1, <2>2, <2>4, <2>5 DEF ScreenInv, ShellFits, Streams
<1>2. CASE Fail(h)
  <2>1. \A g \in Hand : CleanFits(g)'
    BY <1>2, AfterType, AfterClean, IdleFits, CleanOne DEF Fail
  <2>. QED BY <1>2, <2>1, ReplaceShows, StillFits DEF Fail, ScreenInv
<1>3. CASE Settle(h)
  <2>1. \A g \in Hand : CleanFits(g)'
    BY <1>3, IdleFits, CleanOne DEF Settle
  <2>. QED BY <1>3, <2>1, ReplaceShows DEF Settle, ScreenInv
<1>4. CASE List(h)
  <2>1. ASSUME NEW n \in Live, call' = [call EXCEPT ![h].at = "read", ![h].session = n]
        PROVE  \A g \in Hand : CleanFits(g)'
    <3> DEFINE new == [call[h] EXCEPT !.at = "read", !.session = n]
    <3>1. new \in CallRecord /\ call' = [call EXCEPT ![h] = new] /\ new.at = "read"
      BY <1>0, <2>1 DEF CallRecord, Live
    <3> HIDE DEF new
    <3>. QED BY <1>4, <3>1, CleanOne DEF List
  <2>2. CASE call' = [call EXCEPT ![h] = Idle]
    <3>1. \A g \in Hand : CleanFits(g)'
      BY <1>4, <2>2, IdleFits, CleanOne DEF List
    <3>. QED
      <4>1. CASE shell' = Taken([session |-> None, messages |-> {}])
        <5>1. shell'.session = None /\ shell'.streaming = FALSE
          BY <4>1 DEF Taken
        <5>2. CtlFits'
          BY <1>4 DEF List, ScreenInv, CtlFits, Quiet, UnderWay
        <5>. QED BY <3>1, <5>1, <5>2 DEF ScreenInv, ShellFits, Streams
      <4>2. CASE UNCHANGED shell
        BY <1>4, <3>1, <4>2, StillFits DEF List, ScreenInv
      <4>. QED BY <1>4, <4>1, <4>2 DEF List
  <2>3. CASE UNCHANGED shell
    <3>1. \A g \in Hand : CleanFits(g)'
      BY <1>4, <2>1, <2>2, IdleFits, CleanOne DEF List
    <3>. QED BY <1>4, <2>3, <3>1, StillFits DEF List, ScreenInv
  <2>. QED BY <1>4, <2>2, <2>3 DEF List
<1>. QED BY <1>1, <1>2, <1>3, <1>4

(* A turn a step is not about. *)
LEMMA OtherShows ==
  ASSUME NEW u \in Turn, Shows(u), turn'[u] = turn[u], wire'[u] = wire[u],
         shell'.session = shell.session,
         \A kind \in {"prompt", "tool", "answer", "error"} :
           Count(u, kind)' = Count(u, kind) /\ Kept(u, kind)' = Kept(u, kind)
  PROVE  Shows(u)'
<1>1. CASE ShowsOwn(u)
  BY <1>1 DEF Shows, ShowsOwn
<1>2. CASE ShowsNone(u)
  BY <1>2 DEF Shows, ShowsNone, UnderWay
<1>. QED BY <1>1, <1>2 DEF Shows

(* What a turn adds to the histories is its own. *)
LEMMA OtherKept ==
  ASSUME TypeInv, NEW u \in Turn, turn'[u].session = turn[u].session,
         \A s \in Session : \A i : i[1] = u => (i \in history'[s] <=> i \in history[s])
  PROVE  \A kind : Kept(u, kind)' = Kept(u, kind)
<1>1. SUFFICES ASSUME NEW kind PROVE Kept(u, kind)' = Kept(u, kind)
  OBVIOUS
<1>2. <<u, kind>>[1] = u
  OBVIOUS
<1>. QED BY <1>2 DEF Kept

(* Whatever goes on in a turn under way finds the flag of a turn sent set. *)
LEMMA BusyStep ==
  ASSUME TypeInv, ScreenInv, ~Quiet, since' = since, ctl' = ctl,
         \A g \in Hand : call'[g] = call[g] \/ call'[g].at \in {"none", "settle", "list"}
  PROVE  CtlFits' /\ \A g \in Hand : CleanFits(g)'
BY DEF ScreenInv, CtlFits, CleanFits

LEMMA ScreenSend ==
  ASSUME TypeInv, EventInv, ScreenInv, NEW t \in Turn, SendNow(t),
         NEW c \in [Hand -> CallRecord], call' = Unclean(c),
         \A g \in Hand : c[g].at \in {"latest", "create"} => c[g].read = {}
  PROVE  ScreenInv'
<1>0. /\ EngineTypes /\ ScreenTypes /\ turn[t].at = "none" /\ turn[t].session = None /\ wire[t] = <<>>
      /\ shell.session \in Session \cup {None}
      /\ \A e : ~On(wire[t], e)
  BY OnEmpty DEF TypeInv, EventInv, WireFits, SendNow, ScreenTypes, Shown
<1>1. \A g \in Hand : CleanFits(g)'
  <2>1. SUFFICES ASSUME NEW g \in Hand PROVE CleanFits(g)'
    OBVIOUS
  <2>2. c[g] \in CallRecord /\ call'[g] = [c[g] EXCEPT !.clean = FALSE]
    BY DEF Unclean
  <2>3. call'[g].at = c[g].at /\ call'[g].read = c[g].read /\ call'[g].clean = FALSE
    BY <2>2 DEF CallRecord
  <2>. QED BY <2>3 DEF CleanFits
<1>2. CtlFits'
  BY DEF CtlFits, SendNow
<1>3. shell'.session = shell.session /\ shell'.streaming = TRUE /\ doubt' = doubt
  BY <1>0 DEF SendNow, Say, ScreenTypes, Shown
<1>4. \A i \in Items : shell'.messages[i] = IF i = <<t, "prompt">> THEN shell.messages[i] + 1 ELSE shell.messages[i]
  <2>1. Say("prompt", t) \in Shown /\ shell.messages \in [Items -> Nat]
    BY <1>0, SayType DEF ScreenTypes, Shown
  <2>2. shell'.messages = Say("prompt", t).messages
    BY <2>1 DEF SendNow, Shown
  <2>. QED BY <1>0, <2>1, <2>2 DEF Say, ScreenTypes, Shown
<1>5. /\ turn'[t].session = shell.session /\ ~turn'[t].asked
      /\ \/ turn'[t].at = "talk" /\ wire'[t] = <<>>
         \/ turn'[t].at = "over" /\ wire'[t] = <<"error">>
      /\ \A u \in Turn \ {t} : turn'[u] = turn[u] /\ wire'[u] = wire[u]
  BY <1>0 DEF SendNow, Emit, EngineTypes
<1>6. history' = history \/ history' = [history EXCEPT ![shell.session] = @ \cup {<<t, "prompt">>}]
  BY DEF SendNow
<1>7. \A s \in Session : \A i : i \in history'[s] => i \in history[s] \/ i = <<t, "prompt">>
  <2>1. \A s \in Session : history'[s] = history[s] \/ history'[s] = history[s] \cup {<<t, "prompt">>}
    BY <1>0, <1>6 DEF EngineTypes
  <2>. QED BY <2>1
<1>8. \A s \in Session : \A i : i \in history[s] => i \in history'[s]
  <2>1. \A s \in Session : history'[s] = history[s] \/ history'[s] = history[s] \cup {<<t, "prompt">>}
    BY <1>0, <1>6 DEF EngineTypes
  <2>. QED BY <2>1
<1>9. Streams'
  <2>1. turn'[t].at = "talk" \/ On(wire'[t], "error")
    BY <1>5, OnOne
  <2>. QED BY <2>1 DEF Streams
<1>10. ASSUME ~doubt, shell.session # None PROVE \A u \in Turn : Shows(u)'
  <2>1. CASE shell.session # None
    <3>1. ASSUME NEW u \in Turn \ {t} PROVE Shows(u)'
      <4>1. Shows(u)
        BY <1>10, <3>1 DEF ScreenInv, ShellFits
      <4>2. \A kind \in {"prompt", "tool", "answer", "error"} : Count(u, kind)' = Count(u, kind)
        BY <1>4, <3>1 DEF Count, Items
      <4>3. \A kind : Kept(u, kind)' = Kept(u, kind)
        BY <1>5, <1>7, <1>8, <3>1, OtherKept
      <4>. QED BY <1>3, <1>5, <3>1, <4>1, <4>2, <4>3, OtherShows
    <3>2. Shows(t)'
      <4>1. ShowsNone(t)
        BY <1>0, <1>10 DEF ScreenInv, ShellFits, Shows, ShowsOwn
      <4>2. /\ Count(t, "prompt")' = 1 /\ Count(t, "tool")' = 0
            /\ Count(t, "answer")' = 0 /\ Count(t, "error")' = 0
        BY <1>4, <4>1 DEF ShowsNone, Count, Items
      <4>3. ~Kept(t, "tool")' /\ ~Kept(t, "answer")' /\ ~Kept(t, "error")'
        <5>1. \A s \in Session : \A i \in history[s] : i[1] # t
          BY <1>0 DEF EventInv, HistoryFits, Belongs
        <5>2. \A kind : kind # "prompt" => <<t, kind>> # <<t, "prompt">> /\ <<t, kind>>[1] = t
          OBVIOUS
        <5>. QED BY <1>7, <5>1, <5>2 DEF Kept
      <4>4. ~On(wire'[t], "tool") /\ ~On(wire'[t], "done")
        <5>1. \A f : (~On(<<>>, f)) /\ (On(<<"error">>, f) <=> f = "error")
          BY OnEmpty, OnOne
        <5>2. CASE wire'[t] = <<>>
          BY <5>1, <5>2
        <5>3. CASE wire'[t] = <<"error">>
          BY <5>1, <5>3
        <5>. QED BY <1>5, <5>2, <5>3
      <4>. QED BY <1>3, <1>5, <4>2, <4>3, <4>4 DEF Shows, ShowsOwn
    <3>. QED BY <3>1, <3>2
  <2>. QED BY <1>10, <2>1
<1>. QED BY <1>1, <1>2, <1>3, <1>9, <1>10 DEF ScreenInv, ShellFits

(* The turns under way that say something more, or wait no longer. *)
LEMMA TurnShows ==
  ASSUME TypeInv, ScreenInv, NEW t \in Turn, UNCHANGED <<shell, doubt>>, UnderWay(t),
         \A u \in Turn \ {t} : turn'[u] = turn[u] /\ wire'[u] = wire[u],
         \A s \in Session : \A i : i[1] # t => (i \in history'[s] <=> i \in history[s]),
         ShowsOwn(t) => ShowsOwn(t)'
  PROVE  ShellFits'
<1>1. SUFFICES ASSUME ~doubt, shell.session # None, NEW u \in Turn PROVE Shows(u)'
  BY DEF ShellFits
<1>2. Shows(u)
  BY <1>1 DEF ScreenInv, ShellFits
<1>3. CASE u = t
  BY <1>2, <1>3 DEF Shows, ShowsNone
<1>4. CASE u # t
  <2>1. \A s \in Session : \A i : i[1] = u => (i \in history'[s] <=> i \in history[s])
    BY <1>4
  <2>2. \A kind : Kept(u, kind)' = Kept(u, kind)
    BY <1>4, <2>1, OtherKept
  <2>3. \A kind : Count(u, kind)' = Count(u, kind)
    BY DEF Count
  <2>. QED BY <1>2, <1>4, <2>2, <2>3, OtherShows
<1>. QED BY <1>3, <1>4

LEMMA ScreenResume ==
  ASSUME TypeInv, EventInv, ScreenInv, NEW t \in Turn, Waiting(t), Resume(t), UNCHANGED <<screen, ghosts>>
  PROVE  ShellFits' /\ Streams'
<1>0. /\ EngineTypes /\ turn[t] \in TurnRecord /\ wire[t] \in Seq(Events) /\ UnderWay(t)
      /\ turn[t].at = "ask" /\ turn[t].session \in Session
  BY DEF TypeInv, Waiting, EngineTypes, TurnsFit, UnderWay
<1>1. /\ turn'[t] = [turn[t] EXCEPT !.at = "talk"] /\ wire'[t] = wire[t] \o <<"tool">>
      /\ \A u \in Turn \ {t} : turn'[u] = turn[u] /\ wire'[u] = wire[u]
      /\ history' = [history EXCEPT ![turn[t].session] = @ \cup {<<t, "tool">>}]
  BY <1>0 DEF Resume, Emit, EngineTypes
<1>2. turn'[t].at = "talk" /\ turn'[t].session = turn[t].session /\ turn'[t].asked = turn[t].asked
  BY <1>0, <1>1 DEF TurnRecord
<1>3. \A e : On(wire'[t], e) <=> On(wire[t], e) \/ e = "tool"
  <2>1. \A e : On(wire[t] \o <<"tool">>, e) <=> On(wire[t], e) \/ On(<<"tool">>, e)
    BY <1>0, OnAppend, EventsType
  <2>. QED BY <1>1, <2>1, OnOne
<1>4. \A s \in Session : \A i : i # <<t, "tool">> => (i \in history'[s] <=> i \in history[s])
  BY <1>0, <1>1 DEF EngineTypes
<1>5. \A kind : kind # "tool" => (Kept(t, kind)' <=> Kept(t, kind))
  BY <1>2, <1>4 DEF Kept
<1>6. ShowsOwn(t) => ShowsOwn(t)'
  BY <1>0, <1>2, <1>3, <1>5 DEF ShowsOwn, Count
<1>7. ShellFits'
  BY <1>0, <1>1, <1>4, <1>6, TurnShows
<1>8. Streams'
  BY <1>2 DEF Streams
<1>. QED BY <1>7, <1>8

LEMMA ScreenUnblock ==
  ASSUME TypeInv, EventInv, ScreenInv, NEW s, Unblock(s),
         UNCHANGED <<history, wire, ctl, shell, since, doubt>>,
         NEW h \in Hand, NEW new \in CallRecord, new.at \in {"none", "settle", "list"},
         call' = [call EXCEPT ![h] = new]
  PROVE  ScreenInv'
<1>0. EngineTypes /\ \A t \in Turn : WireFits(t)
  BY DEF TypeInv, EventInv
<1>1. ASSUME NEW t \in Turn
      PROVE  /\ turn'[t].session = turn[t].session /\ turn'[t].asked = turn[t].asked
             /\ turn'[t].at = turn[t].at \/ (turn[t].at = "ask" /\ turn'[t].at = "talk")
  <2>1. turn[t] \in TurnRecord
    BY <1>0 DEF EngineTypes
  <2>2. turn'[t] = turn[t] \/ (turn[t].at = "ask" /\ turn'[t] = [turn[t] EXCEPT !.at = "talk"])
    BY DEF Unblock, Waiting
  <2>. QED BY <2>1, <2>2 DEF TurnRecord
<1>2. Quiet' <=> Quiet
  BY <1>1 DEF Quiet, UnderWay
<1>3. \A t \in Turn : Shows(t) => Shows(t)'
  <2>1. SUFFICES ASSUME NEW t \in Turn, Shows(t) PROVE Shows(t)'
    OBVIOUS
  <2>2. \A kind : (Kept(t, kind)' <=> Kept(t, kind)) /\ Count(t, kind)' = Count(t, kind)
    BY <1>1 DEF Kept, Count
  <2>3. CASE ShowsOwn(t)
    BY <1>0, <1>1, <2>2, <2>3 DEF Shows, ShowsOwn, WireFits
  <2>4. CASE ShowsNone(t)
    BY <1>1, <2>2, <2>4 DEF Shows, ShowsNone, UnderWay
  <2>. QED BY <2>1, <2>3, <2>4 DEF Shows
<1>4. ShellFits'
  BY <1>3 DEF ScreenInv, ShellFits
<1>5. Streams'
  BY <1>1 DEF ScreenInv, Streams
<1>6. CtlFits'
  BY <1>2 DEF ScreenInv, CtlFits
<1>7. ASSUME NEW g \in Hand PROVE CleanFits(g)'
  <2>1. call \in [Hand -> CallRecord]
    BY DEF TypeInv, CallTypes
  <2>2. CASE g = h
    BY <2>1, <2>2 DEF CleanFits
  <2>3. CASE g # h
    BY <1>2, <2>1, <2>3 DEF ScreenInv, CleanFits
  <2>. QED BY <2>2, <2>3
<1>. QED BY <1>4, <1>5, <1>6, <1>7 DEF ScreenInv

LEMMA ScreenAsk == ASSUME TypeInv, EventInv, ScreenInv, NEW t \in Turn, Ask(t) PROVE ScreenInv'
<1>0. /\ EngineTypes /\ turn[t] \in TurnRecord /\ wire[t] \in Seq(Events) /\ UnderWay(t) /\ ~Quiet
      /\ turn[t].at = "talk" /\ turn[t].session \in Session /\ ~turn[t].asked
  BY DEF TypeInv, Ask, EngineTypes, TurnsFit, UnderWay, Quiet
<1>1. /\ turn'[t] = [at |-> "ask", session |-> turn[t].session, asked |-> TRUE]
      /\ wire'[t] = wire[t] \o <<"ask">>
      /\ \A u \in Turn \ {t} : turn'[u] = turn[u] /\ wire'[u] = wire[u]
      /\ UNCHANGED <<history, shell, ctl, doubt, since, call>>
  BY <1>0 DEF Ask, Emit, EngineTypes
<1>2. turn'[t].at = "ask" /\ turn'[t].session = turn[t].session
  BY <1>1
<1>3. \A e : On(wire'[t], e) <=> On(wire[t], e) \/ e = "ask"
  <2>1. \A e : On(wire[t] \o <<"ask">>, e) <=> On(wire[t], e) \/ On(<<"ask">>, e)
    BY <1>0, OnAppend, EventsType
  <2>. QED BY <1>1, <2>1, OnOne
<1>4. \A kind : Kept(t, kind)' <=> Kept(t, kind)
  BY <1>1, <1>2 DEF Kept
<1>5. ShowsOwn(t) => ShowsOwn(t)'
  BY <1>0, <1>1, <1>2, <1>3, <1>4 DEF ShowsOwn, Count
<1>6. ShellFits'
  BY <1>0, <1>1, <1>5, TurnShows
<1>7. Streams'
  BY <1>2 DEF Streams
<1>8. CtlFits' /\ \A g \in Hand : CleanFits(g)'
  BY <1>0, <1>1, BusyStep
<1>. QED BY <1>6, <1>7, <1>8 DEF ScreenInv

LEMMA ScreenFinish == ASSUME TypeInv, EventInv, ScreenInv, NEW t \in Turn, Finish(t) PROVE ScreenInv'
<1>0. /\ EngineTypes /\ turn[t] \in TurnRecord /\ wire[t] \in Seq(Events) /\ UnderWay(t) /\ ~Quiet
      /\ turn[t].at = "talk" /\ turn[t].session \in Session /\ ~On(wire[t], "done")
  BY DEF TypeInv, EventInv, WireFits, Finish, EngineTypes, TurnsFit, UnderWay, Quiet
<1>1. PICK e \in {"done", "error"} :
        /\ wire'[t] = wire[t] \o <<e, "complete">>
        /\ \/ e = "done" /\ history' = [history EXCEPT ![turn[t].session] = @ \cup {<<t, "answer">>}]
           \/ e = "error" /\ history' = history
  BY <1>0 DEF Finish, Emit, EngineTypes
<1>2. /\ turn'[t] = [turn[t] EXCEPT !.at = "over"]
      /\ \A u \in Turn \ {t} : turn'[u] = turn[u] /\ wire'[u] = wire[u]
      /\ UNCHANGED <<shell, ctl, doubt, since, call>>
  BY <1>0 DEF Finish, Emit, EngineTypes
<1>3. turn'[t].at = "over" /\ turn'[t].session = turn[t].session /\ turn'[t].asked = turn[t].asked
  BY <1>0, <1>2 DEF TurnRecord
<1>4. \A f : On(wire'[t], f) <=> On(wire[t], f) \/ f \in {e, "complete"}
  <2>1. <<e, "complete">> \in Seq(Events) /\ \A f : On(<<e, "complete">>, f) <=> f \in {e, "complete"}
    BY OnTwo
  <2>2. \A f : On(wire[t] \o <<e, "complete">>, f) <=> On(wire[t], f) \/ On(<<e, "complete">>, f)
    BY <1>0, <2>1, OnAppend
  <2>. QED BY <1>1, <2>1, <2>2
<1>5. \A s \in Session : \A i : i # <<t, "answer">> => (i \in history'[s] <=> i \in history[s])
  <2>1. \A s \in Session : history'[s] = history[s] \/ history'[s] = history[s] \cup {<<t, "answer">>}
    BY <1>0, <1>1 DEF EngineTypes
  <2>. QED BY <2>1
<1>6. /\ \A kind : kind # "answer" => (Kept(t, kind)' <=> Kept(t, kind))
      /\ Kept(t, "answer")' => e = "done"
  <2>1. \A kind : kind # "answer" => <<t, kind>> # <<t, "answer">>
    OBVIOUS
  <2>2. <<t, "answer">> \notin history[turn[t].session]
    <3>1. <<t, "answer">>[1] = t /\ <<t, "answer">>[2] = "answer"
      OBVIOUS
    <3>. QED BY <1>0, <3>1 DEF EventInv, HistoryFits, Belongs
  <2>. QED BY <1>1, <1>3, <1>5, <2>1, <2>2 DEF Kept
<1>7. ShowsOwn(t) => ShowsOwn(t)'
  BY <1>0, <1>1, <1>2, <1>3, <1>4, <1>6 DEF ShowsOwn, Count
<1>8. ShellFits'
  BY <1>0, <1>2, <1>5, <1>7, TurnShows
<1>9. Streams'
  BY <1>1, <1>4 DEF Streams
<1>10. CtlFits' /\ \A g \in Hand : CleanFits(g)'
  BY <1>0, <1>2, BusyStep
<1>. QED BY <1>8, <1>9, <1>10 DEF ScreenInv

(* What saying an item does to the counts. *)
LEMMA SayCounts ==
  ASSUME TypeInv, NEW t \in Turn, NEW kind \in {"prompt", "tool", "answer", "error"},
         shell'.messages = Say(kind, t).messages
  PROVE  \A u \in Turn : \A k \in {"prompt", "tool", "answer", "error"} :
           Count(u, k)' = IF u = t /\ k = kind THEN Count(u, k) + 1 ELSE Count(u, k)
<1>1. shell \in Shown
  BY DEF TypeInv, ScreenTypes
<1>2. shell'.messages = [shell.messages EXCEPT ![<<t, kind>>] = @ + 1]
  BY <1>1 DEF Say, Shown
<1>3. \A u \in Turn : \A k \in {"prompt", "tool", "answer", "error"} : <<u, k>> \in Items
  BY DEF Items
<1>. QED BY <1>1, <1>2, <1>3 DEF Count, Shown

LEMMA ScreenReceive == ASSUME TypeInv, EventInv, ScreenInv, NEW t \in Turn, Receive(t) PROVE ScreenInv'
<1>0. /\ EngineTypes /\ ScreenTypes /\ wire[t] \in Seq(Events) /\ wire[t] # <<>> /\ UnderWay(t) /\ ~Quiet
      /\ Ordered(wire[t]) /\ WireFits(t)
      /\ wire'[t] = Tail(wire[t]) /\ \A u \in Turn \ {t} : wire'[u] = wire[u]
      /\ UNCHANGED <<history, turn, ctl, since, doubt, call>>
  BY DEF TypeInv, EventInv, WireFits, Receive, EngineTypes, UnderWay, Quiet
<1>1. PICK e \in Events :
        /\ e = Head(wire[t])
        /\ On(wire'[t], e) => e = "ask"
        /\ e = "complete" => wire'[t] = <<>>
        /\ \A f : On(wire[t], f) <=> f = e \/ On(wire'[t], f)
  BY <1>0, OrderedTail
<1>2. CtlFits' /\ \A g \in Hand : CleanFits(g)'
  BY <1>0, BusyStep
<1>3. shell'.session = shell.session /\ (shell'.streaming => shell.streaming /\ e \notin {"done", "error"})
  BY <1>0, <1>1 DEF Receive, OnAsk, OnTool, OnDone, OnError, OnComplete, Say, ScreenTypes, Shown
<1>4. Streams'
  <2>1. SUFFICES ASSUME shell'.streaming
                 PROVE  \E u \in Turn : turn'[u].at \in {"talk", "ask"} \/ On(wire'[u], "done") \/ On(wire'[u], "error")
    BY DEF Streams
  <2>2. PICK u \in Turn : turn[u].at \in {"talk", "ask"} \/ On(wire[u], "done") \/ On(wire[u], "error")
    BY <1>3, <2>1 DEF ScreenInv, Streams
  <2>3. CASE u = t
    BY <1>0, <1>1, <1>3, <2>1, <2>2, <2>3
  <2>4. CASE u # t
    BY <1>0, <2>2, <2>4
  <2>. QED BY <2>3, <2>4
<1>5. PICK kind \in {"none", "prompt", "tool", "answer", "error"} :
        /\ kind = "none" => e \in {"ask", "complete"} /\ \A u, k : Count(u, k)' = Count(u, k)
        /\ kind # "none" => \A u \in Turn : \A k \in {"prompt", "tool", "answer", "error"} :
                              Count(u, k)' = IF u = t /\ k = kind THEN Count(u, k) + 1 ELSE Count(u, k)
        /\ e = "complete" => kind = (IF Count(t, "answer") > 0 THEN "none" ELSE "answer")
        /\ e = "tool" => kind = "tool"
        /\ e = "done" => kind = "answer"
        /\ e = "error" => kind = "error"
        /\ e = "ask" => kind = "none"
  <2>0. shell \in Shown
    BY <1>0 DEF ScreenTypes
  <2>1. CASE e = "ask"
    BY <1>1, <2>0, <2>1 DEF Receive, OnAsk, Shown, Count
  <2>2. CASE e = "tool"
    BY <1>1, <2>2, SayCounts DEF Receive, OnTool
  <2>3. CASE e = "done"
    <3>1. Say("answer", t) \in Shown /\ shell' = [Say("answer", t) EXCEPT !.streaming = FALSE]
      BY <1>0, <1>1, <2>3, SayType DEF Receive, OnDone
    <3>2. shell'.messages = Say("answer", t).messages
      BY <3>1 DEF Shown
    <3>. QED BY <2>3, <3>2, SayCounts
  <2>4. CASE e = "error"
    <3>1. Say("error", t) \in Shown /\ shell' = [Say("error", t) EXCEPT !.streaming = FALSE]
      BY <1>0, <1>1, <2>4, SayType DEF Receive, OnError
    <3>2. shell'.messages = Say("error", t).messages
      BY <3>1 DEF Shown
    <3>. QED BY <2>4, <3>2, SayCounts
  <2>5. CASE e = "complete" /\ Count(t, "answer") > 0
    <3>1. shell' = shell
      BY <1>1, <2>5 DEF Receive, OnComplete, Count
    <3>. QED BY <2>5, <3>1 DEF Count
  <2>6. CASE e = "complete" /\ ~(Count(t, "answer") > 0)
    <3>1. shell' = Say("answer", t)
      BY <1>1, <2>6 DEF Receive, OnComplete, Count
    <3>. QED BY <2>6, <3>1, SayCounts
  <2>. QED BY <2>1, <2>2, <2>3, <2>4, <2>5, <2>6
<1>6. \A u \in Turn : \A k : Kept(u, k)' <=> Kept(u, k)
  BY <1>0 DEF Kept
<1>7. ASSUME ~doubt, shell.session # None, NEW u \in Turn PROVE Shows(u)'
  <2>1. Shows(u)
    BY <1>7 DEF ScreenInv, ShellFits
  <2>2. CASE u # t
    <3>1. \A k \in {"prompt", "tool", "answer", "error"} : Count(u, k)' = Count(u, k) /\ Kept(u, k)' = Kept(u, k)
      BY <1>5, <1>6, <2>2 DEF Kept
    <3>. QED BY <1>0, <1>3, <2>1, <2>2, <3>1, OtherShows
  <2>3. CASE u = t
    <3>1. ShowsOwn(t)
      BY <1>0, <2>1, <2>3 DEF Shows, ShowsNone
    <3>2. e \in {"done", "error", "complete"} => turn[t].at = "over"
      BY <1>0, <1>1 DEF WireFits
    <3>3. e = "tool" => turn[t].at # "ask" /\ turn[t].asked
      BY <1>0, <1>1 DEF WireFits
    <3>4. e = "complete" => \A f : ~On(wire'[t], f)
      BY <1>1, OnEmpty
    <3>5. ShowsOwn(t)'
      <4>1. CASE e = "ask"
        BY <1>0, <1>1, <1>3, <1>5, <1>6, <3>1, <4>1 DEF ShowsOwn
      <4>2. CASE e = "tool"
        BY <1>0, <1>1, <1>3, <1>5, <1>6, <3>1, <3>3, <4>2 DEF ShowsOwn
      <4>3. CASE e = "done"
        BY <1>0, <1>1, <1>3, <1>5, <1>6, <3>1, <3>2, <4>3 DEF ShowsOwn
      <4>4. CASE e = "error"
        BY <1>0, <1>1, <1>3, <1>5, <1>6, <3>1, <3>2, <4>4 DEF ShowsOwn
      <4>5. CASE e = "complete"
        BY <1>0, <1>1, <1>3, <1>5, <1>6, <3>1, <3>2, <3>4, <4>5 DEF ShowsOwn
      <4>. QED BY <4>1, <4>2, <4>3, <4>4, <4>5
    <3>. QED BY <2>3, <3>5 DEF Shows
  <2>. QED BY <2>2, <2>3
<1>. QED BY <1>0, <1>2, <1>3, <1>4, <1>7 DEF ScreenInv, ShellFits

LEMMA ScreenReach == ASSUME TypeInv, EventInv, ScreenInv, NEW h \in Hand, Reach(h) \/ Destroy(h) PROVE ScreenInv'
<1>0. call[h] \in CallRecord /\ Fits(call[h])
  BY NewType
<1>1. CASE Destroy(h)
  <2> DEFINE new == IF known[call[h].session] = "live" THEN [call[h] EXCEPT !.at = "list"] ELSE Idle
  <2>1. new \in CallRecord /\ new.at \in {"none", "list"}
    BY <1>0 DEF CallRecord
  <2>2. call' = [call EXCEPT ![h] = new]
    BY <1>1 DEF Destroy
  <2> HIDE DEF new
  <2>. QED BY <1>1, <2>1, <2>2, ScreenUnblock DEF Destroy
<1>2. CASE Reach(h)
  <2> DEFINE new == [call[h] EXCEPT !.at = "settle"]
  <2>1. new \in CallRecord /\ new.at = "settle" /\ call' = [call EXCEPT ![h] = new]
    BY <1>0, <1>2 DEF CallRecord, Reach
  <2> HIDE DEF new
  <2>2. CASE call[h].op # "stop" /\ Waiting(call[h].turn) /\ Resume(call[h].turn)
    <3>1. call[h].turn \in Turn
      BY <1>0, <1>2, <2>2 DEF Reach, Fits
    <3>2. ~Quiet
      BY <2>2, <3>1 DEF Quiet, UnderWay, Waiting
    <3>3. \A g \in Hand : call'[g] = call[g] \/ call'[g].at = "settle"
      BY <2>1 DEF TypeInv, CallTypes
    <3>4. CtlFits' /\ \A g \in Hand : CleanFits(g)'
      BY <1>2, <3>2, <3>3, BusyStep DEF Reach
    <3>. QED BY <1>2, <2>2, <3>1, <3>4, ScreenResume DEF Reach, ScreenInv
  <2>3. CASE UNCHANGED <<turn, history, wire>>
    <3>1. \A g \in Hand : CleanFits(g)'
      BY <2>1, <2>3, CleanOne
    <3>. QED BY <1>2, <2>3, <3>1, StillFits DEF Reach, ScreenInv
  <2>4. CASE Unblock(call[h].session) /\ UNCHANGED <<history, wire>>
    BY <1>2, <2>1, <2>4, ScreenUnblock DEF Reach
  <2>. QED BY <1>2, <2>2, <2>3, <2>4 DEF Reach
<1>. QED BY <1>1, <1>2

LEMMA ScreenNext == TypeInv /\ EventInv /\ ScreenInv /\ [Next]_vars => ScreenInv'
<1>. SUFFICES ASSUME TypeInv, EventInv, ScreenInv, [Next]_vars PROVE ScreenInv'
  OBVIOUS
<1>1. CASE UNCHANGED <<engine, ctl, shell, since, doubt, call>>
  <2>1. \A g \in Hand : CleanFits(g)'
    BY <1>1 DEF ScreenInv, CleanFits, Quiet, UnderWay
  <2>. QED BY <1>1, <2>1, StillFits DEF ScreenInv
<1>2. CASE SelectScreen
  BY <1>1, <1>2 DEF SelectScreen
<1>3. ASSUME NEW h \in Hand, Call(h) PROVE ScreenInv'
  BY <1>3, ScreenCall
<1>4. ASSUME NEW h \in Hand, Continue(h) PROVE ScreenInv'
  <2>1. CASE SendFirst(h)
    <3>0. call[h] \in CallRecord /\ Fits(call[h])
      BY NewType
    <3> DEFINE c == [call EXCEPT ![h] = Idle]
    <3>1. c \in [Hand -> CallRecord] /\ call' = Unclean(c)
      BY <2>1, IdleFits DEF SendFirst, TypeInv, CallTypes
    <3>2. \A g \in Hand : c[g].at \in {"latest", "create"} => c[g].read = {}
      BY DEF ScreenInv, CleanFits, TypeInv, CallTypes
    <3> HIDE DEF c
    <3>3. CASE SendNow(call[h].turn)
      BY <2>1, <3>0, <3>1, <3>2, <3>3, ScreenSend DEF SendFirst, Fits
    <3>4. CASE UNCHANGED <<engine, screen, ghosts>>
      <4>1. \A g \in Hand : CleanFits(g)'
        <5>1. SUFFICES ASSUME NEW g \in Hand PROVE CleanFits(g)'
          OBVIOUS
        <5>2. c[g] \in CallRecord /\ call'[g] = [c[g] EXCEPT !.clean = FALSE]
          BY <3>1 DEF Unclean
        <5>3. call'[g].at = c[g].at /\ call'[g].read = c[g].read /\ call'[g].clean = FALSE
          BY <5>2 DEF CallRecord
        <5>. QED BY <3>2, <5>3 DEF CleanFits
      <4>. QED BY <3>4, <4>1, StillFits DEF ScreenInv
    <3>. QED BY <2>1, <3>3, <3>4 DEF SendFirst
  <2>. QED BY <1>4, <2>1, ScreenLook, ScreenReplaced, ScreenReach DEF Continue
<1>5. ASSUME NEW t \in Turn, TurnStep(t) PROVE ScreenInv'
  <2>1. CASE Send(t)
    <3>1. call \in [Hand -> CallRecord] /\ \A g \in Hand : call[g].at \in {"latest", "create"} => call[g].read = {}
      BY DEF ScreenInv, CleanFits, TypeInv, CallTypes
    <3>. QED BY <2>1, <3>1, ScreenSend DEF Send
  <2>2. CASE Expire(t)
    <3>1. ~Quiet
      BY <2>2 DEF Expire, Quiet, UnderWay, Waiting
    <3>2. CtlFits' /\ \A g \in Hand : CleanFits(g)'
      BY <2>2, <3>1, BusyStep DEF Expire
    <3>. QED BY <2>2, <3>2, ScreenResume DEF Expire, ScreenInv
  <2>. QED BY <1>5, <2>1, <2>2, ScreenAsk, ScreenFinish, ScreenReceive DEF TurnStep
<1>6. CASE UNCHANGED vars
  BY <1>1, <1>6 DEF vars
<1>. QED BY <1>2, <1>3, <1>4, <1>5, <1>6 DEF Next

-----------------------------------------------------------------------------
(* The marked session                                                      *)
-----------------------------------------------------------------------------
(* A start goes on before anything else can be called, with one session     *)
(* marked and loaded; after it the marked session is the shown one.         *)
Marks(c) ==
  /\ c.op = "boot" => c.at \in {"latest", "create", "read", "show", "inventory"}
  /\ c.op = "default" => c.at \in {"read", "show"}
  /\ c.at = "inventory" => c.op = "boot"
  /\ c.at = "send" => c.op = "send"
  /\ c.at = "settle" => c.op \in {"stop", "respond"}
  /\ c.at \in {"destroy", "list"} => c.op = "archive"

MarkInv ==
  /\ shell.session \in {None, ctl.session}
  /\ ~faltered /\ booted => selected \in {None, shell.session}
  /\ \A h \in Hand : /\ Marks(call[h])
                     /\ IF booted THEN call[h].op \notin Starting ELSE call[h].op \in Starting \cup {"none"}
                     /\ ~faltered /\ call[h].op = "default" => selected = call[h].session

LEMMA MarkInit == Init => MarkInv
BY DEF Init, MarkInv, Marks, Taken

(* The calls a step of another one leaves alone. *)
LEMMA MarkOne ==
  ASSUME TypeInv, MarkInv, NEW h \in Hand, NEW new \in CallRecord, call' = [call EXCEPT ![h] = new],
         Marks(new), faltered => faltered', booted' \in BOOLEAN,
         IF booted' THEN new.op \notin Starting ELSE new.op \in Starting \cup {"none"},
         ~faltered' /\ new.op = "default" => selected' = new.session,
         \A g \in Hand \ {h} : /\ booted' # booted => call[g].op \notin Starting /\ booted'
                               /\ selected' # selected => call[g].op # "default",
         shell'.session \in {None, ctl'.session},
         ~faltered' /\ booted' => selected' \in {None, shell'.session}
  PROVE  MarkInv'
<1>1. call \in [Hand -> CallRecord]
  BY DEF TypeInv, CallTypes
<1>2. call'[h] = new /\ \A g \in Hand \ {h} : call'[g] = call[g]
  BY <1>1
<1>3. ASSUME NEW g \in Hand
      PROVE  /\ Marks(call'[g])
             /\ IF booted' THEN call'[g].op \notin Starting ELSE call'[g].op \in Starting \cup {"none"}
             /\ ~faltered' /\ call'[g].op = "default" => selected' = call'[g].session
  <2>1. CASE g = h
    BY <1>2, <2>1
  <2>2. CASE g # h
    <3>1. /\ call'[g] = call[g] /\ booted \in BOOLEAN /\ booted' \in BOOLEAN
          /\ booted' # booted => call[g].op \notin Starting /\ booted'
          /\ selected' # selected => call[g].op # "default"
      BY <1>2, <2>2 DEF TypeInv, ScreenTypes
    <3>2. Marks(call[g]) /\ (IF booted THEN call[g].op \notin Starting ELSE call[g].op \in Starting \cup {"none"})
      BY DEF MarkInv
    <3>3. ~faltered /\ call[g].op = "default" => selected = call[g].session
      BY DEF MarkInv
    <3>4. IF booted' THEN call[g].op \notin Starting ELSE call[g].op \in Starting \cup {"none"}
      BY <3>1, <3>2
    <3>5. ~faltered' /\ call[g].op = "default" => selected' = call[g].session
      BY <3>1, <3>3
    <3>. QED BY <3>1, <3>2, <3>4, <3>5
  <2>. QED BY <2>1, <2>2
<1>4. \A g \in Hand : Marks(call[g])'
  BY <1>3 DEF Marks
<1>. QED BY <1>3, <1>4 DEF MarkInv

LEMMA MarkCall == ASSUME TypeInv, MarkInv, NEW h \in Hand, Call(h) PROVE MarkInv'
<1>1. SUFFICES ASSUME NEW op \in Ops, NEW at \in {"latest", "create", "read", "destroy", "ask"},
                      NEW s \in Session \cup {None}, NEW t \in Turn \cup {None},
                      Begin(h, op, at, s, t),
                      IF booted THEN op \notin Starting ELSE op = "boot" /\ at = "latest",
                      at = "destroy" => op = "archive"
               PROVE  MarkInv'
  <2>1. CASE Boot(h)
    BY <2>1 DEF Boot, Ops, Starting
  <2>2. CASE CreateChat(h)
    BY <2>2 DEF CreateChat, Ops, Starting
  <2>3. CASE Respond(h)
    BY <2>3 DEF Respond, Ops, Starting, TypeInv, ScreenTypes, Shown
  <2>4. CASE Stop(h)
    BY <2>4 DEF Stop, Ops, Starting, TypeInv, ScreenTypes, Copy
  <2>5. ASSUME NEW s \in Session, Open(h, s) \/ Archive(h, s) PROVE MarkInv'
    BY <2>5 DEF Open, Archive, Ops, Starting
  <2>6. ASSUME NEW t \in Turn, FirstMessage(h, t) PROVE MarkInv'
    BY <2>6 DEF FirstMessage, Ops, Starting
  <2>. QED BY <2>1, <2>2, <2>3, <2>4, <2>5, <2>6 DEF Call
<1> DEFINE new == [op |-> op, at |-> at, session |-> s, turn |-> t, read |-> {}, clean |-> FALSE]
<1>2. /\ new \in CallRecord /\ call' = [call EXCEPT ![h] = new]
      /\ new.op = op /\ new.at = at /\ op # "default"
  BY <1>1 DEF Begin, CallRecord, Starting
<1>3. UNCHANGED <<shell, ctl, selected, booted, faltered>> /\ booted \in BOOLEAN
  BY <1>1 DEF Begin, screen, ghosts, TypeInv, ScreenTypes
<1>4. Marks(new)
  BY <1>1, <1>2 DEF Marks, Starting
<1>5. IF booted THEN new.op \notin Starting ELSE new.op \in Starting \cup {"none"}
  BY <1>1, <1>2 DEF Starting
<1> HIDE DEF new
<1>. QED BY <1>1, <1>2, <1>3, <1>4, <1>5, MarkOne DEF MarkInv

(* Sending marks the shown session, and changes no call but its clean flag. *)
LEMMA SendNowMarks ==
  ASSUME TypeInv, NEW t, SendNow(t)
  PROVE  /\ shell'.session = shell.session /\ selected' = shell.session
         /\ UNCHANGED <<ctl, booted, faltered>>
<1>1. shell.session \in Session \cup {None} /\ shell \in Shown
  BY DEF TypeInv, ScreenTypes, Shown
<1>2. shell'.session = shell.session
  BY <1>1 DEF SendNow, Say, Shown
<1>. QED BY <1>2 DEF SendNow

LEMMA MarkSend ==
  ASSUME TypeInv, MarkInv, NEW c \in [Hand -> CallRecord], call' = Unclean(c), booted,
         \A g \in Hand : Marks(c[g]) /\ c[g].op \notin Starting,
         shell'.session = shell.session, selected' \in {selected, shell.session},
         UNCHANGED <<ctl, booted, faltered>>
  PROVE  MarkInv'
<1>1. ASSUME NEW g \in Hand
      PROVE  call'[g].op = c[g].op /\ call'[g].at = c[g].at
  BY DEF Unclean, CallRecord
<1>2. \A g \in Hand : Marks(call[g])'
  BY <1>1 DEF Marks
<1>3. \A g \in Hand : call'[g].op \notin Starting /\ call'[g].op # "default"
  BY <1>1 DEF Starting
<1>4. /\ shell'.session \in {None, ctl'.session}
      /\ ~faltered' /\ booted' => selected' \in {None, shell'.session}
  BY DEF MarkInv
<1>. QED BY <1>2, <1>3, <1>4 DEF MarkInv

LEMMA MarkContinue ==
  ASSUME TypeInv, MarkInv, OneStart, NEW h \in Hand, Continue(h)
  PROVE  MarkInv'
<1>0. /\ call[h] \in CallRecord /\ Fits(call[h]) /\ Marks(call[h]) /\ ScreenTypes
      /\ IF booted THEN call[h].op \notin Starting ELSE call[h].op \in Starting \cup {"none"}
      /\ \A g \in Hand \ {h} : /\ booted => call[g].op \notin Starting
                               /\ call[h].op \in Starting => call[g].op \notin Starting
  BY NewType DEF MarkInv, TypeInv, OneStart
<1>1. CASE Latest(h) \/ Create(h) \/ Read(h)
  <2>1. PICK new \in CallRecord :
          /\ call' = [call EXCEPT ![h] = new]
          /\ new.op = call[h].op /\ new.at \in {"create", "read", "show"}
          /\ new.op = "default" => new.session = call[h].session /\ new.at = "show"
    <3>1. CASE call' = [call EXCEPT ![h].at = "create"] /\ call[h].at = "latest"
      <4> DEFINE new == [call[h] EXCEPT !.at = "create"]
      <4>1. /\ new \in CallRecord /\ call' = [call EXCEPT ![h] = new] /\ new.op = call[h].op /\ new.at = "create"
            /\ new.op # "default"
        BY <1>0, <3>1 DEF CallRecord, Marks
      <4> HIDE DEF new
      <4>. QED BY <4>1
    <3>2. ASSUME NEW s \in Live, call' = [call EXCEPT ![h].at = "read", ![h].session = s], call[h].at = "latest"
          PROVE  \E new \in CallRecord :
                   /\ call' = [call EXCEPT ![h] = new]
                   /\ new.op = call[h].op /\ new.at \in {"create", "read", "show"}
                   /\ new.op = "default" => new.session = call[h].session /\ new.at = "show"
      <4> DEFINE new == [call[h] EXCEPT !.at = "read", !.session = s]
      <4>1. /\ new \in CallRecord /\ call' = [call EXCEPT ![h] = new] /\ new.op = call[h].op /\ new.at = "read"
            /\ new.op # "default"
        BY <1>0, <3>2 DEF CallRecord, Marks, Live
      <4> HIDE DEF new
      <4>. QED BY <4>1
    <3>3. CASE Create(h)
      <4>1. PICK s \in Session :
              /\ known[s] = "new"
              /\ known' = [known EXCEPT ![s] = "live"]
              /\ call' = [call EXCEPT ![h].at = "show", ![h].session = s, ![h].clean = Quiet]
        BY <3>3 DEF Create
      <4> DEFINE new == [call[h] EXCEPT !.at = "show", !.session = s, !.clean = Quiet]
      <4>2. Quiet \in BOOLEAN
        BY DEF Quiet, UnderWay
      <4>3. /\ new \in CallRecord /\ call' = [call EXCEPT ![h] = new] /\ new.op = call[h].op /\ new.at = "show"
            /\ new.op # "default"
        <5>1. call[h].at = "create" /\ call[h].op # "default" /\ call[h] \in CallRecord
          BY <1>0, <3>3 DEF Marks, Create
        <5>. QED BY <4>1, <4>2, <5>1 DEF CallRecord
      <4> HIDE DEF new
      <4>. QED BY <4>3
    <3>4. CASE Read(h)
      <4> DEFINE new == [call[h] EXCEPT !.at = "show", !.read = history[call[h].session], !.clean = Quiet]
      <4>1. Quiet \in BOOLEAN /\ history[call[h].session] \in SUBSET Items
        BY <1>0, <3>4 DEF Read, Fits, Quiet, UnderWay, TypeInv, EngineTypes
      <4>2. /\ new \in CallRecord /\ call' = [call EXCEPT ![h] = new] /\ new.op = call[h].op /\ new.at = "show"
            /\ new.session = call[h].session
        BY <1>0, <3>4, <4>1 DEF CallRecord, Read
      <4> HIDE DEF new
      <4>. QED BY <4>2
    <3>. QED BY <1>1, <3>1, <3>2, <3>3, <3>4 DEF Latest
  <2>2. UNCHANGED <<shell, ctl, selected, booted, faltered>> /\ call[h].at \in {"latest", "create", "read"}
    <3>1. CASE Latest(h)
      BY <3>1 DEF Latest, screen, ghosts
    <3>2. CASE Create(h)
      BY <3>2 DEF Create, screen, ghosts
    <3>3. CASE Read(h)
      BY <3>3 DEF Read, screen, ghosts
    <3>. QED BY <1>1, <3>1, <3>2, <3>3
  <2>3. new.op = "none" <=> call[h].op = "none"
    BY <2>1
  <2>5. Marks(new)
    BY <1>0, <2>1, <2>2 DEF Marks
  <2>4. ~faltered /\ call[h].op = "default" => selected = call[h].session
    BY DEF MarkInv
  <2>6. /\ IF booted THEN new.op \notin Starting ELSE new.op \in Starting \cup {"none"}
        /\ ~faltered /\ new.op = "default" => selected = new.session
        /\ booted \in BOOLEAN
    BY <1>0, <2>1, <2>4 DEF ScreenTypes
  <2>7. /\ shell.session \in {None, ctl.session}
        /\ ~faltered /\ booted => selected \in {None, shell.session}
    BY DEF MarkInv
  <2>. QED BY <2>1, <2>2, <2>5, <2>6, <2>7, MarkOne
<1>2. CASE Show(h)
  <2> DEFINE new == After(call[h])
  <2>1. /\ new \in CallRecord /\ call' = [call EXCEPT ![h] = new]
        /\ call[h].op # "none"
    BY <1>0, <1>2, AfterType DEF Show, TypeInv, CallTypes, Fits
  <2>2. /\ call[h].op = "boot" => new.op = "boot" /\ new.at = "inventory"
        /\ call[h].op = "send" => new.op = "send" /\ new.at = "send"
        /\ call[h].op \notin {"boot", "send"} => new.op = "none" /\ new.at = "none"
    BY DEF After, Idle
  <2> HIDE DEF new
  <2>3. /\ shell'.session = call[h].session /\ ctl'.session = call[h].session
        /\ selected' = IF call[h].op \in Starting THEN selected ELSE call[h].session
        /\ booted' = (booted \/ call[h].op = "default") /\ faltered' = faltered
    BY <1>2 DEF Show, Replace, Taken
  <2>4. booted \in BOOLEAN /\ (~faltered /\ call[h].op = "default" => selected = call[h].session)
    BY DEF MarkInv, TypeInv, ScreenTypes
  <2>5. Marks(new) /\ new.op # "default"
    BY <2>2 DEF Marks
  <2>6. IF booted' THEN new.op \notin Starting ELSE new.op \in Starting \cup {"none"}
    BY <1>0, <2>1, <2>2, <2>3, <2>4 DEF Starting
  <2>7. \A g \in Hand \ {h} : /\ booted' # booted => call[g].op \notin Starting /\ booted'
                              /\ selected' # selected => call[g].op # "default"
    BY <1>0, <2>1, <2>3, <2>4 DEF Starting
  <2>8. ~faltered' /\ booted' => selected' \in {None, shell'.session}
    BY <1>0, <2>1, <2>3, <2>4 DEF Starting
  <2>. QED BY <2>1, <2>3, <2>4, <2>5, <2>6, <2>7, <2>8, MarkOne
<1>3. CASE Inventory(h)
  <2> DEFINE Going ==
        \E new \in CallRecord :
          /\ call' = [call EXCEPT ![h] = new]
          /\ \/ /\ selected' = shell.session /\ booted' = TRUE /\ new.op = "none" /\ new.at = "none"
             \/ /\ selected' = new.session /\ booted' = booted /\ new.op = "default" /\ new.at = "read"
  <2>0. Going
    <3>1. CASE call' = [call EXCEPT ![h] = Idle] /\ selected' = shell.session /\ booted' = TRUE
      <4>1. Idle \in CallRecord /\ Idle.op = "none" /\ Idle.at = "none"
        BY DEF Idle, CallRecord
      <4>. QED BY <3>1, <4>1
    <3>2. ASSUME NEW s \in Session, selected' = s, UNCHANGED booted,
                 call' = [call EXCEPT ![h] = [Idle EXCEPT !.op = "default", !.at = "read", !.session = s]]
          PROVE  Going
      <4> DEFINE new == [Idle EXCEPT !.op = "default", !.at = "read", !.session = s]
      <4>1. new \in CallRecord /\ new.session = s /\ new.op = "default" /\ new.at = "read"
        BY DEF Idle, CallRecord, Ops
      <4> HIDE DEF new
      <4>2. call' = [call EXCEPT ![h] = new]
        BY <3>2 DEF new
      <4>. QED BY <3>2, <4>1, <4>2
    <3> HIDE DEF Going
    <3>. QED BY <1>3, <3>1, <3>2 DEF Inventory
  <2>1. PICK new \in CallRecord :
          /\ call' = [call EXCEPT ![h] = new]
          /\ \/ /\ selected' = shell.session /\ booted' = TRUE /\ new.op = "none" /\ new.at = "none"
             \/ /\ selected' = new.session /\ booted' = booted /\ new.op = "default" /\ new.at = "read"
    BY <2>0
  <2> HIDE DEF Going
  <2>2. call[h].op = "boot" /\ UNCHANGED <<ctl, shell, faltered>>
    <3>1. call[h].at = "inventory"
      BY <1>3 DEF Inventory
    <3>2. UNCHANGED <<ctl, shell, ghosts>>
      BY <1>3 DEF Inventory
    <3>. QED BY <1>0, <3>1, <3>2 DEF Marks, ghosts
  <2>3. booted \in BOOLEAN /\ ~booted /\ \A g \in Hand \ {h} : call[g].op \notin Starting
    BY <1>0, <2>2 DEF TypeInv, ScreenTypes, Starting
  <2>4. Marks(new)
    BY <2>1 DEF Marks
  <2>5. IF booted' THEN new.op \notin Starting ELSE new.op \in Starting \cup {"none"}
    BY <2>1, <2>3 DEF Starting
  <2>6. new.op = "default" => selected' = new.session
    BY <2>1
  <2>7. \A g \in Hand \ {h} : /\ booted' # booted => call[g].op \notin Starting /\ booted'
                              /\ selected' # selected => call[g].op # "default"
    BY <2>1, <2>3 DEF Starting
  <2>8. booted' \in BOOLEAN /\ (booted' => selected' \in {None, shell'.session})
    <3>1. CASE booted' = TRUE /\ selected' = shell.session
      BY <2>2, <3>1
    <3>2. CASE booted' = booted
      BY <2>3, <3>2
    <3>. QED BY <2>1, <3>1, <3>2
  <2>9. shell'.session \in {None, ctl'.session}
    BY <2>2 DEF MarkInv
  <2>. QED BY <2>1, <2>2, <2>4, <2>5, <2>6, <2>7, <2>8, <2>9, MarkOne
<1>4. CASE Fail(h)
  <2>1. booted \in BOOLEAN /\ faltered \in BOOLEAN /\ call[h].op # "none" /\ booted' = booted
    BY <1>0, <1>4 DEF TypeInv, ScreenTypes, GhostTypes, Fail, Fits
  <2>2. faltered' = (faltered \/ call[h].op \in Starting)
    BY <1>4 DEF Fail
  <2>3. CASE call[h].op \in {"boot", "create", "send"} /\ call[h].at \notin {"inventory", "send"}
    <3> DEFINE new == After(call[h])
    <3>1. new \in CallRecord /\ call' = [call EXCEPT ![h] = new]
      BY <1>4, <2>3, AfterType DEF Fail, TypeInv, CallTypes
    <3>2. /\ call[h].op = "boot" => new.op = "boot" /\ new.at = "inventory"
          /\ call[h].op = "send" => new.op = "send" /\ new.at = "send"
          /\ call[h].op = "create" => new.op = "none" /\ new.at = "none"
      BY DEF After, Idle
    <3> HIDE DEF new
    <3>3. /\ shell'.session = ctl.session /\ ctl'.session = ctl.session
          /\ selected' = IF call[h].op = "boot" THEN selected ELSE ctl.session
      BY <1>4, <2>3 DEF Fail, Replace, Taken
    <3>4. Marks(new) /\ new.op # "default"
      BY <2>3, <3>2 DEF Marks
    <3>5. IF booted' THEN new.op \notin Starting ELSE new.op \in Starting \cup {"none"}
      BY <1>0, <2>1, <2>3, <3>2 DEF Starting
    <3>6. \A g \in Hand \ {h} : /\ booted' # booted => call[g].op \notin Starting /\ booted'
                                /\ selected' # selected => call[g].op # "default"
      BY <1>0, <2>1, <2>3, <3>3 DEF Starting
    <3>7. ~faltered' /\ booted' => selected' \in {None, shell'.session}
      BY <1>0, <2>1, <2>2, <2>3, <3>3 DEF Starting
    <3>. QED BY <2>1, <2>2, <3>1, <3>3, <3>4, <3>5, <3>6, <3>7, MarkOne
  <2>4. CASE ~(call[h].op \in {"boot", "create", "send"} /\ call[h].at \notin {"inventory", "send"})
    <3>1. call' = [call EXCEPT ![h] = Idle] /\ UNCHANGED <<ctl, shell, selected>>
      BY <1>4, <2>4 DEF Fail
    <3>2. Idle \in CallRecord /\ Idle.op = "none" /\ Marks(Idle) /\ "none" \notin Starting
      BY DEF Idle, CallRecord, Marks, Starting
    <3>3. ~faltered' /\ booted => selected \in {None, shell.session}
      BY <2>1, <2>2 DEF MarkInv
    <3>4. shell.session \in {None, ctl.session}
      BY DEF MarkInv
    <3>. QED BY <2>1, <2>2, <3>1, <3>2, <3>3, <3>4, MarkOne
  <2>. QED BY <2>3, <2>4
<1>5. CASE SendFirst(h)
  <2> DEFINE c == [call EXCEPT ![h] = Idle]
  <2>1. c \in [Hand -> CallRecord] /\ call' = Unclean(c)
    BY <1>5 DEF SendFirst, TypeInv, CallTypes, Idle, CallRecord
  <2>2. booted /\ call[h].op = "send"
    BY <1>0, <1>5 DEF SendFirst, Marks, Starting
  <2>3. \A g \in Hand : Marks(c[g]) /\ c[g].op \notin Starting
    <3>1. Marks(Idle) /\ Idle.op \notin Starting /\ \A g \in Hand : Marks(call[g])
      BY DEF Idle, Marks, Starting, MarkInv
    <3>2. \A g \in Hand : c[g] = IF g = h THEN Idle ELSE call[g]
      BY DEF TypeInv, CallTypes
    <3> HIDE DEF c
    <3>. QED BY <1>0, <2>2, <3>1, <3>2 DEF Marks
  <2>4. /\ shell'.session = shell.session /\ selected' \in {selected, shell.session}
        /\ UNCHANGED <<ctl, booted, faltered>>
    <3>1. CASE SendNow(call[h].turn)
      BY <3>1, SendNowMarks
    <3>2. CASE UNCHANGED <<engine, screen, ghosts>>
      BY <3>2 DEF screen, ghosts
    <3>. QED BY <1>5, <3>1, <3>2 DEF SendFirst
  <2> HIDE DEF c
  <2>. QED BY <2>1, <2>2, <2>3, <2>4, MarkSend
<1>6. CASE Reach(h)
  <2> DEFINE new == [call[h] EXCEPT !.at = "settle"]
  <2>1. /\ new \in CallRecord /\ call' = [call EXCEPT ![h] = new]
        /\ new.op = call[h].op /\ new.at = "settle" /\ new.op \in {"stop", "respond"}
    BY <1>0, <1>6 DEF Reach, CallRecord, Fits
  <2> HIDE DEF new
  <2>2. Marks(new) /\ new.op \notin Starting /\ booted
    BY <1>0, <2>1 DEF Marks, Starting
  <2>3. UNCHANGED <<shell, ctl, selected, booted, faltered>> /\ booted \in BOOLEAN
    BY <1>6 DEF Reach, screen, ghosts, TypeInv, ScreenTypes
  <2>. QED BY <2>1, <2>2, <2>3, MarkOne DEF MarkInv, Starting
<1>7. CASE Settle(h)
  <2>1. /\ Idle \in CallRecord /\ Idle.op = "none" /\ Marks(Idle) /\ "none" \notin Starting
        /\ call' = [call EXCEPT ![h] = Idle]
    BY <1>7 DEF Settle, Idle, CallRecord, Marks, Starting
  <2>2. booted /\ booted \in BOOLEAN
    BY <1>0, <1>7 DEF Settle, Marks, Starting, TypeInv, ScreenTypes
  <2>3. /\ shell'.session = ctl.session /\ ctl' = ctl
        /\ UNCHANGED <<selected, booted, faltered>>
    BY <1>7 DEF Settle, Replace, Taken
  <2>4. ~faltered => selected \in {None, ctl.session}
    BY <2>2 DEF MarkInv
  <2>. QED BY <2>1, <2>2, <2>3, <2>4, MarkOne
<1>8. CASE Destroy(h)
  <2>1. call[h].op = "archive" /\ booted /\ booted \in BOOLEAN
    BY <1>0, <1>8 DEF Destroy, Marks, Starting, TypeInv, ScreenTypes
  <2>2. PICK new \in CallRecord : /\ call' = [call EXCEPT ![h] = new] /\ Marks(new)
                                  /\ new.op \in {"archive", "none"}
    <3>1. Idle \in CallRecord /\ Marks(Idle) /\ Idle.op = "none"
      BY DEF Idle, CallRecord, Marks
    <3>2. /\ [call[h] EXCEPT !.at = "list"] \in CallRecord
          /\ [call[h] EXCEPT !.at = "list"].op = "archive"
          /\ [call[h] EXCEPT !.at = "list"].at = "list"
      BY <1>0, <2>1 DEF CallRecord
    <3>3. Marks([call[h] EXCEPT !.at = "list"])
      BY <3>2 DEF Marks
    <3>4. \/ call' = [call EXCEPT ![h] = Idle]
          \/ call' = [call EXCEPT ![h] = [call[h] EXCEPT !.at = "list"]]
      BY <1>8 DEF Destroy, TypeInv, CallTypes
    <3>. QED BY <3>1, <3>2, <3>3, <3>4
  <2>3. UNCHANGED <<shell, ctl, selected, booted, faltered>>
    BY <1>8 DEF Destroy, screen, ghosts
  <2>. QED BY <2>1, <2>2, <2>3, MarkOne DEF MarkInv, Starting
<1>9. CASE List(h)
  <2>1. call[h].op = "archive" /\ booted /\ booted \in BOOLEAN /\ \A g \in Hand \ {h} : call[g].op # "default"
    BY <1>0, <1>9 DEF List, Marks, Starting, TypeInv, ScreenTypes
  <2>2. PICK new \in CallRecord : /\ call' = [call EXCEPT ![h] = new] /\ Marks(new)
                                  /\ new.op \in {"archive", "none"}
    <3>1. Idle \in CallRecord /\ Marks(Idle) /\ Idle.op = "none"
      BY DEF Idle, CallRecord, Marks
    <3>2. ASSUME NEW n \in Live, call' = [call EXCEPT ![h].at = "read", ![h].session = n]
          PROVE  \E new \in CallRecord : /\ call' = [call EXCEPT ![h] = new] /\ Marks(new)
                                         /\ new.op \in {"archive", "none"}
      <4> DEFINE new == [call[h] EXCEPT !.at = "read", !.session = n]
      <4>1. new \in CallRecord /\ call' = [call EXCEPT ![h] = new] /\ new.op = "archive" /\ new.at = "read"
        BY <1>0, <2>1, <3>2 DEF CallRecord, Live
      <4> HIDE DEF new
      <4>2. Marks(new)
        BY <4>1 DEF Marks
      <4>. QED BY <4>1, <4>2
    <3>. QED BY <1>9, <3>1, <3>2 DEF List
  <2>3. /\ UNCHANGED <<ctl, booted, faltered>>
        /\ \/ UNCHANGED <<shell, selected>>
           \/ shell'.session = None /\ selected' = None
    BY <1>9 DEF List, Taken
  <2>4. new.op \notin Starting
    BY <2>2 DEF Starting
  <2>5. ~faltered' /\ booted' => selected' \in {None, shell'.session}
    BY <2>3 DEF MarkInv
  <2>6. shell'.session \in {None, ctl'.session}
    BY <2>3 DEF MarkInv
  <2>. QED BY <2>1, <2>2, <2>3, <2>4, <2>5, <2>6, MarkOne DEF Starting
<1>. QED BY <1>1, <1>2, <1>3, <1>4, <1>5, <1>6, <1>7, <1>8, <1>9 DEF Continue

LEMMA MarkNext == TypeInv /\ MarkInv /\ OneStart /\ [Next]_vars => MarkInv'
<1>. SUFFICES ASSUME TypeInv, MarkInv, OneStart, [Next]_vars PROVE MarkInv'
  OBVIOUS
<1>1. CASE UNCHANGED <<shell, ctl, selected, booted, faltered, call>>
  BY <1>1 DEF MarkInv, Marks
<1>2. CASE SelectScreen
  <2>1. UNCHANGED <<shell, ctl, booted, faltered, call>> /\ selected' = None /\ booted
    BY <1>2 DEF SelectScreen, ghosts
  <2>2. \A h \in Hand : call[h].op # "default"
    BY <2>1 DEF MarkInv, Starting
  <2>3. \A h \in Hand : Marks(call[h])' /\ call'[h].op \notin Starting /\ call'[h].op # "default"
    BY <2>1, <2>2 DEF MarkInv, Marks
  <2>. QED BY <2>1, <2>3 DEF MarkInv
<1>3. ASSUME NEW h \in Hand, Call(h) PROVE MarkInv'
  BY <1>3, MarkCall
<1>4. ASSUME NEW h \in Hand, Continue(h) PROVE MarkInv'
  BY <1>4, MarkContinue
<1>5. ASSUME NEW t \in Turn, TurnStep(t) PROVE MarkInv'
  <2>1. CASE Send(t)
    <3>1. booted /\ SendNow(t) /\ call' = Unclean(call) /\ call \in [Hand -> CallRecord]
      BY <2>1 DEF Send, TypeInv, CallTypes
    <3>2. \A g \in Hand : Marks(call[g]) /\ call[g].op \notin Starting
      BY <3>1 DEF MarkInv
    <3>3. /\ shell'.session = shell.session /\ selected' \in {selected, shell.session}
          /\ UNCHANGED <<ctl, booted, faltered>>
      BY <3>1, SendNowMarks
    <3>. QED BY <3>1, <3>2, <3>3, MarkSend
  <2>2. CASE Ask(t) \/ Expire(t) \/ Finish(t)
    <3>1. UNCHANGED <<screen, ghosts, call>>
      BY <2>2 DEF Ask, Expire, Finish
    <3>. QED BY <1>1, <3>1 DEF screen, ghosts
  <2>3. CASE Receive(t)
    <3>1. UNCHANGED <<ctl, selected, booted, call, faltered>>
      BY <2>3 DEF Receive
    <3>2. \/ shell' = OnAsk(t) \/ shell' = OnTool(t) \/ shell' = OnDone(t) \/ shell' = OnError(t)
          \/ shell' = OnComplete(t)
      BY <2>3 DEF Receive
    <3>3. shell'.session = shell.session
      <4>1. shell \in Shown
        BY DEF TypeInv, ScreenTypes
      <4>. QED BY <3>2, <4>1 DEF OnAsk, OnTool, OnDone, OnError, OnComplete, Say, Shown
    <3>4. \A h \in Hand : Marks(call[h])'
      BY <3>1 DEF MarkInv, Marks
    <3>. QED BY <3>1, <3>3, <3>4 DEF MarkInv
  <2>. QED BY <1>5, <2>1, <2>2, <2>3 DEF TurnStep
<1>6. CASE UNCHANGED vars
  BY <1>1, <1>6 DEF vars, screen, ghosts
<1>. QED BY <1>2, <1>3, <1>4, <1>5, <1>6 DEF Next

-----------------------------------------------------------------------------
LEMMA WholeIsEnough == TypeInv /\ EventInv /\ ScreenInv /\ MarkInv => ScreenIsWhole
<1>. SUFFICES ASSUME TypeInv, EventInv, ScreenInv, MarkInv, booted, Quiet
              PROVE  /\ ~faltered => selected \in {None, shell.session}
                     /\ ~shell.streaming
                     /\ (~doubt /\ shell.session # None) =>
                          \A i \in Items :
                            /\ i \in history[shell.session] => shell.messages[i] = 1
                            /\ shell.messages[i] > 0 => turn[i[1]].session = shell.session /\ shell.messages[i] = 1
  BY DEF ScreenIsWhole
<1>1. \A t \in Turn : turn[t].at \notin {"talk", "ask"} /\ \A e : ~On(wire[t], e)
  BY OnEmpty DEF Quiet, UnderWay
<1>2. ~faltered => selected \in {None, shell.session}
  BY DEF MarkInv
<1>3. ~shell.streaming
  BY <1>1 DEF ScreenInv, Streams
<1>4. ASSUME ~doubt, shell.session # None, NEW i \in Items
      PROVE  /\ i \in history[shell.session] => shell.messages[i] = 1
             /\ shell.messages[i] > 0 => turn[i[1]].session = shell.session /\ shell.messages[i] = 1
  <2>1. PICK t \in Turn, kind \in {"prompt", "tool", "answer", "error"} : i = <<t, kind>>
    BY DEF Items
  <2>2. Shows(t)
    BY <1>4 DEF ScreenInv, ShellFits
  <2>3. Count(t, kind) = shell.messages[i] /\ shell.session \in Session
    BY <1>4, <2>1 DEF Count, TypeInv, ScreenTypes, Shown
  <2>4. i \in history[shell.session] => Kept(t, kind)
    BY <2>1, <2>3 DEF EventInv, HistoryFits, Belongs, Kept
  <2>5. CASE ShowsOwn(t)
    <3>1. shell.messages[i] \in {0, 1} /\ turn[t].session = shell.session
      BY <2>3, <2>5 DEF ShowsOwn
    <3>2. Kept(t, kind) => Count(t, kind) = 1
      BY <1>1, <2>5 DEF ShowsOwn
    <3>. QED BY <2>1, <2>3, <2>4, <3>1, <3>2
  <2>6. CASE ShowsNone(t)
    <3>1. shell.messages[i] = 0
      BY <2>3, <2>6 DEF ShowsNone
    <3>2. i \notin history[shell.session]
      BY <2>1, <2>3, <2>6 DEF ShowsNone, EventInv, HistoryFits, Belongs
    <3>. QED BY <3>1, <3>2
  <2>. QED BY <2>2, <2>5, <2>6 DEF Shows
<1>. QED BY <1>2, <1>3, <1>4

(* At rest the screen has all of its session and nothing else, and marks the *)
(* session it shows, when no two starts overlap: the run that checks it is   *)
(* bounded by the same condition.                                            *)
THEOREM ScreenWhole == Spec /\ []OneStart => []ScreenIsWhole
BY TypeInit, TypeNext, EventInit, EventNext, ScreenInit, ScreenNext, MarkInit, MarkNext, WholeIsEnough, PTL DEF Spec
=============================================================================
