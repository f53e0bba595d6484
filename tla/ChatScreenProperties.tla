------------------------ MODULE ChatScreenProperties ------------------------
EXTENDS ChatScreen

(* What ScreenIsWhole says of the side bar is meant for users whose application   *)
(* starts once: a second bootstrap that overlaps the first may mark another       *)
(* session than the one it shows.  The run is bounded by it.                      *)
OneStart == \A g, h \in Hand : g # h => ~(call[g].op \in Starting /\ call[h].op \in Starting)

(* When no turn and no call is under way, the screen has all of the session it   *)
(* shows, each message once, and nothing of another session, and the session     *)
(* marked in the side bar is the one shown.  The user must have left the         *)
(* controller alone while turns went on (doubt): answering, stopping or opening  *)
(* then replaces what is shown by the copy loaded before the turns.  Opening a   *)
(* session at rest makes the screen whole again.  After a start that has met an  *)
(* error (faltered) another session than the shown one may be marked.  Is about runChatTurn and the calls of    *)
(* desktop-aria-service.ts, and about openSession of aria-thread.ts.             *)
ScreenIsWhole ==
  (booted /\ Quiet /\ \A h \in Hand : call[h] = Idle) =>
    /\ ~faltered => selected \in {None, shell.session}
    /\ ~shell.streaming
    /\ (~doubt /\ shell.session # None) =>
         \A i \in Items :
           /\ i \in history[shell.session] => shell.messages[i] = 1
           /\ shell.messages[i] > 0 => turn[i[1]].session = shell.session /\ shell.messages[i] = 1

(* A turn of the session on the screen that waits for the user is the one the    *)
(* screen asks about: the user can answer it.  The exceptions (missed): the      *)
(* screen has been replaced since by the controller's copy, whose requests are   *)
(* empty, or another turn has asked.  Is about pendingApproval and               *)
(* pendingQuestion of desktop-aria-service.ts.                                   *)
AskedIsShown ==
  \A t \in Turn :
    (Delivered(t) /\ turn[t].session = shell.session /\ t \notin missed) => shell.asked = t

=============================================================================
