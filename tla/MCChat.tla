------------------------------- MODULE MCChat -------------------------------
(***************************************************************************)
(* Small instances of ChatTurns.  The calls are told apart by what the     *)
(* policy sees of them: push is an exec on the host, look and look2 a read *)
(* on the host of the same file, wipe a dangerous command in the default   *)
(* environment, list a safe one, ask a question to the user.               *)
(***************************************************************************)
EXTENDS ChatProperties, TLC

CONSTANTS s1, t1, t2, push, look, look2, wipe, list, ask

OneSession == [t \in Turn |-> s1]

Kinds == [
  push |-> [kind |-> "mutate", level |-> "dangerous", environment |-> "host", gatedWord |-> TRUE],
  look |-> [kind |-> "read", level |-> "safe", environment |-> "host", gatedWord |-> FALSE],
  wipe |-> [kind |-> "mutate", level |-> "dangerous", environment |-> "default", gatedWord |-> FALSE],
  list |-> [kind |-> "mutate", level |-> "safe", environment |-> "default", gatedWord |-> FALSE]]

Shapes ==
  [c \in Call |-> CASE c = push -> Kinds.push
                    [] c \in {look, look2} -> Kinds.look
                    [] c = wipe -> Kinds.wipe
                    [] OTHER -> Kinds.list]

(* Calls that request the same have one intent, and can be exchanged. *)
Intents  == [c \in Call |-> IF c = look2 THEN look ELSE c]
Symmetry == Permutations({look, look2})
=============================================================================
