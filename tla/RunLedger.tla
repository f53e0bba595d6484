----------------------------- MODULE RunLedger ------------------------------
(***************************************************************************)
(* What the operational store promises the clients that list runs and      *)
(* approvals: a row is opened once, is settled once, and a settled row is  *)
(* never rewritten, whoever settles it (the turn itself, a stop, a destroy,*)
(* a shutdown, a timeout, an operator, or the sweep at the next start).    *)
(* Rows move alone or together: a stop or a restart settles many at once.  *)
(***************************************************************************)
CONSTANTS Turn, Call

VARIABLES run, approval

ledger == <<run, approval>>

RunOutcomes      == {"completed", "failed", "cancelled", "interrupted"}
ApprovalOutcomes == {"approve_once", "denied", "interrupted"}

TypeOK ==
  /\ run \in [Turn -> {"none", "running"} \union RunOutcomes]
  /\ approval \in [Call -> {"none", "pending"} \union ApprovalOutcomes]

Init ==
  /\ run = [t \in Turn |-> "none"]
  /\ approval = [c \in Call |-> "none"]

RunMoves(old, new) ==
  \/ new = old
  \/ old = "none" /\ new = "running"
  \/ old = "running" /\ new \in RunOutcomes

(* A call that nobody has to approve is opened and approved in one step. *)
ApprovalMoves(old, new) ==
  \/ new = old
  \/ old = "none" /\ new \in {"pending", "approve_once"}
  \/ old = "pending" /\ new \in ApprovalOutcomes

Next ==
  /\ run' \in [Turn -> {"none", "running"} \union RunOutcomes]
  /\ approval' \in [Call -> {"none", "pending"} \union ApprovalOutcomes]
  /\ \A t \in Turn : RunMoves(run[t], run'[t])
  /\ \A c \in Call : ApprovalMoves(approval[c], approval'[c])

(* Every run that was opened is settled in the end. *)
EveryRunSettles == \A t \in Turn : (run[t] = "running") ~> (run[t] \in RunOutcomes)

SafeSpec == Init /\ [][Next]_ledger
Spec     == SafeSpec /\ EveryRunSettles
=============================================================================
