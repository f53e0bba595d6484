--------------------------- MODULE ApprovalPolicy ---------------------------
(***************************************************************************)
(* What the gateway decides about a tool call before anybody is asked: the *)
(* effective danger level against the connector's approval mode, and the   *)
(* ToolIntent (environment, filesystem effect, network, command words).    *)
(* The two are independent tables, consulted at three different places of  *)
(* gateway/procedures.ts: to announce the call, to wait for an answer and  *)
(* to run it.                                                              *)
(***************************************************************************)

DangerLevels  == {"safe", "moderate", "dangerous"}
ApprovalModes == {"always", "ask", "never"}
Environments  == {"default", "host", "external"}
ToolKinds     == {"read", "mutate", "web", "other"}

(* A call as the policy sees it: the kind of its tool (read; write, edit,  *)
(* exec or bash; web_fetch or web_search; any other), the level after exec *)
(* classification, the environment its arguments request, and whether its  *)
(* command holds one of the gated words (push, delete, kill...).           *)
CallShape ==
  [ kind: ToolKinds, level: DangerLevels, environment: Environments, gatedWord: BOOLEAN ]

FilesystemEffect(shape) ==
  CASE shape.environment = "host" -> IF shape.kind = "read" THEN "host_read" ELSE "host_write"
    [] shape.environment # "host" /\ shape.kind = "mutate" -> "virtual"
    [] OTHER -> "none"

Network(shape) ==
  CASE shape.environment = "host" -> "full"
    [] shape.environment # "host" /\ shape.kind = "web" -> "allowlist"
    [] OTHER -> "none"

ToolIntentRequiresApproval(shape) ==
  \/ shape.environment = "host"
  \/ FilesystemEffect(shape) = "host_write"
  \/ Network(shape) = "full"
  \/ shape.gatedWord

ResolveApprovalRequired(level, mode) ==
  level = "dangerous" \/ (level = "moderate" /\ mode = "always")

ShouldEmitApproval(level, mode) ==
  level # "safe" /\ (level = "dangerous" \/ mode = "always")
=============================================================================
