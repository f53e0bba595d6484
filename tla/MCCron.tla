------------------------------- MODULE MCCron -------------------------------
(***************************************************************************)
(* Small instances of CronTasks.                                           *)
(***************************************************************************)
EXTENDS CronProperties

CONSTANTS n1, n2, i1, i2, i3, r1, r2, r3, k1, k2

Recurring == [oneShot |-> FALSE, once |-> FALSE]
FirstTime == [oneShot |-> TRUE, once |-> FALSE]
Once      == [oneShot |-> TRUE, once |-> TRUE]

OnlyFirst == {FirstTime}
OnceOrNot == {Once, Recurring}

On  == [enabled |-> TRUE, paused |-> FALSE]
Off == [enabled |-> FALSE, paused |-> FALSE]

NoSwitch == {}
OnOrOff  == {On, Off}

(* Names, executions, ticks and task ids are interchangeable. *)
Symmetry == Permutations(Name) \union Permutations(Run) \union Permutations(Tick) \union Permutations(Id)

(* No guard, and nothing CronShared checks, reads outbox and answer. *)
ButAnswers == <<up, configVars, sched, tick, run, row, runRow, autoRow, drawnVars>>
=============================================================================
