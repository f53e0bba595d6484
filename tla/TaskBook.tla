------------------------------ MODULE TaskBook ------------------------------
(***************************************************************************)
(* What automation promises of a task's life, whatever edits, executions,  *)
(* writes and crashes overlap.  There is a book of definitions; what is    *)
(* saved of it, and what a change of settings or a start brings back, is   *)
(* always a whole book that has been.  The schedule follows definitions,   *)
(* removals, one-shots that have ended, and starts.  An execution keeps    *)
(* the definition that was scheduled when it began.  Its record is opened  *)
(* anew for every attempt, is settled by that attempt or by the next start,*)
(* and goes only with all the records of its task, after a removal.        *)
(***************************************************************************)
CONSTANTS
  Name, Run, Id,
  Definition,   \* records with an id, a version and oneShot
  None

VARIABLES
  book,    \* the definition of each task
  drafts,  \* books that may still be saved or come back
  saved,   \* the book that the next start will find
  due,     \* what is scheduled under each name
  leaving, \* names of tasks that have been removed, or have run as one-shots
  open,    \* executions under way
  task,    \* an execution's name and definition
  record   \* how its last attempt stands

bookVars == <<book, drafts, saved, due, leaving, open, task, record>>

Init ==
  /\ book = [n \in Name |-> None] /\ drafts = {book} /\ saved = book
  /\ due = book /\ leaving = {}
  /\ open = {}
  /\ task = [r \in Run |-> None]
  /\ record = [r \in Run |-> "none"]

(* A definition is in use, or may come back. *)
IsKnown(definition) ==
  \/ \E old \in drafts \union {book, saved}, n \in Name : old[n] = definition
  \/ \E r \in Run : task[r] # None /\ task[r].definition = definition

Known == {definition \in Definition : IsKnown(definition)}

Draft == drafts' \subseteq drafts \union {book'}

(* A new task has an id of its own, a new definition a version of its own. *)
Define(n, definition) ==
  /\ book' = [book EXCEPT ![n] = definition]
  /\ \A known \in Known : known.version # definition.version
  /\ \/ book[n] # None /\ definition.id = book[n].id
     \/ \A known \in Known : known.id # definition.id
  /\ due' = [due EXCEPT ![n] = definition]
  /\ Draft
  /\ UNCHANGED <<saved, leaving, open, task, record>>

Remove(n) ==
  /\ due[n] # None
  /\ book' = [book EXCEPT ![n] = None]
  /\ due' = [due EXCEPT ![n] = None]
  /\ leaving' \subseteq leaving \union {n}
  /\ Draft
  /\ UNCHANGED <<saved, open, task, record>>

(* Other settings are saved, with the book as it is or as it was. *)
Revert ==
  /\ book' \in drafts
  /\ Draft
  /\ UNCHANGED <<saved, due, leaving, open, task, record>>

(* The records of a task go together. *)
Erase(n) ==
  \E i \in Id :
    LET gone == {r \in Run : task[r] # None /\ task[r].name = n /\ task[r].definition.id = i} IN
    record' = [r \in Run |-> IF r \in gone THEN "none" ELSE record[r]]

Save ==
  /\ saved' \in drafts
  /\ UNCHANGED record \/ \E n \in leaving : Erase(n)
  /\ Draft /\ leaving' \subseteq leaving
  /\ UNCHANGED <<book, due, open, task>>

(* A write is given up, or what has left leaves the schedule, too. *)
Clear ==
  /\ \A n \in Name : due'[n] # due[n] => n \in leaving /\ due'[n] = None
  /\ Draft /\ leaving' \subseteq leaving
  /\ UNCHANGED <<book, saved, open, task, record>>

Begin(r, n) ==
  /\ task[r] = None /\ due[n] # None
  /\ open' = open \union {r}
  /\ task' = [task EXCEPT ![r] = [name |-> n, definition |-> due[n]]]
  /\ UNCHANGED <<book, drafts, saved, due, leaving, record>>

Attempt(r) ==
  /\ r \in open /\ record[r] \in {"none", "error"}
  /\ record' = [record EXCEPT ![r] = "running"]
  /\ UNCHANGED <<book, drafts, saved, due, leaving, open, task>>

(* An execution ends; a one-shot takes its name out of the book with it. *)
End(r) ==
  LET n == task[r].name IN
  /\ r \in open /\ record'[r] # "running"
  /\ open' = open \ {r}
  /\ IF task[r].definition.oneShot
     THEN /\ book' = [book EXCEPT ![n] = None]
          /\ due' \in {due, [due EXCEPT ![n] = None]}
          /\ leaving' \subseteq leaving \union {n}
     ELSE UNCHANGED <<book, due, leaving>>
  /\ Draft
  /\ UNCHANGED <<saved, task>>

Outcome(r, outcome) ==
  /\ record[r] = "running"
  /\ record' = [record EXCEPT ![r] = outcome]

Settle(r, outcome) ==
  /\ r \in open
  /\ Outcome(r, outcome)
  /\ UNCHANGED <<book, drafts, saved, due, leaving, open, task>>

EndWith(r) ==
  /\ UNCHANGED record \/ \E outcome \in {"success", "error"} : Outcome(r, outcome)
  /\ End(r)

(* A crash ends every execution; the next start settles their records.     *)
Crash ==
  /\ book' = saved /\ due' = [n \in Name |-> None] /\ open' = {}
  /\ drafts' = {} /\ leaving' = {}
  /\ UNCHANGED <<saved, task, record>>

Restart ==
  /\ open = {}
  /\ book' = saved /\ drafts' \subseteq {saved}
  /\ \A n \in Name : due'[n] \in {None, saved[n]}
  /\ record' = [r \in Run |-> IF record[r] = "running" THEN "interrupted" ELSE record[r]]
  /\ UNCHANGED <<saved, leaving, open, task>>

Next ==
  \/ \E n \in Name :
       \/ \E definition \in Definition : Define(n, definition)
       \/ Remove(n)
       \/ \E r \in Run : Begin(r, n)
  \/ Revert \/ Save \/ Clear
  \/ \E r \in Run :
       Attempt(r) \/ EndWith(r) \/ \E outcome \in {"success", "error"} : Settle(r, outcome)
  \/ Crash \/ Restart

Spec == Init /\ [][Next]_bookVars
=============================================================================
