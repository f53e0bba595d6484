------------------------- MODULE SessionToolsProofs -------------------------
(* Proofs about SessionTools, for any number of sessions, sub-agents,        *)
(* directories and files, and any limits.                                    *)
EXTENDS SessionToolsProperties, FiniteSetTheorems, SequenceTheorems, TLAPS

\* A sub-agent that has been asked for has a session.
Owned == \A b \in Sub : phase[b] # "new" => owner[b] \in Session

\* No orchestrator runs more than it may.
Bounded == \A s \in Session : Cardinality(running[s]) <= MaxConcurrent

\* A queue holds sub-agents of its session that wait, each once.
Queued ==
  \A s \in Session : \A i, j \in 1..Len(queue[s]) :
    /\ phase[queue[s][i]] = "queued" /\ owner[queue[s][i]] = s
    /\ queue[s][i] = queue[s][j] => i = j

\* A tool at work is so in a directory.
InDirs == \A a \in Agent : call[a].pc \in {"mkdir", "excluding", "executing", "bare"} => call[a].dir \in Dir

TypeInv == TypeOK /\ Owned /\ Bounded /\ Queued /\ InDirs

LEMMA InitTypes == Init => TypeInv
<1> SUFFICES ASSUME Init PROVE TypeInv
  OBVIOUS
<1>1. \A s \in Session : queue[s] \in Seq(Sub)
  BY EmptySeq DEF Init
<1>2. NoCall \in [pc: CallPc, dir: Dir \union {None}]
  BY DEF NoCall, CallPc
<1>3. 0 \in 0..MaxPerTurn
  BY ToolsAssumption
<1>4. queue \in [Session -> Seq(Sub)] /\ spawned \in [Session -> 0..MaxPerTurn]
  BY <1>1, <1>3 DEF Init
<1>5. call \in [Agent -> [pc: CallPc, dir: Dir \union {None}]]
  BY <1>2 DEF Init
<1>6. Bounded
  BY FS_EmptySet, ToolsAssumption DEF Init, Bounded
<1>7. Queued
  BY DEF Init, Queued
<1> QED BY <1>4, <1>5, <1>6, <1>7 DEF Init, TypeInv, TypeOK, Owned, InDirs, NoCall, Phases, Agent, Tree

\* The tools' calls.
Calls == [pc: CallPc, dir: Dir \union {None}]

LEMMA SnapshotTypes ==
  ASSUME TypeOK, NEW d \in Dir, NEW agents, Snapshot(d, agents)
  PROVE  snaps' \in [Dir -> SUBSET Tree] /\ alone' \in [Agent -> SUBSET Dir]
<1>1. alone' \in [Agent -> SUBSET Dir]
  BY DEF Snapshot, Shared, TypeOK
<1>2. snaps' \in [Dir -> SUBSET Tree]
  <2> DEFINE c == IF snaps[d] = {} /\ tree[d] = Nothing THEN snaps[d] ELSE snaps[d] \union {tree[d]}
  <2>1. c \in SUBSET Tree
    BY DEF TypeOK
  <2>2. snaps' = [snaps EXCEPT ![d] = c] \/ snaps' = snaps
    BY DEF Snapshot
  <2> HIDE DEF c
  <2> QED BY <2>1, <2>2 DEF TypeOK
<1> QED BY <1>1, <1>2

LEMMA ClearsTypes ==
  ASSUME TypeOK, NEW agents, Clears(agents)
  PROVE  /\ marked' \subseteq Dir
         /\ touched' \in [Agent -> SUBSET Dir] /\ alone' \in [Agent -> SUBSET Dir]
  BY DEF Clears, TypeOK

\* The queue of which some have been taken.
LEMMA RestOfQueue ==
  ASSUME NEW q \in Seq(Sub), NEW n \in 0..Len(q)
  PROVE  /\ SubSeq(q, n + 1, Len(q)) \in Seq(Sub)
         /\ Len(SubSeq(q, n + 1, Len(q))) = Len(q) - n
         /\ \A i \in 1..Len(q) - n : SubSeq(q, n + 1, Len(q))[i] = q[n + i]
<1>1. Len(q) \in Nat
  OBVIOUS
<1>2. CASE n = Len(q)
  BY <1>1, <1>2, SubSeqEmpty
<1>3. CASE n < Len(q)
  BY <1>1, <1>3, SubSeqProperties
<1> QED BY <1>1, <1>2, <1>3
LEMMA RunningIsFinite ==
  ASSUME TypeOK, NEW s \in Session
  PROVE  /\ IsFiniteSet(running[s]) /\ Cardinality(running[s]) \in Nat
         /\ \A b : /\ IsFiniteSet(running[s] \ {b}) /\ Cardinality(running[s] \ {b}) \in Nat
                  /\ Cardinality(running[s] \ {b}) <= Cardinality(running[s])
<1>1. running[s] \in SUBSET Sub
  BY DEF TypeOK
<1>2. IsFiniteSet(running[s]) /\ Cardinality(running[s]) \in Nat
  BY <1>1, ToolsAssumption, FS_Subset, FS_CardinalityType
<1>3. ASSUME NEW b
      PROVE  /\ IsFiniteSet(running[s] \ {b}) /\ Cardinality(running[s] \ {b}) \in Nat
             /\ Cardinality(running[s] \ {b}) <= Cardinality(running[s])
  <2>1. running[s] \ {b} \in SUBSET running[s]
    OBVIOUS
  <2> QED BY <1>2, <2>1, FS_Subset, FS_CardinalityType
<1> QED BY <1>2, <1>3

\* What processQueue takes fits the queue and the slots.
LEMMA TakesFits ==
  ASSUME TypeInv, NEW s \in Session, NEW b
  PROVE  /\ Takes(s, b) \in 0..Len(queue[s])
         /\ Takes(s, b) + Cardinality(running[s] \ {b}) <= MaxConcurrent
<1> DEFINE free == MaxConcurrent - Cardinality(running[s] \ {b})
<1>1. Cardinality(running[s] \ {b}) \in Nat /\ free \in Nat
  <2>1. TypeOK /\ Cardinality(running[s]) <= MaxConcurrent
    BY DEF TypeInv, Bounded
  <2>2. Cardinality(running[s]) \in Nat
    BY <2>1, RunningIsFinite
  <2>3. Cardinality(running[s] \ {b}) \in Nat /\ Cardinality(running[s] \ {b}) <= Cardinality(running[s])
    BY <2>1, RunningIsFinite
  <2> QED BY <2>1, <2>2, <2>3, ToolsAssumption
<1>2. Len(queue[s]) \in Nat
  BY DEF TypeInv, TypeOK
<1> QED BY <1>1, <1>2, ToolsAssumption DEF Takes

LEMMA TakenAreFew ==
  ASSUME NEW q \in Seq(Sub), NEW n \in 0..Len(q)
  PROVE  /\ {q[i] : i \in 1..n} \in SUBSET Sub
         /\ IsFiniteSet({q[i] : i \in 1..n}) /\ Cardinality({q[i] : i \in 1..n}) <= n
<1> DEFINE S == {q[i] : i \in 1..n}
           f == [i \in 1..n |-> q[i]]
<1>1. n \in Nat /\ IsFiniteSet(1..n) /\ Cardinality(1..n) = n
  BY FS_Interval
<1>2. f \in Surjection(1..n, S)
  BY DEF Surjection
<1>3. S \in SUBSET Sub
  OBVIOUS
<1> HIDE DEF f, S
<1> QED BY <1>1, <1>2, <1>3, FS_Surjection DEF S

\* A sub-agent more, or as many as have been taken.
LEMMA FewRun ==
  ASSUME TypeOK, NEW s \in Session, NEW b, NEW T \in SUBSET Sub, NEW n \in Nat,
         IsFiniteSet(T), Cardinality(T) <= n
  PROVE  Cardinality((running[s] \ {b}) \union T) <= Cardinality(running[s] \ {b}) + n
<1> DEFINE R == running[s] \ {b}
<1>1. IsFiniteSet(R) /\ Cardinality(R) \in Nat
  BY RunningIsFinite
<1>2. IsFiniteSet(R \intersect T) /\ Cardinality(R \intersect T) \in Nat
  <2>1. R \intersect T \in SUBSET R
    OBVIOUS
  <2> HIDE DEF R
  <2> QED BY <1>1, <2>1, FS_Subset, FS_CardinalityType
<1>3. Cardinality(T) \in Nat
  BY FS_CardinalityType
<1>4. Cardinality(R \union T) = Cardinality(R) + Cardinality(T) - Cardinality(R \intersect T)
  BY <1>1, FS_Union
<1> HIDE DEF R
<1>5. Cardinality(R \union T) <= Cardinality(R) + n
  BY <1>1, <1>2, <1>3, <1>4
<1> QED BY <1>5 DEF R

-----------------------------------------------------------------------------
(* What holds beyond the types. *)

\* Only an agent at work has a call under way.
CallsWork == \A a \in Agent : call[a].pc # "idle" => Works(a)

\* The sub-agent that a delegate call waits for is at work, and the only one.
SyncWaits ==
  \A b \in sync :
    /\ phase[b] = "working" /\ call[owner[b]].pc = "waiting"
    /\ \A c \in sync : owner[b] = owner[c] => b = c

\* The orchestrators' collections and what is at work.
Counted ==
  /\ \A s \in Session : \A b \in running[s] \union cancelled[s] :
       b \notin sync /\ phase[b] = "working" /\ owner[b] = s
  /\ \A b \in Sub \ sync : phase[b] = "working" => b \in running[owner[b]] \union cancelled[owner[b]]
  /\ \A s \in Session : running[s] \intersect cancelled[s] = {}

WorkInv == CallsWork /\ SyncWaits /\ Counted

\* What an agent has to itself is not used by another's tool.
NoOneElse == \A a \in Agent, d \in Dir : d \in alone[a] => \A x \in Agent \ {a} : call[x].dir # d

\* There is a way back to what the directory holds.
Kept(d) == tree[d] \in snaps[d] \union {Nothing}

\* A mark on a directory an agent has to itself and has not changed: it is
\* being snapshotted, or has been.
MarkInv ==
  \A a \in Agent, d \in Dir :
    d \in marked /\ d \in alone[a] \ touched[a] =>
      Kept(d) \/ (call[a].dir = d /\ call[a].pc \in {"mkdir", "excluding"})

\* So it has been once the tool runs.
ExecInv ==
  \A a \in Agent, d \in Dir :
    call[a].pc = "executing" /\ call[a].dir = d /\ d \in alone[a] \ touched[a] => Kept(d)

UndoInv == NoOneElse /\ MarkInv /\ ExecInv

\* A repository left half made is torn, or somebody is at it.
HalfInv ==
  \A d \in Dir : repo[d] = "begun" =>
    d \in torn \/ \E a \in Agent : call[a].dir = d /\ call[a].pc = "excluding"

-----------------------------------------------------------------------------
(* Types. *)

LEMMA QueueMembers ==
  ASSUME TypeInv, NEW s \in Session, NEW k \in 1..Len(queue[s])
  PROVE  queue[s][k] \in Sub /\ phase[queue[s][k]] = "queued" /\ owner[queue[s][k]] = s
<1>1. queue[s] \in Seq(Sub)
  BY DEF TypeInv, TypeOK
<1> QED BY <1>1 DEF TypeInv, Queued

LEMMA TurnTypes ==
  ASSUME TypeInv, NEW s \in Session, NewTurn(s) \/ EndTurn(s)
  PROVE  TypeInv'
<1>1. CASE NewTurn(s)
  <2>1. Clears({s}) /\ TypeOK
    BY <1>1 DEF NewTurn, TypeInv
  <2>2. 0 \in 0..MaxPerTurn
    BY ToolsAssumption
  <2> QED BY <1>1, <2>1, <2>2, ClearsTypes DEF NewTurn, TypeInv, TypeOK, Owned, Bounded, Queued, InDirs
<1>2. CASE EndTurn(s)
  BY <1>2 DEF EndTurn, TypeInv, TypeOK, Owned, Bounded, Queued, InDirs, checkpoints, history
<1> QED BY <1>1, <1>2

LEMMA SpawnTypes ==
  ASSUME TypeInv, NEW s \in Session, NEW b \in Sub, Spawn(s, b)
  PROVE  TypeInv'
<1>0. TypeOK
  BY DEF TypeInv
<1>1. spawned' \in [Session -> 0..MaxPerTurn]
  BY <1>0, ToolsAssumption DEF Spawn, MaySpawn, TypeOK
<1>2. owner' \in [Sub -> Session \union {None}] /\ owner'[b] = s /\ \A x \in Sub \ {b} : owner'[x] = owner[x]
  BY <1>0 DEF Spawn, TypeOK
<1>3. CASE /\ queue' = [queue EXCEPT ![s] = Append(@, b)]
           /\ phase' = [phase EXCEPT ![b] = "queued"]
           /\ UNCHANGED <<running, marked, touched, alone, idled>>
  <2>1. Append(queue[s], b) \in Seq(Sub)
    BY <1>0, AppendProperties DEF TypeOK
  <2>2. queue' \in [Session -> Seq(Sub)]
    BY <1>0, <1>3, <2>1 DEF TypeOK
  <2>3. phase' \in [Sub -> Phases] /\ Owned' /\ Bounded'
    BY <1>0, <1>2, <1>3 DEF TypeInv, TypeOK, Owned, Bounded, Phases
  <2>4. Queued'
    <3> SUFFICES ASSUME NEW x \in Session, NEW i \in 1..Len(queue'[x]), NEW j \in 1..Len(queue'[x])
                 PROVE  /\ phase'[queue'[x][i]] = "queued" /\ owner'[queue'[x][i]] = x
                        /\ queue'[x][i] = queue'[x][j] => i = j
      BY DEF Queued
    <3>1. CASE x # s
      <4>1. queue'[x] = queue[x] /\ queue[x] \in Seq(Sub)
        BY <1>0, <1>3, <3>1 DEF TypeOK
      <4>2. \A k \in 1..Len(queue[x]) : queue[x][k] \in Sub \ {b}
        BY <1>0, <4>1 DEF TypeInv, Queued, Spawn
      <4>3. \A y \in Sub \ {b} : phase'[y] = phase[y]
        BY <1>0, <1>3 DEF TypeOK
      <4>4. queue[x][i] = queue[x][j] => i = j
        BY <4>1 DEF TypeInv, Queued
      <4>5. /\ queue[x][i] \in Sub \ {b}
            /\ phase[queue[x][i]] = "queued" /\ owner[queue[x][i]] = x
        BY <4>1, <4>2, QueueMembers
      <4> QED BY <1>2, <4>1, <4>3, <4>4, <4>5
    <3>2. CASE x = s
      <4> DEFINE q == queue[s]
      <4>1. q \in Seq(Sub) /\ Len(q) \in Nat
        BY <1>0 DEF TypeOK
      <4>2. queue'[x] = Append(q, b)
        BY <1>0, <1>3, <3>2 DEF TypeOK
      <4>3. \A k \in 1..Len(q) : q[k] \in Sub \ {b} /\ phase[q[k]] = "queued" /\ owner[q[k]] = s
        BY <1>0, <4>1 DEF TypeInv, Queued, Spawn
      <4>4. \A k, l \in 1..Len(q) : q[k] = q[l] => k = l
        BY DEF TypeInv, Queued
      <4> HIDE DEF q
      <4>5. /\ Len(queue'[x]) = Len(q) + 1
            /\ \A k \in 1..Len(q) : queue'[x][k] = q[k]
            /\ queue'[x][Len(q) + 1] = b
        BY <4>1, <4>2, AppendProperties
      <4>6. \A k \in 1..Len(q) : phase'[q[k]] = "queued" /\ owner'[q[k]] = s
        BY <1>0, <1>2, <1>3, <4>3 DEF TypeOK
      <4>7. phase'[b] = "queued" /\ owner'[b] = s
        BY <1>0, <1>2, <1>3 DEF TypeOK
      <4>8. \A k \in 1..Len(q) + 1 : k \in 1..Len(q) \/ k = Len(q) + 1
        BY <4>1
      <4> QED BY <3>2, <4>3, <4>4, <4>5, <4>6, <4>7, <4>8
    <3> QED BY <3>1, <3>2
  <2> QED BY <1>0, <1>1, <1>2, <1>3, <2>2, <2>3, <2>4 DEF Spawn, TypeInv, TypeOK, InDirs
<1>4. CASE ~Full(s) /\ Starts(s, {b}, phase, running[s]) /\ UNCHANGED queue
  <2>1. Cardinality(running[s] \union {b}) <= MaxConcurrent
    <3>1. IsFiniteSet(running[s]) /\ Cardinality(running[s]) \in Nat
      BY <1>0, RunningIsFinite
    <3>2. Cardinality(running[s]) < MaxConcurrent
      BY <1>4, <3>1, ToolsAssumption DEF Full
    <3>3. \/ Cardinality(running[s] \union {b}) = Cardinality(running[s])
          \/ Cardinality(running[s] \union {b}) = Cardinality(running[s]) + 1
      BY <3>1, FS_AddElement
    <3> QED BY <3>1, <3>2, <3>3, ToolsAssumption
  <2>2. running' \in [Session -> SUBSET Sub] /\ Bounded'
    BY <1>0, <1>4, <2>1 DEF Starts, TypeOK, TypeInv, Bounded
  <2>3. phase' \in [Sub -> Phases] /\ Owned'
    BY <1>0, <1>2, <1>4 DEF Starts, TypeInv, TypeOK, Owned, Phases
  <2>4. Clears({b}) /\ idled' \subseteq Session
    BY <1>0, <1>4 DEF Starts, TypeOK
  <2>5. Queued'
    <3>1. \A x \in Session : \A k \in 1..Len(queue[x]) : queue[x][k] \in Sub \ {b}
      BY QueueMembers DEF Spawn
    <3>2. \A y \in Sub \ {b} : phase'[y] = phase[y] /\ owner'[y] = owner[y]
      BY <1>2, <1>4 DEF Starts
    <3> QED BY <1>4, <3>1, <3>2 DEF TypeInv, Queued
  <2> QED BY <1>0, <1>1, <1>2, <1>4, <2>2, <2>3, <2>4, <2>5, ClearsTypes DEF Spawn, TypeInv, TypeOK, InDirs
<1> QED BY <1>3, <1>4 DEF Spawn

LEMMA DelegateTypes ==
  ASSUME TypeInv, NEW s \in Session, NEW b \in Sub, Delegate(s, b)
  PROVE  TypeInv'
<1>0. TypeOK /\ Clears({b})
  BY DEF TypeInv, Delegate
<1>1. call' \in [Agent -> Calls]
  BY <1>0 DEF Delegate, TypeOK, Calls, CallPc
<1>2. phase' \in [Sub -> Phases] /\ owner' \in [Sub -> Session \union {None}] /\ Owned'
  BY <1>0 DEF Delegate, TypeInv, TypeOK, Owned, Phases
<1>3. Queued'
  <2>1. \A x \in Session : \A k \in 1..Len(queue[x]) : queue[x][k] \in Sub \ {b}
    BY <1>0 DEF TypeInv, TypeOK, Queued, Delegate
  <2>2. \A y \in Sub \ {b} : phase'[y] = phase[y] /\ owner'[y] = owner[y]
    BY <1>0 DEF Delegate, TypeOK
  <2> QED BY <2>1, <2>2 DEF TypeInv, Queued, Delegate
<1>4. InDirs'
  BY <1>0 DEF Delegate, TypeInv, TypeOK, InDirs
<1> QED BY <1>0, <1>1, <1>2, <1>3, <1>4, ClearsTypes DEF Delegate, TypeInv, TypeOK, Calls, Bounded

LEMMA CancelTypes ==
  ASSUME TypeInv, NEW b \in Sub, Cancel(b)
  PROVE  TypeInv'
<1>0. TypeOK /\ owner[b] \in Session
  BY DEF TypeInv, TypeOK, Cancel
<1>1. Bounded'
  <2> SUFFICES ASSUME NEW s \in Session PROVE Cardinality(running'[s]) <= MaxConcurrent
    BY DEF Bounded
  <2>1. Cardinality(running[s]) <= MaxConcurrent /\ Cardinality(running[s]) \in Nat
    BY <1>0, RunningIsFinite DEF TypeInv, Bounded
  <2>2. /\ Cardinality(running[s] \ {b}) \in Nat
        /\ Cardinality(running[s] \ {b}) <= Cardinality(running[s])
    BY <1>0, RunningIsFinite
  <2>3. running'[s] = running[s] \/ running'[s] = running[s] \ {b}
    BY <1>0 DEF Cancel, TypeOK
  <2> QED BY <2>1, <2>2, <2>3, ToolsAssumption
<1> QED BY <1>0, <1>1 DEF Cancel, TypeInv, TypeOK, Owned, Queued, InDirs, checkpoints

LEMMA FinishTypes ==
  ASSUME TypeInv, NEW b \in Sub, Finish(b)
  PROVE  TypeInv'
<1> DEFINE s == owner[b]
           over == [phase EXCEPT ![b] = "ended"]
<1>0. TypeOK /\ s \in Session /\ over \in [Sub -> Phases]
  BY DEF TypeInv, TypeOK, Owned, Finish, Phases
<1>9. \A x \in Session : \A k \in 1..Len(queue[x]) :
         queue[x][k] \in Sub \ {b} /\ over[queue[x][k]] = "queued"
  BY <1>0 DEF TypeInv, TypeOK, Queued, Finish
<1>10. UNCHANGED owner
  BY DEF Finish
<1>1. CASE /\ b \in sync
           /\ call' = [call EXCEPT ![s].pc = "idle"]
           /\ sync' = sync \ {b}
           /\ phase' = over
           /\ UNCHANGED <<queue, running, cancelled, marked, touched, alone, idled>>
  <2>1. call' \in [Agent -> Calls]
    BY <1>0, <1>1 DEF TypeOK, Calls, CallPc
  <2>2. Queued' /\ InDirs'
    BY <1>0, <1>1, <1>9, <1>10 DEF TypeInv, TypeOK, Queued, InDirs
  <2> QED BY <1>0, <1>1, <2>1, <2>2 DEF Finish, TypeInv, TypeOK, Owned, Bounded, Calls
<1>2. CASE /\ b \in cancelled[s]
           /\ running' = [running EXCEPT ![s] = @ \ {b}]
           /\ cancelled' = [cancelled EXCEPT ![s] = @ \ {b}]
           /\ phase' = over
           /\ UNCHANGED <<queue, sync, marked, call, touched, alone, idled>>
  <2>1. Bounded'
    <3> SUFFICES ASSUME NEW x \in Session PROVE Cardinality(running'[x]) <= MaxConcurrent
      BY DEF Bounded
    <3>1. Cardinality(running[x]) <= MaxConcurrent /\ Cardinality(running[x]) \in Nat
      BY <1>0, RunningIsFinite DEF TypeInv, Bounded
    <3>2. /\ Cardinality(running[x] \ {b}) \in Nat
          /\ Cardinality(running[x] \ {b}) <= Cardinality(running[x])
      BY <1>0, RunningIsFinite
    <3>3. running'[x] = running[x] \/ running'[x] = running[x] \ {b}
      BY <1>0, <1>2 DEF TypeOK
    <3> QED BY <3>1, <3>2, <3>3, ToolsAssumption
  <2>2. Queued' /\ InDirs'
    BY <1>0, <1>2, <1>9, <1>10 DEF TypeInv, TypeOK, Queued, InDirs
  <2> QED BY <1>0, <1>2, <2>1, <2>2 DEF Finish, TypeInv, TypeOK, Owned
<1>3. CASE /\ b \notin sync \union cancelled[s]
           /\ Starts(s, {queue[s][i] : i \in 1..Takes(s, b)}, over, running[s] \ {b})
           /\ queue' = [queue EXCEPT ![s] = SubSeq(@, Takes(s, b) + 1, Len(@))]
           /\ UNCHANGED <<cancelled, sync, call>>
  <2> DEFINE n == Takes(s, b)
             T == {queue[s][i] : i \in 1..n}
  <2>1. n \in 0..Len(queue[s]) /\ n + Cardinality(running[s] \ {b}) <= MaxConcurrent
    BY <1>0, TakesFits
  <2>2. queue[s] \in Seq(Sub)
    BY <1>0 DEF TypeOK
  <2> HIDE DEF n
  <2>3. T \in SUBSET Sub /\ IsFiniteSet(T) /\ Cardinality(T) <= n
    BY <2>1, <2>2, TakenAreFew
  <2>4. SubSeq(queue[s], n + 1, Len(queue[s])) \in Seq(Sub)
    BY <2>1, <2>2, RestOfQueue
  <2>5. queue' = [queue EXCEPT ![s] = SubSeq(queue[s], n + 1, Len(queue[s]))]
    BY <1>3 DEF n
  <2>6. queue' \in [Session -> Seq(Sub)]
    BY <1>0, <2>4, <2>5 DEF TypeOK
  <2>7. Starts(s, T, over, running[s] \ {b})
    BY <1>3 DEF n
  <2> HIDE DEF T
  <2>8. Cardinality((running[s] \ {b}) \union T) <= MaxConcurrent
    <3>0. n \in Nat
      BY <2>1
    <3>1. n \in Nat /\ Cardinality(running[s] \ {b}) \in Nat
      BY <1>0, <3>0, RunningIsFinite
    <3>2. Cardinality((running[s] \ {b}) \union T) <= Cardinality(running[s] \ {b}) + n
      BY <1>0, <2>3, <3>1, FewRun
    <3>3. IsFiniteSet((running[s] \ {b}) \union T)
      BY <1>0, <2>3, RunningIsFinite, FS_Union
    <3>4. Cardinality((running[s] \ {b}) \union T) \in Nat
      BY <3>3, FS_CardinalityType
    <3> QED BY <2>1, <3>1, <3>2, <3>4, ToolsAssumption
  <2>9. running' \in [Session -> SUBSET Sub] /\ Bounded'
    BY <1>0, <2>3, <2>7, <2>8 DEF Starts, TypeOK, TypeInv, Bounded
  <2>10. phase' \in [Sub -> Phases] /\ idled' \subseteq Session /\ Clears(T)
    BY <1>0, <2>7 DEF Starts, TypeOK, Phases
  <2>11. \A x \in Sub : phase'[x] = IF x \in T THEN "working" ELSE over[x]
    BY <2>7 DEF Starts
  <2>12. T = {queue[s][i] : i \in 1..n} /\ Len(queue[s]) \in Nat
    BY <2>2 DEF T
  <2>13. \A x \in T : phase[x] = "queued" /\ owner[x] = s
    BY <1>0, <2>1, <2>12 DEF TypeInv, Queued
  <2>14. Owned'
    BY <1>0, <1>10, <2>11, <2>13 DEF TypeInv, TypeOK, Owned, Phases
  <2>15. Queued'
    <3> SUFFICES ASSUME NEW x \in Session, NEW i \in 1..Len(queue'[x]), NEW j \in 1..Len(queue'[x])
                 PROVE  /\ phase'[queue'[x][i]] = "queued" /\ owner'[queue'[x][i]] = x
                        /\ queue'[x][i] = queue'[x][j] => i = j
      BY DEF Queued
    <3>1. CASE x # s
      <4>1. queue'[x] = queue[x]
        BY <1>0, <2>5, <3>1 DEF TypeOK
      <4>2. \A k \in 1..Len(queue[x]) : queue[x][k] \notin T
        BY <2>13, <3>1 DEF TypeInv, Queued
      <4> QED BY <1>9, <1>10, <2>11, <4>1, <4>2 DEF TypeInv, Queued
    <3>2. CASE x = s
      <4> DEFINE q == queue[s]
      <4>1. queue'[x] = SubSeq(q, n + 1, Len(q))
        BY <1>0, <2>5, <3>2 DEF TypeOK
      <4>2. Len(queue'[x]) = Len(q) - n /\ \A k \in 1..Len(q) - n : queue'[x][k] = q[n + k]
        BY <2>1, <2>2, <4>1, RestOfQueue
      <4>3. \A k, l \in 1..Len(q) : q[k] = q[l] => k = l
        BY <1>0 DEF TypeInv, Queued
      <4>4. \A k \in 1..Len(q) - n : n + k \in 1..Len(q) /\ n + k \notin 1..n
        BY <2>1, <2>12
      <4>5. \A k \in 1..Len(q) - n : q[n + k] \notin T
        BY <2>1, <2>12, <4>3, <4>4
      <4>6. \A k \in 1..Len(q) - n : phase'[q[n + k]] = "queued" /\ owner'[q[n + k]] = s
        BY <1>0, <1>9, <1>10, <2>11, <4>4, <4>5 DEF TypeInv, Queued
      <4> HIDE DEF q
      <4>7. i \in 1..Len(q) - n /\ j \in 1..Len(q) - n /\ queue'[x][i] = q[n + i] /\ queue'[x][j] = q[n + j]
        BY <4>2
      <4>8. q[n + i] = q[n + j] => n + i = n + j
        BY <4>3, <4>4, <4>7
      <4>9. n + i = n + j => i = j
        BY <2>1, <2>12
      <4> QED BY <3>2, <4>6, <4>7, <4>8, <4>9
    <3> QED BY <3>1, <3>2
  <2>16. InDirs'
    BY <1>3 DEF TypeInv, InDirs
  <2> QED BY <1>0, <1>3, <2>6, <2>9, <2>10, <2>14, <2>15, <2>16, ClearsTypes DEF Finish, TypeInv, TypeOK
<1> QED BY <1>1, <1>2, <1>3 DEF Finish
LEMMA BeginTypes ==
  ASSUME TypeInv, NEW a \in Agent, NEW d \in Dir, BeginCall(a, d)
  PROVE  TypeInv'
<1>0. TypeOK
  BY DEF TypeInv
<1>1. \E pc \in {"mkdir", "executing"} : call' = [call EXCEPT ![a] = [pc |-> pc, dir |-> d]]
  BY DEF BeginCall
<1>2. call' \in [Agent -> Calls] /\ InDirs'
  BY <1>0, <1>1 DEF TypeInv, TypeOK, Calls, CallPc, InDirs
<1>3. Snapshot(d, Agent \ {a}) \/ (Shared(d, Agent \ {a}) /\ UNCHANGED snaps)
  BY DEF BeginCall
<1>4. snaps' \in [Dir -> SUBSET Tree] /\ alone' \in [Agent -> SUBSET Dir]
  <2>1. CASE Snapshot(d, Agent \ {a})
    BY <1>0, <2>1, SnapshotTypes
  <2>2. CASE Shared(d, Agent \ {a}) /\ UNCHANGED snaps
    BY <1>0, <2>2 DEF Shared, TypeOK
  <2> QED BY <1>3, <2>1, <2>2
<1>5. marked' \subseteq Dir /\ torn' \subseteq Dir
  BY <1>0 DEF BeginCall, TypeOK
<1> QED BY <1>0, <1>2, <1>4, <1>5
  DEF BeginCall, TypeInv, TypeOK, Calls, Owned, Bounded, Queued, orchestrators

LEMMA BareTypes ==
  ASSUME TypeInv, NEW a \in Agent, NEW d \in Dir, BareCall(a, d)
  PROVE  TypeInv'
<1>1. call' = [call EXCEPT ![a] = [pc |-> "bare", dir |-> d]] /\ Shared(d, Agent \ {a})
  BY DEF BareCall
<1>2. call' \in [Agent -> Calls] /\ InDirs'
  BY <1>1 DEF TypeInv, TypeOK, Calls, CallPc, InDirs
<1>3. alone' \in [Agent -> SUBSET Dir]
  BY <1>1 DEF Shared, TypeInv, TypeOK
<1> QED BY <1>2, <1>3
  DEF BareCall, TypeInv, TypeOK, Calls, Owned, Bounded, Queued, orchestrators

LEMMA GitTypes ==
  ASSUME TypeInv, NEW a \in Agent, GitInit(a) \/ Excluded(a)
  PROVE  TypeInv'
<1>0. TypeOK /\ call[a].dir \in Dir
  BY DEF TypeInv, InDirs, GitInit, Excluded
<1>1. \E pc \in {"excluding", "executing"} : call' = [call EXCEPT ![a].pc = pc]
  BY DEF GitInit, Excluded
<1>2. call' \in [Agent -> Calls] /\ InDirs'
  <2>1. PICK pc \in {"excluding", "executing"} : call' = [call EXCEPT ![a].pc = pc]
    BY <1>1
  <2>2. call \in [Agent -> Calls] /\ pc \in CallPc
    BY <1>0 DEF TypeOK, Calls, CallPc
  <2>3. call' \in [Agent -> Calls]
    BY <2>1, <2>2 DEF Calls
  <2>4. \A x \in Agent : call'[x].dir = call[x].dir /\ (x # a => call'[x].pc = call[x].pc)
    BY <2>1, <2>2 DEF Calls
  <2> QED BY <1>0, <2>3, <2>4 DEF TypeInv, InDirs
<1>3. CASE GitInit(a)
  BY <1>0, <1>2, <1>3 DEF GitInit, TypeInv, TypeOK, Calls, Owned, Bounded, Queued, orchestrators, history
<1>4. CASE Excluded(a)
  <2>1. snaps' \in [Dir -> SUBSET Tree] /\ alone' \in [Agent -> SUBSET Dir]
    BY <1>0, <1>4, SnapshotTypes DEF Excluded
  <2>2. repo' \in [Dir -> {"none", "begun", "ready"}]
    BY <1>0, <1>4 DEF Excluded, TypeOK
  <2>3. Owned' /\ Bounded' /\ Queued'
    BY <1>4 DEF Excluded, TypeInv, Owned, Bounded, Queued, orchestrators
  <2> QED BY <1>0, <1>2, <1>4, <2>1, <2>2, <2>3 DEF Excluded, TypeInv, TypeOK, Calls, orchestrators
<1> QED BY <1>3, <1>4

LEMMA ExecuteTypes ==
  ASSUME TypeInv, NEW a \in Agent, Execute(a)
  PROVE  TypeInv'
<1>0. TypeOK /\ call[a].dir \in Dir
  BY DEF TypeInv, InDirs, Execute
<1>1. call' \in [Agent -> Calls] /\ InDirs'
  BY <1>0 DEF Execute, TypeInv, TypeOK, Calls, CallPc, InDirs, NoCall
<1>2. tree' \in [Dir -> Tree]
  <2>1. CASE UNCHANGED tree
    BY <1>0, <2>1 DEF TypeOK
  <2>2. CASE \E f \in File, v \in Value \union {Absent} : tree' = [tree EXCEPT ![call[a].dir][f] = v]
    <3>1. PICK f \in File, v \in Value \union {Absent} : tree' = [tree EXCEPT ![call[a].dir][f] = v]
      BY <2>2
    <3>2. tree[call[a].dir] \in Tree
      BY <1>0 DEF TypeOK
    <3>3. [tree[call[a].dir] EXCEPT ![f] = v] \in Tree
      BY <3>2 DEF Tree
    <3> QED BY <1>0, <3>1, <3>3 DEF TypeOK
  <2> QED BY <2>1, <2>2 DEF Execute
<1>3. touched' \in [Agent -> SUBSET Dir]
  <2>1. touched[a] \union {call[a].dir} \in SUBSET Dir
    BY <1>0 DEF TypeOK
  <2>2. touched' = touched \/ touched' = [touched EXCEPT ![a] = touched[a] \union {call[a].dir}]
    BY DEF Execute
  <2> QED BY <1>0, <2>1, <2>2 DEF TypeOK
<1> QED BY <1>0, <1>1, <1>2, <1>3
  DEF Execute, TypeInv, TypeOK, Calls, Owned, Bounded, Queued, orchestrators

LEMMA RestoreTypes ==
  ASSUME TypeInv, NEW d \in Dir, NEW c \in snaps[d], Restore(d, c)
  PROVE  TypeInv'
<1>0. TypeOK /\ c \in Tree /\ tree[d] \in Tree
  BY DEF TypeInv, TypeOK
<1>1. snaps' \in [Dir -> SUBSET Tree] /\ alone' \in [Agent -> SUBSET Dir]
  BY <1>0, SnapshotTypes DEF Restore
<1>2. tree' \in [Dir -> Tree]
  <2> DEFINE new == [f \in File |-> IF c[f] = Absent THEN tree[d][f] ELSE c[f]]
  <2>1. new \in Tree
    BY <1>0 DEF Tree
  <2>2. tree' = [tree EXCEPT ![d] = new]
    BY DEF Restore
  <2> HIDE DEF new
  <2> QED BY <1>0, <2>1, <2>2 DEF TypeOK
<1> QED BY <1>0, <1>1, <1>2
  DEF Restore, TypeInv, TypeOK, Owned, Bounded, Queued, InDirs, orchestrators

LEMMA CrashTypes == ASSUME TypeInv, Crash PROVE TypeInv'
<1>1. \A s \in Session : queue'[s] = <<>> /\ <<>> \in Seq(Sub)
  BY EmptySeq DEF Crash
<1>2. NoCall \in Calls /\ NoCall.pc = "idle"
  BY DEF NoCall, Calls, CallPc
<1>3. 0 \in 0..MaxPerTurn
  BY ToolsAssumption
<1>4. queue' \in [Session -> Seq(Sub)] /\ spawned' \in [Session -> 0..MaxPerTurn]
  BY <1>1, <1>3 DEF Crash
<1>5. call' \in [Agent -> Calls] /\ InDirs'
  BY <1>2 DEF Crash, InDirs
<1>6. Bounded' /\ Queued'
  BY <1>1, FS_EmptySet, ToolsAssumption DEF Crash, Bounded, Queued
<1>7. Owned'
  BY DEF TypeInv, TypeOK, Owned, Crash
<1> QED BY <1>4, <1>5, <1>6, <1>7 DEF Crash, TypeInv, TypeOK, Calls, Phases

LEMMA TypeStep == TypeInv /\ [Next]_vars => TypeInv'
<1> SUFFICES ASSUME TypeInv, [Next]_vars PROVE TypeInv'
  OBVIOUS
<1>1. CASE \E s \in Session : NewTurn(s) \/ EndTurn(s)
  BY <1>1, TurnTypes
<1>2. CASE \E s \in Session, b \in Sub : Spawn(s, b) \/ Delegate(s, b)
  BY <1>2, SpawnTypes, DelegateTypes
<1>3. CASE \E b \in Sub : Cancel(b) \/ Finish(b)
  BY <1>3, CancelTypes, FinishTypes
<1>4. CASE \E a \in Agent, d \in Dir : BeginCall(a, d) \/ BareCall(a, d)
  BY <1>4, BeginTypes, BareTypes
<1>5. CASE \E a \in Agent : ToolStep(a)
  BY <1>5, GitTypes, ExecuteTypes DEF ToolStep
<1>6. CASE \E d \in Dir : \E c \in snaps[d] : Restore(d, c)
  BY <1>6, RestoreTypes
<1>7. CASE Crash
  BY <1>7, CrashTypes
<1>8. CASE UNCHANGED vars
  BY <1>8 DEF TypeInv, TypeOK, Owned, Bounded, Queued, InDirs, vars, orchestrators, checkpoints, history
<1> QED BY <1>1, <1>2, <1>3, <1>4, <1>5, <1>6, <1>7, <1>8 DEF Next

\* What the orchestrators and the checkpoint manager keep is well typed: no
\* orchestrator runs more than it may, and its queue holds what waits.
THEOREM ToolsTypesCorrect == Spec => []TypeOK
<1>1. TypeInv => TypeOK
  BY DEF TypeInv
<1> QED BY <1>1, InitTypes, TypeStep, PTL DEF Spec
-----------------------------------------------------------------------------
(* What is at work, and what is counted. *)

LEMMA InitWork == Init => WorkInv
  BY DEF Init, WorkInv, CallsWork, SyncWaits, Counted, NoCall

\* A call of an agent at work begins or goes on: nothing else of WorkInv changes.
LEMMA CallKeepsWork ==
  ASSUME TypeInv, WorkInv, NEW a \in Agent, Works(a), call[a].pc # "waiting",
         UNCHANGED orchestrators, \A x \in Agent \ {a} : call'[x] = call[x]
  PROVE  WorkInv'
<1>1. CallsWork'
  BY DEF WorkInv, CallsWork, Works, orchestrators
<1>2. SyncWaits'
  <2>1. \A b \in sync : owner[b] \in Agent /\ owner[b] # a
    BY DEF TypeInv, TypeOK, Owned, WorkInv, SyncWaits, Agent
  <2> QED BY <2>1 DEF WorkInv, SyncWaits, orchestrators
<1>3. Counted'
  BY DEF WorkInv, Counted, orchestrators
<1> QED BY <1>1, <1>2, <1>3 DEF WorkInv

LEMMA TurnWorks ==
  ASSUME TypeInv, WorkInv, NEW s \in Session, NewTurn(s) \/ EndTurn(s)
  PROVE  WorkInv'
<1>1. UNCHANGED <<queue, running, cancelled, phase, owner, sync, call>>
  BY DEF NewTurn, EndTurn, checkpoints
<1>2. CallsWork'
  BY <1>1 DEF NewTurn, EndTurn, WorkInv, CallsWork, Works, TypeInv, TypeOK
<1> QED BY <1>1, <1>2 DEF WorkInv, SyncWaits, Counted

LEMMA SpawnWorks ==
  ASSUME TypeInv, WorkInv, NEW s \in Session, NEW b \in Sub, Spawn(s, b)
  PROVE  WorkInv'
<1>0. /\ phase \in [Sub -> Phases] /\ owner \in [Sub -> Session \union {None}]
      /\ running \in [Session -> SUBSET Sub] /\ cancelled \in [Session -> SUBSET Sub]
      /\ sync \subseteq Sub
  BY DEF TypeInv, TypeOK
<1>1. /\ phase[b] = "new" /\ UNCHANGED <<turn, cancelled, sync, call>>
      /\ owner' = [owner EXCEPT ![b] = s]
  BY DEF Spawn
<1>2. \A x \in Sub \ {b} : phase'[x] = phase[x] /\ owner'[x] = owner[x]
  BY <1>0, <1>1 DEF Spawn, Starts
<1>3. owner'[b] = s
  BY <1>0, <1>1
<1>4. \/ phase'[b] = "queued" /\ running' = running
      \/ phase'[b] = "working" /\ running' = [running EXCEPT ![s] = running[s] \union {b}]
  BY <1>0 DEF Spawn, Starts
<1>5. b \notin sync /\ \A x \in Session : b \notin running[x] \union cancelled[x]
  BY <1>1 DEF WorkInv, SyncWaits, Counted
<1>6. CallsWork'
  BY <1>0, <1>1, <1>2 DEF WorkInv, CallsWork, Works, Agent
<1>7. SyncWaits'
  BY <1>0, <1>1, <1>2, <1>5 DEF WorkInv, SyncWaits
<1>8. Counted'
  BY <1>0, <1>1, <1>2, <1>3, <1>4, <1>5 DEF WorkInv, Counted, TypeInv, Owned
<1> QED BY <1>6, <1>7, <1>8 DEF WorkInv

LEMMA DelegateWorks ==
  ASSUME TypeInv, WorkInv, NEW s \in Session, NEW b \in Sub, Delegate(s, b)
  PROVE  WorkInv'
<1>0. /\ phase \in [Sub -> Phases] /\ owner \in [Sub -> Session \union {None}]
      /\ sync \subseteq Sub /\ call \in [Agent -> Calls]
  BY DEF TypeInv, TypeOK, Calls
<1>1. /\ turn[s] /\ call[s].pc = "idle" /\ phase[b] = "new"
      /\ UNCHANGED <<turn, running, cancelled>> /\ sync' = sync \union {b}
      /\ owner' = [owner EXCEPT ![b] = s] /\ phase' = [phase EXCEPT ![b] = "working"]
      /\ call' = [call EXCEPT ![s].pc = "waiting"]
  BY DEF Delegate
<1>2. \A x \in Sub \ {b} : phase'[x] = phase[x] /\ owner'[x] = owner[x]
  BY <1>0, <1>1
<1>3. owner'[b] = s /\ phase'[b] = "working"
  BY <1>0, <1>1
<1>4. /\ call'[s].pc = "waiting"
      /\ \A x \in Agent \ {s} : call'[x] = call[x]
  BY <1>0, <1>1 DEF Agent, Calls
<1>5. b \notin sync /\ \A x \in Session : b \notin running[x] \union cancelled[x]
  BY <1>1 DEF WorkInv, SyncWaits, Counted
<1>6. CallsWork'
  BY <1>0, <1>1, <1>2, <1>3, <1>4 DEF WorkInv, CallsWork, Works, Agent
<1>7. SyncWaits'
  <2>1. \A x \in sync : owner[x] # s /\ owner[x] \in Agent
    BY <1>0, <1>1 DEF WorkInv, SyncWaits, TypeInv, Owned, Agent
  <2> QED BY <1>0, <1>1, <1>2, <1>3, <1>4, <1>5, <2>1 DEF WorkInv, SyncWaits
<1>8. Counted'
  BY <1>0, <1>1, <1>2, <1>3, <1>5 DEF WorkInv, Counted, TypeInv, Owned
<1> QED BY <1>6, <1>7, <1>8 DEF WorkInv

LEMMA CancelWorks ==
  ASSUME TypeInv, WorkInv, NEW b \in Sub, Cancel(b)
  PROVE  WorkInv'
<1> DEFINE s == owner[b]
<1>0. /\ running \in [Session -> SUBSET Sub] /\ cancelled \in [Session -> SUBSET Sub]
      /\ s \in Session /\ b \in running[s]
  BY DEF TypeInv, TypeOK, Cancel
<1>1. /\ UNCHANGED <<turn, phase, owner, sync, call>>
      /\ cancelled' = [cancelled EXCEPT ![s] = @ \union {b}]
      /\ running' = [running EXCEPT ![s] = @ \ {b}]
  BY DEF Cancel, checkpoints
<1>2. Counted'
  BY <1>0, <1>1 DEF WorkInv, Counted, TypeInv, Owned
<1> QED BY <1>1, <1>2 DEF WorkInv, CallsWork, Works, SyncWaits

LEMMA FinishWorks ==
  ASSUME TypeInv, WorkInv, NEW b \in Sub, Finish(b)
  PROVE  WorkInv'
<1> DEFINE s == owner[b]
           over == [phase EXCEPT ![b] = "ended"]
<1>0. /\ phase \in [Sub -> Phases] /\ owner \in [Sub -> Session \union {None}]
      /\ running \in [Session -> SUBSET Sub] /\ cancelled \in [Session -> SUBSET Sub]
      /\ sync \subseteq Sub /\ call \in [Agent -> Calls] /\ s \in Session
  BY DEF TypeInv, TypeOK, Calls, Owned, Finish
<1>1. /\ phase[b] = "working" /\ call[b].pc = "idle" /\ UNCHANGED <<turn, owner>>
  BY DEF Finish
<1>2. CASE /\ b \in sync
           /\ call' = [call EXCEPT ![s].pc = "idle"]
           /\ sync' = sync \ {b}
           /\ phase' = over
           /\ UNCHANGED <<queue, running, cancelled, marked, touched, alone, idled>>
  <2>1. call'[s].pc = "idle" /\ \A x \in Agent \ {s} : call'[x] = call[x]
    BY <1>0, <1>2 DEF Agent, Calls
  <2>2. phase'[b] = "ended" /\ \A x \in Sub \ {b} : phase'[x] = phase[x]
    BY <1>0, <1>2
  <2>3. CallsWork'
    BY <1>0, <1>1, <2>1, <2>2 DEF WorkInv, CallsWork, Works, Agent
  <2>4. SyncWaits'
    <3>1. \A x \in sync' : x \in sync /\ x # b /\ owner[x] # s /\ owner[x] \in Agent
      BY <1>0, <1>2 DEF WorkInv, SyncWaits, TypeInv, Owned, Agent
    <3> QED BY <1>0, <1>1, <2>1, <2>2, <3>1 DEF WorkInv, SyncWaits
  <2>5. Counted'
    BY <1>0, <1>1, <1>2, <2>2 DEF WorkInv, Counted
  <2> QED BY <2>3, <2>4, <2>5 DEF WorkInv
<1>3. CASE /\ b \in cancelled[s]
           /\ running' = [running EXCEPT ![s] = @ \ {b}]
           /\ cancelled' = [cancelled EXCEPT ![s] = @ \ {b}]
           /\ phase' = over
           /\ UNCHANGED <<queue, sync, marked, call, touched, alone, idled>>
  <2>1. b \notin sync
    BY <1>0, <1>3 DEF WorkInv, Counted
  <2>2. phase'[b] = "ended" /\ \A x \in Sub \ {b} : phase'[x] = phase[x]
    BY <1>0, <1>3
  <2>3. CallsWork'
    BY <1>0, <1>1, <1>3, <2>2 DEF WorkInv, CallsWork, Works, Agent
  <2>4. SyncWaits'
    BY <1>0, <1>1, <1>3, <2>1, <2>2 DEF WorkInv, SyncWaits
  <2>5. Counted'
    <3>1. \A x \in Session : running'[x] \subseteq running[x] /\ cancelled'[x] \subseteq cancelled[x]
      BY <1>0, <1>3
    <3>2. \A x \in Session : b \notin running'[x] \union cancelled'[x]
      BY <1>0, <1>3 DEF WorkInv, Counted
    <3>3. \A x \in Session : \A y \in Sub \ {b} :
             y \in running[x] \union cancelled[x] => y \in running'[x] \union cancelled'[x]
      BY <1>0, <1>3
    <3> QED BY <1>0, <1>1, <1>3, <2>2, <3>1, <3>2, <3>3 DEF WorkInv, Counted, TypeInv, Owned
  <2> QED BY <2>3, <2>4, <2>5 DEF WorkInv
<1>4. CASE /\ b \notin sync \union cancelled[s]
           /\ Starts(s, {queue[s][i] : i \in 1..Takes(s, b)}, over, running[s] \ {b})
           /\ UNCHANGED <<cancelled, sync, call>>
  <2> DEFINE n == Takes(s, b)
             T == {queue[s][i] : i \in 1..n}
  <2>1. \A x \in T : x \in Sub /\ phase[x] = "queued" /\ owner[x] = s
    <3>1. n \in 0..Len(queue[s]) /\ Len(queue[s]) \in Nat
      <4>1. queue[s] \in Seq(Sub)
        BY <1>0 DEF TypeInv, TypeOK
      <4>2. n \in 0..Len(queue[s])
        BY <1>0, TakesFits
      <4>3. Len(queue[s]) \in Nat
        BY <4>1
      <4> QED BY <4>2, <4>3
    <3>2. \A i \in 1..n : i \in 1..Len(queue[s])
      BY <3>1
    <3> QED BY <1>0, <3>2, QueueMembers
  <2>2. Starts(s, T, over, running[s] \ {b})
    BY <1>4
  <2> HIDE DEF T
  <2>3. /\ phase'[b] = "ended"
        /\ \A x \in T : phase'[x] = "working"
        /\ \A x \in Sub \ (T \union {b}) : phase'[x] = phase[x]
    BY <1>0, <1>1, <2>1, <2>2 DEF Starts
  <2>4. \A x \in Session : running'[x] = IF x = s THEN (running[s] \ {b}) \union T ELSE running[x]
    BY <1>0, <2>2 DEF Starts
  <2>5. CallsWork'
    BY <1>0, <1>1, <1>4, <2>1, <2>3 DEF WorkInv, CallsWork, Works, Agent
  <2>6. SyncWaits'
    <3>1. \A x \in sync : x \in Sub \ (T \union {b})
      BY <1>0, <1>4, <2>1 DEF WorkInv, SyncWaits
    <3> QED BY <1>1, <1>4, <2>3, <3>1 DEF WorkInv, SyncWaits
  <2>7. Counted'
    <3>1. \A x \in Session : T \intersect (running[x] \union cancelled[x]) = {}
      BY <2>1 DEF WorkInv, Counted
    <3>2. \A x \in Session : b \notin running'[x] \union cancelled'[x]
      BY <1>0, <1>1, <1>4, <2>1, <2>4 DEF WorkInv, Counted
    <3>3. T \intersect sync = {}
      BY <2>1 DEF WorkInv, SyncWaits
    <3>4. ASSUME NEW x \in Session, NEW y \in running'[x] \union cancelled'[x]
          PROVE  y \notin sync' /\ phase'[y] = "working" /\ owner'[y] = x
      BY <1>0, <1>1, <1>4, <2>1, <2>3, <2>4, <3>1, <3>2, <3>3 DEF WorkInv, Counted
    <3>5. ASSUME NEW y \in Sub \ sync', phase'[y] = "working"
          PROVE  y \in running'[owner'[y]] \union cancelled'[owner'[y]]
      <4>1. y # b
        BY <2>3, <3>5
      <4>2. CASE y \in T
        BY <1>0, <1>1, <2>1, <2>4, <4>2
      <4>3. CASE y \notin T
        <5>1. phase[y] = "working" /\ owner[y] \in Session /\ owner'[y] = owner[y] /\ y \notin sync
          BY <1>1, <1>4, <2>3, <3>5, <4>1, <4>3 DEF TypeInv, Owned
        <5>2. y \in running[owner[y]] \union cancelled[owner[y]]
          BY <5>1 DEF WorkInv, Counted
        <5> QED BY <1>4, <2>4, <4>1, <5>1, <5>2
      <4> QED BY <4>2, <4>3
    <3>6. \A x \in Session : running'[x] \intersect cancelled'[x] = {}
      BY <1>4, <2>4, <3>1 DEF WorkInv, Counted
    <3> QED BY <3>4, <3>5, <3>6 DEF Counted
  <2> QED BY <2>5, <2>6, <2>7 DEF WorkInv
<1> QED BY <1>2, <1>3, <1>4 DEF Finish

LEMMA CrashWorks == ASSUME TypeInv, Crash PROVE WorkInv'
  BY DEF Crash, TypeInv, TypeOK, WorkInv, CallsWork, SyncWaits, Counted, NoCall

LEMMA WorkStep == TypeInv /\ WorkInv /\ [Next]_vars => WorkInv'
<1> SUFFICES ASSUME TypeInv, WorkInv, [Next]_vars PROVE WorkInv'
  OBVIOUS
<1>0. call \in [Agent -> Calls]
  BY DEF TypeInv, TypeOK, Calls
<1>1. CASE \E s \in Session : NewTurn(s) \/ EndTurn(s)
  BY <1>1, TurnWorks
<1>2. CASE \E s \in Session, b \in Sub : Spawn(s, b) \/ Delegate(s, b)
  BY <1>2, SpawnWorks, DelegateWorks
<1>3. CASE \E b \in Sub : Cancel(b) \/ Finish(b)
  BY <1>3, CancelWorks, FinishWorks
<1>4. CASE \E a \in Agent, d \in Dir : BeginCall(a, d) \/ BareCall(a, d)
  <2>1. PICK a \in Agent, d \in Dir : BeginCall(a, d) \/ BareCall(a, d)
    BY <1>4
  <2>2. /\ Works(a) /\ call[a].pc # "waiting" /\ UNCHANGED orchestrators
        /\ \A x \in Agent \ {a} : call'[x] = call[x]
    BY <1>0, <2>1 DEF BeginCall, BareCall
  <2> QED BY <2>2, CallKeepsWork
<1>5. CASE \E a \in Agent : ToolStep(a)
  <2>1. PICK a \in Agent : ToolStep(a)
    BY <1>5
  <2>2. /\ call[a].pc \notin {"idle", "waiting"} /\ UNCHANGED orchestrators
        /\ \A x \in Agent \ {a} : call'[x] = call[x]
    BY <1>0, <2>1 DEF ToolStep, GitInit, Excluded, Execute
  <2>3. Works(a)
    BY <2>2 DEF WorkInv, CallsWork
  <2> QED BY <2>2, <2>3, CallKeepsWork
<1>6. CASE \E d \in Dir : \E c \in snaps[d] : Restore(d, c)
  BY <1>6 DEF Restore, WorkInv, CallsWork, Works, SyncWaits, Counted, orchestrators
<1>7. CASE Crash
  BY <1>7, CrashWorks
<1>8. CASE UNCHANGED vars
  BY <1>8 DEF WorkInv, CallsWork, Works, SyncWaits, Counted, vars, orchestrators, checkpoints
<1> QED BY <1>1, <1>2, <1>3, <1>4, <1>5, <1>6, <1>7, <1>8 DEF Next

\* The sub-agents at work in the background are those their orchestrator runs,
\* as many as it may, and those it has cancelled.
THEOREM SlotsKept == Spec => []SlotsAreRespected
<1>1. ASSUME TypeInv, WorkInv PROVE SlotsAreRespected
  <2> SUFFICES ASSUME NEW s \in Session
               PROVE  /\ Cardinality(running[s]) <= MaxConcurrent
                      /\ {b \in Sub \ sync : phase[b] = "working" /\ owner[b] = s}
                           = running[s] \union cancelled[s]
                      /\ running[s] \intersect cancelled[s] = {}
    BY DEF SlotsAreRespected
  <2>1. running[s] \in SUBSET Sub /\ cancelled[s] \in SUBSET Sub
    BY <1>1 DEF TypeInv, TypeOK
  <2> QED BY <1>1, <2>1 DEF TypeInv, Bounded, WorkInv, Counted
<1> QED BY <1>1, InitTypes, InitWork, TypeStep, WorkStep, PTL DEF Spec
-----------------------------------------------------------------------------
(* Undoing what an agent has done. *)

LEMMA InitUndo == Init => UndoInv
  BY DEF Init, UndoInv, NoOneElse, MarkInv, ExecInv

\* A turn of these agents begins, who have no call under way.
LEMMA ClearsUndo ==
  ASSUME TypeInv, UndoInv, NEW agents \in SUBSET Agent, Clears(agents),
         \A a \in agents : call[a].pc = "idle", UNCHANGED <<snaps, tree>>,
         \A a \in Agent : /\ call'[a].dir = call[a].dir
                          /\ call'[a].pc # call[a].pc =>
                               /\ call[a].pc \in {"idle", "waiting"}
                               /\ call'[a].pc \in {"idle", "waiting"}
  PROVE  UndoInv'
<1>0. alone \in [Agent -> SUBSET Dir] /\ touched \in [Agent -> SUBSET Dir]
  BY DEF TypeInv, TypeOK
<1>1. CASE agents = {}
  <2>1. alone' = alone /\ touched' = touched /\ marked' = marked
    BY <1>0, <1>1 DEF Clears
  <2> QED BY <2>1 DEF UndoInv, NoOneElse, MarkInv, ExecInv, Kept
<1>2. CASE agents # {}
  <2>1. \A a \in Agent : alone'[a] = IF a \in agents THEN Dir \ InUse(a) ELSE alone[a]
    BY DEF Clears
  <2>2. \A a \in Agent : touched'[a] = IF a \in agents THEN {} ELSE touched[a]
    BY DEF Clears
  <2>3. marked' = {}
    BY <1>2 DEF Clears
  <2>4. NoOneElse'
    <3>1. ASSUME NEW a \in Agent, NEW d \in Dir, d \in alone'[a], NEW x \in Agent \ {a}
          PROVE  call[x].dir # d
      <4>1. CASE a \in agents
        <5>1. d \notin InUse(a)
          BY <2>1, <3>1, <4>1
        <5> QED BY <5>1 DEF InUse
      <4>2. CASE a \notin agents
        <5>1. d \in alone[a]
          BY <2>1, <3>1, <4>2
        <5> QED BY <3>1, <5>1 DEF UndoInv, NoOneElse
      <4> QED BY <4>1, <4>2
    <3> QED BY <3>1 DEF NoOneElse
  <2>5. ExecInv'
    BY <2>1, <2>2 DEF UndoInv, ExecInv, Kept
  <2> QED BY <2>3, <2>4, <2>5 DEF UndoInv, MarkInv
<1> QED BY <1>1, <1>2

\* A snapshot of d: those it leaves d to can go back to what is there.
LEMMA SnapshotKeeps ==
  ASSUME TypeInv, NEW d \in Dir, NEW agents \in SUBSET Agent, Snapshot(d, agents)
  PROVE  /\ \A a \in Agent : alone'[a] \subseteq alone[a] /\ alone[a] \ {d} \subseteq alone'[a]
         /\ \A a \in agents : d \notin alone'[a]
         /\ \A x \in Dir \ {d} : snaps'[x] = snaps[x]
         /\ (\E a \in Agent : d \in alone'[a]) => tree[d] \in snaps'[d] \union {Nothing}
<1>0. alone \in [Agent -> SUBSET Dir] /\ snaps \in [Dir -> SUBSET Tree]
  BY DEF TypeInv, TypeOK
<1>1. \/ Shared(d, agents) /\ snaps' = [snaps EXCEPT ![d] =
                    IF @ = {} /\ tree[d] = Nothing THEN @ ELSE @ \union {tree[d]}]
      \/ Shared(d, Agent) /\ UNCHANGED snaps
  BY DEF Snapshot
<1>2. CASE Shared(d, agents) /\ snaps' = [snaps EXCEPT ![d] =
                    IF @ = {} /\ tree[d] = Nothing THEN @ ELSE @ \union {tree[d]}]
  BY <1>0, <1>2 DEF Shared
<1>3. CASE Shared(d, Agent) /\ UNCHANGED snaps
  BY <1>0, <1>3 DEF Shared
<1> QED BY <1>1, <1>2, <1>3

LEMMA BeginUndo ==
  ASSUME TypeInv, UndoInv, NEW a \in Agent, NEW d \in Dir, BeginCall(a, d)
  PROVE  UndoInv'
<1>0. /\ alone \in [Agent -> SUBSET Dir] /\ call \in [Agent -> Calls] /\ call[a].pc = "idle"
      /\ UNCHANGED <<tree, touched>> /\ marked' = marked \union {d}
  BY DEF TypeInv, TypeOK, Calls, BeginCall
<1>1. \A x \in Agent \ {a} : call'[x] = call[x]
  BY <1>0 DEF BeginCall
<1>2. /\ \A x \in Agent : alone'[x] \subseteq alone[x]
      /\ \A x \in Agent \ {a} : d \notin alone'[x]
      /\ \A x \in Dir \ {d} : snaps'[x] = snaps[x]
      /\ call'[a].dir = d
      /\ \/ call'[a].pc = "mkdir"
         \/ call'[a].pc = "executing" /\ d \in marked /\ UNCHANGED snaps
         \/ call'[a].pc = "executing" /\ (d \in alone'[a] => tree[d] \in snaps'[d] \union {Nothing})
  <2>1. CASE Snapshot(d, Agent \ {a}) /\ call' = [call EXCEPT ![a] = [pc |-> "executing", dir |-> d]]
    BY <1>0, <2>1, SnapshotKeeps
  <2>2. CASE /\ Shared(d, Agent \ {a}) /\ UNCHANGED snaps
             /\ \/ call' = [call EXCEPT ![a] = [pc |-> "mkdir", dir |-> d]]
                \/ d \in marked /\ call' = [call EXCEPT ![a] = [pc |-> "executing", dir |-> d]]
    <3>1. /\ \A x \in Agent : alone'[x] \subseteq alone[x]
          /\ \A x \in Agent \ {a} : d \notin alone'[x]
      BY <1>0, <2>2 DEF Shared
    <3>2. call'[a].dir = d /\ (call'[a].pc = "mkdir" \/ (call'[a].pc = "executing" /\ d \in marked))
      BY <1>0, <2>2
    <3> QED BY <2>2, <3>1, <3>2
  <2> QED BY <2>1, <2>2 DEF BeginCall
<1>3. NoOneElse'
  BY <1>1, <1>2 DEF UndoInv, NoOneElse
<1>4. \A x \in Agent, y \in Dir : y \in alone'[x] /\ (x # a \/ y # d) => y # d /\ y \in alone[x]
  BY <1>2 DEF UndoInv, NoOneElse
<1>5. d \in alone'[a] \ touched'[a] => (call'[a].pc = "mkdir" \/ Kept(d)')
  BY <1>0, <1>2 DEF UndoInv, MarkInv, Kept
<1>6. \A y \in Dir \ {d} : Kept(y) <=> Kept(y)'
  BY <1>0, <1>2 DEF Kept
<1>7. MarkInv'
  BY <1>0, <1>1, <1>2, <1>4, <1>5, <1>6 DEF UndoInv, MarkInv
<1>8. ExecInv'
  BY <1>0, <1>1, <1>2, <1>4, <1>5, <1>6 DEF UndoInv, ExecInv
<1> QED BY <1>3, <1>7, <1>8 DEF UndoInv

LEMMA BareUndo ==
  ASSUME TypeInv, UndoInv, NEW a \in Agent, NEW d \in Dir, BareCall(a, d)
  PROVE  UndoInv'
<1>0. /\ alone \in [Agent -> SUBSET Dir] /\ call \in [Agent -> Calls]
      /\ call[a].pc = "idle" /\ UNCHANGED <<tree, touched, snaps, marked>>
  BY DEF TypeInv, TypeOK, Calls, BareCall
<1>1. /\ \A x \in Agent \ {a} : call'[x] = call[x]
      /\ call'[a].pc = "bare" /\ call'[a].dir = d
  BY <1>0 DEF BareCall
<1>2. /\ \A x \in Agent : alone'[x] \subseteq alone[x]
      /\ \A x \in Agent \ {a} : d \notin alone'[x]
  BY <1>0 DEF BareCall, Shared
<1>3. NoOneElse'
  BY <1>1, <1>2 DEF UndoInv, NoOneElse
<1>4. MarkInv'
  BY <1>0, <1>1, <1>2 DEF UndoInv, MarkInv, Kept
<1>5. ExecInv'
  BY <1>0, <1>1, <1>2 DEF UndoInv, ExecInv, Kept
<1> QED BY <1>3, <1>4, <1>5 DEF UndoInv

LEMMA GitUndo ==
  ASSUME TypeInv, UndoInv, NEW a \in Agent, GitInit(a) \/ Excluded(a)
  PROVE  UndoInv'
<1> DEFINE d == call[a].dir
<1>0. /\ alone \in [Agent -> SUBSET Dir] /\ call \in [Agent -> Calls] /\ d \in Dir
      /\ call[a].pc \in {"mkdir", "excluding"} /\ UNCHANGED <<tree, touched, marked>>
  BY DEF TypeInv, TypeOK, InDirs, Calls, GitInit, Excluded, history
<1>1. /\ \A x \in Agent \ {a} : call'[x] = call[x]
      /\ call'[a].dir = d
  BY <1>0 DEF GitInit, Excluded, Calls
<1>2. CASE GitInit(a)
  <2>1. UNCHANGED <<snaps, alone>> /\ call'[a].pc = "excluding"
    BY <1>0, <1>2 DEF GitInit, Calls, history
  <2> QED BY <1>0, <1>1, <2>1 DEF UndoInv, NoOneElse, MarkInv, ExecInv, Kept
<1>3. CASE Excluded(a)
  <2>1. /\ \A x \in Agent : alone'[x] \subseteq alone[x]
        /\ \A x \in Dir \ {d} : snaps'[x] = snaps[x]
        /\ (\E x \in Agent : d \in alone'[x]) => tree[d] \in snaps'[d] \union {Nothing}
    BY <1>0, <1>3, SnapshotKeeps DEF Excluded
  <2> HIDE DEF d
  <2>2. NoOneElse'
    BY <1>0, <1>1, <2>1 DEF UndoInv, NoOneElse, d
  <2>3. MarkInv'
    BY <1>0, <1>1, <2>1 DEF UndoInv, MarkInv, Kept, d
  <2>4. ExecInv'
    BY <1>0, <1>1, <2>1 DEF UndoInv, ExecInv, Kept, d
  <2> QED BY <2>2, <2>3, <2>4 DEF UndoInv
<1> QED BY <1>2, <1>3

LEMMA ExecuteUndo ==
  ASSUME TypeInv, UndoInv, NEW a \in Agent, Execute(a)
  PROVE  UndoInv'
<1> DEFINE d == call[a].dir
<1>0. /\ touched \in [Agent -> SUBSET Dir] /\ tree \in [Dir -> Tree] /\ call \in [Agent -> Calls]
      /\ d \in Dir /\ call[a].pc \in {"executing", "bare"} /\ UNCHANGED <<marked, snaps, alone>>
  BY DEF TypeInv, TypeOK, InDirs, Calls, Execute
<1>1. /\ \A x \in Agent \ {a} : call'[x] = call[x] /\ touched'[x] = touched[x]
      /\ call'[a].dir = None /\ call'[a].pc = "idle"
      /\ touched[a] \subseteq touched'[a]
  BY <1>0 DEF Execute, NoCall
<1>2. (\A x \in Dir \ {d} : tree'[x] = tree[x]) /\ (tree' = tree \/ d \in touched'[a])
  BY <1>0 DEF Execute
<1> HIDE DEF d
<1>3. \A x \in Agent \ {a} : d \notin alone[x]
  BY <1>0 DEF UndoInv, NoOneElse, d
<1>4. NoOneElse'
  BY <1>0, <1>1, ToolsAssumption DEF UndoInv, NoOneElse
<1>5. MarkInv'
  <2> SUFFICES ASSUME NEW x \in Agent, NEW y \in Dir, y \in marked', y \in alone'[x] \ touched'[x]
               PROVE  Kept(y)' \/ (call'[x].dir = y /\ call'[x].pc \in {"mkdir", "excluding"})
    BY DEF MarkInv
  <2>1. CASE x # a
    BY <1>0, <1>1, <1>2, <1>3, <2>1 DEF UndoInv, MarkInv, Kept
  <2>2. CASE x = a
    <3>1. Kept(y)
      BY <1>0, <1>1, <2>2 DEF UndoInv, MarkInv
    <3>2. tree'[y] = tree[y]
      BY <1>2, <2>2
    <3> QED BY <1>0, <3>1, <3>2 DEF Kept
  <2> QED BY <2>1, <2>2
<1>6. ExecInv'
  BY <1>0, <1>1, <1>2, <1>3 DEF UndoInv, ExecInv, Kept
<1> QED BY <1>4, <1>5, <1>6 DEF UndoInv

LEMMA RestoreUndo ==
  ASSUME TypeInv, UndoInv, NEW d \in Dir, NEW c \in snaps[d], Restore(d, c)
  PROVE  UndoInv'
<1>0. tree \in [Dir -> Tree] /\ UNCHANGED <<marked, call, touched>>
  BY DEF TypeInv, TypeOK, Restore
<1>1. /\ \A x \in Agent : alone'[x] \subseteq alone[x] /\ d \notin alone'[x]
      /\ \A x \in Dir \ {d} : snaps'[x] = snaps[x]
  BY SnapshotKeeps DEF Restore
<1>2. \A x \in Dir \ {d} : tree'[x] = tree[x]
  BY <1>0 DEF Restore
<1> QED BY <1>0, <1>1, <1>2 DEF UndoInv, NoOneElse, MarkInv, ExecInv, Kept

LEMMA UndoStep == TypeInv /\ WorkInv /\ UndoInv /\ [Next]_vars => UndoInv'
<1> SUFFICES ASSUME TypeInv, WorkInv, UndoInv, [Next]_vars PROVE UndoInv'
  OBVIOUS
<1>0. call \in [Agent -> Calls] /\ Session \subseteq Agent /\ Sub \subseteq Agent
  BY DEF TypeInv, TypeOK, Calls, Agent
<1>i. \A a \in Agent : ~Works(a) => call[a].pc = "idle"
  BY DEF WorkInv, CallsWork
<1>j. \A b \in Sub : phase[b] # "working" => call[b].pc = "idle"
  BY <1>0, <1>i, ToolsAssumption DEF Works
<1>1. CASE \E s \in Session : NewTurn(s) \/ EndTurn(s)
  <2>1. PICK s \in Session : NewTurn(s) \/ EndTurn(s)
    BY <1>1
  <2>2. CASE EndTurn(s)
    BY <2>2 DEF EndTurn, checkpoints, history, UndoInv, NoOneElse, MarkInv, ExecInv, Kept
  <2>3. CASE NewTurn(s)
    <3>1. /\ {s} \in SUBSET Agent /\ Clears({s}) /\ \A a \in {s} : call[a].pc = "idle"
          /\ UNCHANGED <<snaps, tree, call>>
      BY <1>0, <1>i, <2>3 DEF NewTurn, Works
    <3> QED BY <3>1, ClearsUndo
  <2> QED BY <2>1, <2>2, <2>3
<1>2. CASE \E s \in Session, b \in Sub : Spawn(s, b) \/ Delegate(s, b)
  <2>1. PICK s \in Session, b \in Sub : Spawn(s, b) \/ Delegate(s, b)
    BY <1>2
  <2>2. /\ {b} \in SUBSET Agent /\ (\A a \in {b} : call[a].pc = "idle") /\ UNCHANGED <<snaps, tree>>
        /\ phase[b] = "new"
    BY <1>0, <1>j, <2>1 DEF Spawn, Delegate
  <2>3. CASE Spawn(s, b) /\ UNCHANGED <<marked, touched, alone>>
    BY <2>3 DEF Spawn, UndoInv, NoOneElse, MarkInv, ExecInv, Kept
  <2>4. CASE Spawn(s, b) /\ Clears({b})
    BY <2>2, <2>4, ClearsUndo DEF Spawn
  <2>5. CASE Delegate(s, b)
    <3>1. /\ call[s].pc = "idle" /\ call'[s].pc = "waiting" /\ call'[s].dir = call[s].dir
          /\ \A x \in Agent \ {s} : call'[x] = call[x]
      BY <1>0, <2>5 DEF Delegate, Calls
    <3> QED BY <2>2, <2>5, <3>1, ClearsUndo DEF Delegate
  <2> QED BY <2>1, <2>3, <2>4, <2>5 DEF Spawn, Starts
<1>3. CASE \E b \in Sub : Cancel(b)
  BY <1>3 DEF Cancel, checkpoints, UndoInv, NoOneElse, MarkInv, ExecInv, Kept
<1>4. CASE \E b \in Sub : Finish(b)
  <2>1. PICK b \in Sub : Finish(b)
    BY <1>4
  <2> DEFINE s == owner[b]
  <2>2. s \in Session /\ UNCHANGED <<snaps, tree>>
    BY <2>1 DEF TypeInv, Owned, Finish
  <2>3. CASE b \in sync /\ call' = [call EXCEPT ![s].pc = "idle"] /\ UNCHANGED <<marked, touched, alone>>
    <3>1. /\ call[s].pc = "waiting" /\ call'[s].pc = "idle" /\ call'[s].dir = call[s].dir
          /\ \A x \in Agent \ {s} : call'[x] = call[x]
      BY <1>0, <2>2, <2>3 DEF WorkInv, SyncWaits, Calls
    <3> QED BY <1>0, <2>2, <2>3, <3>1 DEF UndoInv, NoOneElse, MarkInv, ExecInv, Kept
  <2>4. CASE UNCHANGED <<marked, call, touched, alone>>
    BY <2>2, <2>4 DEF UndoInv, NoOneElse, MarkInv, ExecInv, Kept
  <2>5. CASE Clears({queue[s][i] : i \in 1..Takes(s, b)}) /\ UNCHANGED call
    <3> DEFINE T == {queue[s][i] : i \in 1..Takes(s, b)}
    <3>1. \A x \in T : x \in Agent /\ call[x].pc = "idle"
      <4>1. Takes(s, b) \in 0..Len(queue[s])
        BY <2>2, TakesFits
      <4>2. Len(queue[s]) \in Nat
        BY <2>2 DEF TypeInv, TypeOK
      <4>3. \A i \in 1..Takes(s, b) : i \in 1..Len(queue[s])
        BY <4>1, <4>2
      <4> QED BY <1>0, <1>j, <2>2, <4>3, QueueMembers
    <3>2. T \in SUBSET Agent /\ Clears(T)
      BY <2>5, <3>1
    <3> HIDE DEF T
    <3> QED BY <2>2, <2>5, <3>1, <3>2, ClearsUndo
  <2> QED BY <2>1, <2>3, <2>4, <2>5 DEF Finish, Starts
<1>5. CASE \E a \in Agent, d \in Dir : BeginCall(a, d) \/ BareCall(a, d)
  BY <1>5, BeginUndo, BareUndo
<1>6. CASE \E a \in Agent : ToolStep(a)
  BY <1>6, GitUndo, ExecuteUndo DEF ToolStep
<1>7. CASE \E d \in Dir : \E c \in snaps[d] : Restore(d, c)
  BY <1>7, RestoreUndo
<1>8. CASE Crash
  BY <1>8 DEF Crash, UndoInv, NoOneElse, MarkInv, ExecInv
<1>9. CASE UNCHANGED vars
  BY <1>9 DEF vars, checkpoints, history, UndoInv, NoOneElse, MarkInv, ExecInv, Kept
<1> QED BY <1>1, <1>2, <1>3, <1>4, <1>5, <1>6, <1>7, <1>8, <1>9 DEF Next
\* What an agent's tool that names the directory to the checkpoints is the first
\* of its turn to change there, no other agent using it, can be restored.
THEOREM UndoPossible == Spec => UndoIsPossible
<1>1. ASSUME TypeInv, UndoInv, [Next]_vars
      PROVE  [\A a \in Agent, d \in Dir :
                /\ d \in touched'[a] \ touched[a] /\ call[a].pc # "bare"
                /\ d \in alone[a]
                => tree[d] \in snaps[d] \union {Nothing}]_vars
  <2> SUFFICES ASSUME NEW a \in Agent, NEW d \in Dir, d \in touched'[a] \ touched[a],
                      call[a].pc # "bare", d \in alone[a]
               PROVE  tree[d] \in snaps[d] \union {Nothing}
    OBVIOUS
  <2>0. touched \in [Agent -> SUBSET Dir]
    BY <1>1 DEF TypeInv, TypeOK
  <2>1. CASE \E x \in Agent : Execute(x)
    <3>1. PICK x \in Agent : Execute(x)
      BY <2>1
    <3>2. x = a /\ call[a].pc = "executing" /\ call[a].dir = d
      BY <2>0, <3>1 DEF Execute
    <3> QED BY <1>1, <3>2 DEF UndoInv, ExecInv, Kept
  <2>2. CASE ~\E x \in Agent : Execute(x)
    <3>1. \A agents : Clears(agents) => touched'[a] \subseteq touched[a]
      BY DEF Clears
    <3>2. touched'[a] \subseteq touched[a]
      BY <1>1, <2>2, <3>1
      DEF Next, NewTurn, EndTurn, Spawn, Starts, Delegate, Cancel, Finish, BeginCall, BareCall, ToolStep, GitInit,
          Excluded, Restore, Crash, history, vars
    <3> QED BY <3>2
  <2> QED BY <2>1, <2>2
<1> QED BY <1>1, InitTypes, InitWork, InitUndo, TypeStep, WorkStep, UndoStep, PTL DEF Spec, UndoIsPossible

-----------------------------------------------------------------------------
(* What is to be excluded. *)

LEMMA HalfStep == TypeInv /\ WorkInv /\ HalfInv /\ [Next]_vars => HalfInv'
<1> SUFFICES ASSUME TypeInv, WorkInv, HalfInv, [Next]_vars, NEW d \in Dir, repo'[d] = "begun"
             PROVE  d \in torn' \/ \E a \in Agent : call'[a].dir = d /\ call'[a].pc = "excluding"
  BY DEF HalfInv
<1>0. call \in [Agent -> Calls] /\ repo \in [Dir -> {"none", "begun", "ready"}]
  BY DEF TypeInv, TypeOK, Calls
<1>1. CASE /\ UNCHANGED repo /\ torn \subseteq torn'
           /\ \A a \in Agent : call[a].pc = "excluding" => call'[a] = call[a]
  BY <1>1 DEF HalfInv
<1>2. CASE \E a \in Agent : GitInit(a)
  <2>1. PICK a \in Agent : GitInit(a)
    BY <1>2
  <2>2. /\ call'[a].dir = call[a].dir /\ call'[a].pc = "excluding" /\ torn' = torn
        /\ \A x \in Agent \ {a} : call'[x] = call[x]
        /\ call[a].dir # d => repo'[d] = repo[d]
        /\ call[a].pc = "mkdir"
    BY <1>0, <2>1 DEF GitInit, Calls, history
  <2> QED BY <2>2 DEF HalfInv
<1>3. CASE \E a \in Agent : Excluded(a)
  <2>1. PICK a \in Agent : Excluded(a)
    BY <1>3
  <2>2. /\ torn' = torn /\ \A x \in Agent \ {a} : call'[x] = call[x]
        /\ call[a].dir # d /\ repo'[d] = repo[d]
    BY <1>0, <2>1 DEF Excluded, TypeInv, InDirs
  <2> QED BY <2>2 DEF HalfInv
<1>4. CASE Crash
  BY <1>4 DEF Crash
<1>5. CASE \E s \in Session : NewTurn(s) \/ EndTurn(s)
  BY <1>1, <1>5 DEF NewTurn, EndTurn, checkpoints, history
<1>6. CASE \E s \in Session, b \in Sub : Spawn(s, b) \/ Delegate(s, b)
  <2>1. UNCHANGED <<repo, torn>> /\ \A a \in Agent : call[a].pc = "excluding" => call'[a] = call[a]
    BY <1>0, <1>6 DEF Spawn, Delegate
  <2> QED BY <1>1, <2>1
<1>7. CASE \E b \in Sub : Cancel(b)
  BY <1>1, <1>7 DEF Cancel, checkpoints
<1>8. CASE \E b \in Sub : Finish(b)
  <2>1. PICK b \in Sub : Finish(b)
    BY <1>8
  <2>2. b \in sync => call[owner[b]].pc = "waiting"
    BY DEF WorkInv, SyncWaits
  <2>3. UNCHANGED <<repo, torn>> /\ \A a \in Agent : call[a].pc = "excluding" => call'[a] = call[a]
    BY <1>0, <2>1, <2>2 DEF Finish
  <2> QED BY <1>1, <2>3
<1>9. CASE \E a \in Agent, x \in Dir : BeginCall(a, x) \/ BareCall(a, x)
  <2>1. UNCHANGED repo /\ torn \subseteq torn' /\ \A a \in Agent : call[a].pc = "excluding" => call'[a] = call[a]
    BY <1>0, <1>9 DEF BeginCall, BareCall
  <2> QED BY <1>1, <2>1
<1>10. CASE \E a \in Agent : Execute(a)
  <2>1. UNCHANGED <<repo, torn>> /\ \A a \in Agent : call[a].pc = "excluding" => call'[a] = call[a]
    BY <1>0, <1>10 DEF Execute
  <2> QED BY <1>1, <2>1
<1>11. CASE \E x \in Dir : \E c \in snaps[x] : Restore(x, c)
  BY <1>1, <1>11 DEF Restore
<1>12. CASE UNCHANGED vars
  BY <1>1, <1>12 DEF vars, checkpoints, history
<1> QED BY <1>2, <1>3, <1>4, <1>5, <1>6, <1>7, <1>8, <1>9, <1>10, <1>11, <1>12 DEF Next, ToolStep

\* A snapshot is taken of a repository with its excludes, or of one that a crash
\* or another agent's haste has left without.
THEOREM ExcludesKept == Spec => ExcludesAreRespected
<1>1. Init => HalfInv
  BY DEF Init, HalfInv
<1>2. ASSUME TypeInv, HalfInv, [Next]_vars
      PROVE  [\A d \in Dir : snaps'[d] # snaps[d] /\ repo'[d] # "ready" => d \in torn']_vars
  <2> SUFFICES ASSUME NEW d \in Dir, snaps'[d] # snaps[d], repo'[d] # "ready"
               PROVE  d \in torn'
    OBVIOUS
  <2>0. snaps \in [Dir -> SUBSET Tree] /\ repo \in [Dir -> {"none", "begun", "ready"}]
    BY <1>2 DEF TypeInv, TypeOK
  <2>1. \A x \in Dir : \A agents : Snapshot(x, agents) => x = d \/ snaps'[d] = snaps[d]
    BY <2>0 DEF Snapshot
  <2>2. CASE \E a \in Agent, x \in Dir : BeginCall(a, x)
    <3>1. PICK a \in Agent, x \in Dir : BeginCall(a, x)
      BY <2>2
    <3>2. x = d /\ repo[d] \notin {"none", "ready"}
      BY <2>1, <3>1 DEF BeginCall
    <3>3. d \in torn \/ Preparing(d)
      BY <1>2, <2>0, <3>2 DEF HalfInv, Preparing
    <3> QED BY <3>1, <3>2, <3>3 DEF BeginCall
  <2>3. CASE \E a \in Agent : Excluded(a)
    BY <1>2, <2>0, <2>1, <2>3 DEF Excluded, TypeInv, InDirs
  <2>4. CASE \E x \in Dir : \E c \in snaps[x] : Restore(x, c)
    <3>1. PICK x \in Dir : \E c \in snaps[x] : Restore(x, c)
      BY <2>4
    <3>2. x = d /\ repo[d] \notin {"none", "ready"}
      BY <2>1, <3>1 DEF Restore
    <3>3. d \in torn \/ Preparing(d)
      BY <1>2, <2>0, <3>2 DEF HalfInv, Preparing
    <3> QED BY <3>1, <3>2, <3>3 DEF Restore
  <2> QED BY <1>2, <2>2, <2>3, <2>4
      DEF Next, NewTurn, EndTurn, Spawn, Starts, Delegate, Cancel, Finish, BareCall, ToolStep, GitInit,
          Execute, Crash, checkpoints, vars
<1> QED BY <1>1, <1>2, InitTypes, InitWork, TypeStep, WorkStep, HalfStep, PTL DEF Spec, ExcludesAreRespected
=============================================================================
