-------------------------- MODULE ConnectorProofs --------------------------
(* Proofs about Connectors, for any number of messages, pieces of text and  *)
(* sizes of the platform's messages.                                        *)
EXTENDS ConnectorProperties, SequenceTheorems, TLAPS

Requests == [kind: Asks \union {"none"}, post: {"none", "sending", "seen", "posted", "lost"}]
Replies  == [fullText: 0..MaxText, editLock: Seq({"edit", "final"}),
             flight: {"none", "edit", "final", "extra"}, upTo: 0..MaxText,
             sentMsg: BOOLEAN, posts: Nat, unheard: Nat, shown: 0..ChunkSize,
             extras: Nat, failed: BOOLEAN]
Runners  == [pc: {"down", "poll", "saving", "batch", "command", "opening", "turn", "sending"},
             batch: Seq(Message), cursor: 0..Len(log)]

\* A message is on the thread or in the account's log, once it is written.
Logged(m) == \E i \in 1..Len(log) : log[i] = m

OnePlace ==
  /\ \A m \in Message : Logged(m) => said[m].kind # "none" /\ ~OnThread(m)
  /\ \A m \in Message : OnThread(m) => said[m].kind # "none"
  /\ \A i \in 1..Len(runner.batch) : Logged(runner.batch[i])

\* The runner is at a message of its batch.
AtMessage == {"batch", "command", "opening", "turn", "sending"}
AtWork    == runner.pc \in AtMessage => runner.batch # <<>>

\* A message of the thread starts its turn when it has been taken, and only then.
TurnsStart ==
  \A m \in Message :
    said[m].kind = "none" \/ at[m] \in {"sent", "answering", "opening", "stopping"} => turn[m] = "none"

TypeInv == TypeOK /\ OnePlace /\ AtWork /\ TurnsStart
-----------------------------------------------------------------------------
(* Replies. *)

\* Writes are under way one at a time, the last of them when the turn is done.
Writing(r) ==
  /\ r.flight = "none" => r.editLock = <<>>
  /\ r.posts = IF r.sentMsg THEN r.unheard + 1 ELSE r.unheard
  /\ r.upTo <= r.fullText

Before(r) ==
  /\ r.flight \in {"none", "edit"} /\ r.extras = 0 /\ ~r.failed
  /\ \A i \in 1..Len(r.editLock) : r.editLock[i] = "edit"

Whole(r) ==
  r.failed \/ (r.posts = 1 + r.unheard /\ r.shown = Least(r.fullText, ChunkSize))

After(r) ==
  \/ /\ r.flight = "edit" /\ r.extras = 0 /\ ~r.failed
     /\ Len(r.editLock) > 0
     /\ \A i \in 1..Len(r.editLock) : r.editLock[i] = "final" <=> i = Len(r.editLock)
  \/ /\ r.flight = "final" /\ r.editLock = <<>> /\ r.upTo = r.fullText /\ r.extras = 0 /\ ~r.failed
  \/ /\ r.flight = "extra" /\ r.editLock = <<>> /\ r.upTo = r.fullText /\ Whole(r)
     /\ r.extras < Extras(r.fullText)
  \/ /\ r.flight = "none" /\ r.editLock = <<>> /\ Whole(r)
     /\ r.failed \/ r.extras = Extras(r.fullText)

ReplyInv ==
  \A m \in Message :
    /\ ~OnThread(m) => reply[m] = NoReply
    /\ Writing(reply[m])
    /\ IF turn[m] = "done" /\ reply[m].fullText > 0 THEN After(reply[m]) ELSE Before(reply[m])

-----------------------------------------------------------------------------
(* Questions. *)

\* A question that a text can answer has been pending.
Pended(q) == request[q].kind = "free" \/ (request[q].kind = "choice" /\ request[q].post = "posted")

QuestionInv ==
  \A q \in Message :
    /\ Pended(q) <=> (q \in overtaken \/ taken[q] > 0 \/ Question = q)
    /\ Question = q => taken[q] = 0
    /\ taken[q] <= 1

-----------------------------------------------------------------------------
(* The runner. *)

LogInv ==
  /\ \A i, j \in 1..Len(log) : log[i] = log[j] => i = j
  /\ \A m \in Message : said[m].kind = "none" => handled[m] = 0

\* The message the runner is at has been counted.
Counted(i) == i = 1 /\ runner.pc \in {"command", "opening", "turn", "sending"}

RunnerInv ==
  /\ runner.pc = "down" => runner.batch = <<>>
  /\ runner.pc = "poll" => runner.batch = <<>>
  /\ runner.pc # "down" => saved <= runner.cursor
  /\ \A m \in Message : handled[m] <= 1
  /\ \A k \in 1..Len(log) : k > saved => handled[log[k]] = 0
  /\ \A i, j \in 1..Len(runner.batch) : runner.batch[i] = runner.batch[j] => i = j
  /\ \A i \in 1..Len(runner.batch) :
       /\ handled[runner.batch[i]] = 0 \/ Counted(i)
       /\ \E k \in 1..Len(log) :
            /\ log[k] = runner.batch[i]
            /\ IF runner.pc = "saving" THEN saved < k /\ k <= runner.cursor ELSE k <= saved

HandledInv == "reset" \notin lapse => RunnerInv
-----------------------------------------------------------------------------
(* Replies, whatever happens to them. *)

LEMMA NoReplyIsReply == NoReply \in Replies /\ Writing(NoReply) /\ Before(NoReply)
  BY ConnectorAssumption, EmptySeq DEF NoReply, Replies, Writing, Before

\* The tail of what waits for its turn.
LEMMA TailOf ==
  ASSUME NEW S, NEW q \in Seq(S), q # <<>>
  PROVE  /\ Head(q) \in S /\ Head(q) = q[1] /\ Tail(q) \in Seq(S)
         /\ Len(q) \in Nat \ {0} /\ Len(Tail(q)) = Len(q) - 1
         /\ \A i \in 1..Len(q) - 1 : Tail(q)[i] = q[i + 1]
  BY HeadTailProperties

LEMMA BegunFields ==
  ASSUME NEW r \in Replies
  PROVE  /\ Begun(r) \in Replies
         /\ Begun(r).fullText = r.fullText /\ Begun(r).sentMsg = r.sentMsg /\ Begun(r).posts = r.posts
         /\ Begun(r).unheard = r.unheard /\ Begun(r).shown = r.shown /\ Begun(r).extras = r.extras /\ Begun(r).failed = r.failed
         /\ IF r.flight = "none" /\ r.editLock # <<>>
              THEN /\ Begun(r).flight = Head(r.editLock) /\ Begun(r).editLock = Tail(r.editLock)
                   /\ Begun(r).upTo = r.fullText
              ELSE Begun(r) = r
<1>1. r.editLock \in Seq({"edit", "final"})
  BY DEF Replies
<1>2. CASE r.flight = "none" /\ r.editLock # <<>>
  <2>1. Head(r.editLock) \in {"edit", "final"} /\ Tail(r.editLock) \in Seq({"edit", "final"})
    BY <1>1, <1>2, TailOf
  <2>2. Begun(r) = [r EXCEPT !.flight = Head(r.editLock), !.editLock = Tail(r.editLock), !.upTo = r.fullText]
    BY <1>2 DEF Begun
  <2> DEFINE h == Head(r.editLock)
             t == Tail(r.editLock)
  <2> HIDE DEF h, t
  <2>3. h \in {"edit", "final"} /\ t \in Seq({"edit", "final"})
    BY <2>1 DEF h, t
  <2>4. Begun(r) = [r EXCEPT !.flight = h, !.editLock = t, !.upTo = r.fullText]
    BY <2>2 DEF h, t
  <2>5. /\ Begun(r) \in Replies
        /\ Begun(r).fullText = r.fullText /\ Begun(r).sentMsg = r.sentMsg /\ Begun(r).posts = r.posts
        /\ Begun(r).unheard = r.unheard /\ Begun(r).shown = r.shown /\ Begun(r).extras = r.extras /\ Begun(r).failed = r.failed
        /\ Begun(r).flight = h /\ Begun(r).editLock = t /\ Begun(r).upTo = r.fullText
    BY <2>3, <2>4 DEF Replies
  <2> QED BY <1>2, <2>5 DEF h, t
<1>3. CASE ~(r.flight = "none" /\ r.editLock # <<>>)
  <2>1. Begun(r) = r
    BY <1>3 DEF Begun
  <2> QED BY <1>3, <2>1
<1> QED BY <1>2, <1>3

LEMMA LeastIsLeast ==
  ASSUME NEW a \in Nat, NEW b \in Nat
  PROVE  Least(a, b) \in 0..b /\ Least(a, b) \in 0..a
  BY DEF Least

\* How an answer changes when a write ends.
LEMMA IdleFields ==
  ASSUME NEW r \in Replies
  PROVE  /\ Idle(r) \in Replies /\ Idle(r).flight = "none" /\ Idle(r).upTo = 0
         /\ Idle(r).fullText = r.fullText /\ Idle(r).editLock = r.editLock /\ Idle(r).sentMsg = r.sentMsg
         /\ Idle(r).posts = r.posts /\ Idle(r).shown = r.shown /\ Idle(r).extras = r.extras
         /\ Idle(r).failed = r.failed /\ Idle(r).unheard = r.unheard
<1>1. 0 \in 0..MaxText
  BY ConnectorAssumption
<1>2. Idle(r) = [r EXCEPT !.flight = "none", !.upTo = 0]
  BY DEF Idle
<1> QED BY <1>1, <1>2 DEF Replies

LEMMA WroteFields ==
  ASSUME NEW r \in Replies
  PROVE  /\ Wrote(r) \in Replies /\ Wrote(r).sentMsg = TRUE /\ Wrote(r).shown = Least(r.upTo, ChunkSize)
         /\ Wrote(r).posts = IF r.sentMsg THEN r.posts ELSE r.posts + 1
         /\ Wrote(r).fullText = r.fullText /\ Wrote(r).editLock = r.editLock /\ Wrote(r).flight = r.flight
         /\ Wrote(r).upTo = r.upTo /\ Wrote(r).extras = r.extras /\ Wrote(r).failed = r.failed /\ Wrote(r).unheard = r.unheard
<1> DEFINE l == Least(r.upTo, ChunkSize)
           p == IF r.sentMsg THEN r.posts ELSE r.posts + 1
<1>1. r.upTo \in Nat /\ ChunkSize \in Nat /\ r.posts \in Nat
  BY ConnectorAssumption DEF Replies
<1>2. l \in 0..ChunkSize /\ p \in Nat
  <2>1. l \in 0..ChunkSize
    BY <1>1, LeastIsLeast
  <2>2. p \in Nat
    BY <1>1
  <2> QED BY <2>1, <2>2
<1>3. Wrote(r) = [r EXCEPT !.sentMsg = TRUE, !.posts = p, !.shown = l]
  BY DEF Wrote
<1> HIDE DEF l, p
<1>4. /\ Wrote(r) \in Replies /\ Wrote(r).sentMsg = TRUE /\ Wrote(r).shown = l /\ Wrote(r).posts = p
      /\ Wrote(r).fullText = r.fullText /\ Wrote(r).editLock = r.editLock /\ Wrote(r).flight = r.flight
      /\ Wrote(r).upTo = r.upTo /\ Wrote(r).extras = r.extras /\ Wrote(r).failed = r.failed /\ Wrote(r).unheard = r.unheard
  BY <1>2, <1>3 DEF Replies
<1> QED BY <1>4 DEF l, p

LEMMA FollowFields ==
  ASSUME NEW r \in Replies
  PROVE  /\ Follow(r) \in Replies
         /\ \/ Follow(r).flight = "none" /\ Follow(r).upTo = 0 /\ ~(r.extras < Extras(r.upTo))
            \/ Follow(r).flight = "extra" /\ Follow(r).upTo = r.upTo /\ r.extras < Extras(r.upTo)
         /\ Follow(r).fullText = r.fullText /\ Follow(r).editLock = r.editLock /\ Follow(r).sentMsg = r.sentMsg
         /\ Follow(r).posts = r.posts /\ Follow(r).shown = r.shown /\ Follow(r).extras = r.extras
         /\ Follow(r).failed = r.failed /\ Follow(r).unheard = r.unheard
<1>1. CASE r.extras < Extras(r.upTo)
  BY <1>1 DEF Follow, Replies
<1>2. CASE ~(r.extras < Extras(r.upTo))
  BY <1>2, IdleFields DEF Follow
<1> QED BY <1>1, <1>2

LEMMA FailedFields ==
  ASSUME NEW r \in Replies
  PROVE  LET e == [r EXCEPT !.failed = TRUE]
         IN /\ e \in Replies /\ e.failed = TRUE
            /\ e.fullText = r.fullText /\ e.editLock = r.editLock /\ e.flight = r.flight
            /\ e.upTo = r.upTo /\ e.sentMsg = r.sentMsg /\ e.posts = r.posts
            /\ e.shown = r.shown /\ e.extras = r.extras /\ e.unheard = r.unheard
  BY DEF Replies

LEMMA ExtraFields ==
  ASSUME NEW r \in Replies
  PROVE  LET e == [r EXCEPT !.extras = r.extras + 1]
         IN /\ e \in Replies /\ e.extras = r.extras + 1
            /\ e.fullText = r.fullText /\ e.editLock = r.editLock /\ e.flight = r.flight
            /\ e.upTo = r.upTo /\ e.sentMsg = r.sentMsg /\ e.posts = r.posts
            /\ e.shown = r.shown /\ e.failed = r.failed /\ e.unheard = r.unheard
  BY DEF Replies

LEMMA FlagsAre ==
  ASSUME NEW r \in Replies
  PROVE  r.failed \in BOOLEAN /\ r.sentMsg \in BOOLEAN /\ r.posts \in Nat /\ r.unheard \in Nat /\ r.extras \in Nat
  BY DEF Replies

\* After the end of a write, by its kind.
LEMMA EndedFields ==
  ASSUME NEW r \in Replies, r.flight # "none", NEW ok \in BOOLEAN
  PROVE  LET e == Ended(r, ok)
         IN /\ e \in Replies
            /\ e.fullText = r.fullText /\ e.editLock = r.editLock /\ e.unheard = r.unheard
            /\ e.failed <=> r.failed \/ (~ok /\ r.flight # "edit")
            /\ e.sentMsg <=> r.sentMsg \/ (ok /\ r.flight # "extra")
            /\ e.posts = IF e.sentMsg /\ ~r.sentMsg THEN r.posts + 1 ELSE r.posts
            /\ e.shown = IF ok /\ r.flight # "extra" THEN Least(r.upTo, ChunkSize) ELSE r.shown
            /\ e.extras = IF ok /\ r.flight = "extra" THEN r.extras + 1 ELSE r.extras
            /\ \/ e.flight = "none" /\ e.upTo = 0
               \/ e.flight = "extra" /\ e.upTo = r.upTo
            /\ r.flight = "edit" => e.flight = "none"
            /\ (r.flight = "final" \/ (r.flight = "extra" /\ ok)) =>
                 (e.flight = "extra" <=> e.extras < Extras(r.upTo))
            /\ (r.flight = "extra" /\ ~ok) => e.flight = "none"
<1>1. CASE r.flight = "edit"
  <2>1. Ended(r, ok) = Idle(IF ok THEN Wrote(r) ELSE r)
    BY <1>1 DEF Ended
  <2>2. CASE ok
    <3> DEFINE w == Wrote(r)
    <3>1. Ended(r, ok) = Idle(w) /\ w \in Replies
      BY <2>1, <2>2, WroteFields
    <3>2. /\ w.sentMsg = TRUE /\ w.shown = Least(r.upTo, ChunkSize)
          /\ w.posts = IF r.sentMsg THEN r.posts ELSE r.posts + 1
          /\ w.fullText = r.fullText /\ w.editLock = r.editLock /\ w.flight = r.flight
          /\ w.upTo = r.upTo /\ w.extras = r.extras /\ w.failed = r.failed /\ w.unheard = r.unheard
      BY WroteFields
    <3> HIDE DEF w
    <3>3. /\ Ended(r, ok) \in Replies /\ Ended(r, ok).flight = "none" /\ Ended(r, ok).upTo = 0
          /\ Ended(r, ok).fullText = w.fullText /\ Ended(r, ok).editLock = w.editLock /\ Ended(r, ok).sentMsg = w.sentMsg
          /\ Ended(r, ok).posts = w.posts /\ Ended(r, ok).shown = w.shown /\ Ended(r, ok).extras = w.extras
          /\ Ended(r, ok).failed = w.failed /\ Ended(r, ok).unheard = w.unheard
      BY <3>1, IdleFields
    <3> QED BY <1>1, <2>2, <3>2, <3>3, FlagsAre
  <2>3. CASE ~ok
    BY <1>1, <2>1, <2>3, IdleFields, FlagsAre
  <2> QED BY <2>2, <2>3
<1>2. CASE r.flight = "final"
  <2>1. Ended(r, ok) = Follow(IF ok THEN Wrote(r) ELSE [r EXCEPT !.failed = TRUE])
    BY <1>2 DEF Ended
  <2>2. CASE ok
    <3> DEFINE w == Wrote(r)
    <3>1. Ended(r, ok) = Follow(w) /\ w \in Replies
      BY <2>1, <2>2, WroteFields
    <3>2. /\ w.sentMsg = TRUE /\ w.shown = Least(r.upTo, ChunkSize)
          /\ w.posts = IF r.sentMsg THEN r.posts ELSE r.posts + 1
          /\ w.fullText = r.fullText /\ w.editLock = r.editLock /\ w.flight = r.flight
          /\ w.upTo = r.upTo /\ w.extras = r.extras /\ w.failed = r.failed /\ w.unheard = r.unheard
      BY WroteFields
    <3> HIDE DEF w
    <3>3. /\ Ended(r, ok) \in Replies
          /\ \/ Ended(r, ok).flight = "none" /\ Ended(r, ok).upTo = 0 /\ ~(w.extras < Extras(w.upTo))
             \/ Ended(r, ok).flight = "extra" /\ Ended(r, ok).upTo = w.upTo /\ w.extras < Extras(w.upTo)
          /\ Ended(r, ok).fullText = w.fullText /\ Ended(r, ok).editLock = w.editLock /\ Ended(r, ok).sentMsg = w.sentMsg
          /\ Ended(r, ok).posts = w.posts /\ Ended(r, ok).shown = w.shown /\ Ended(r, ok).extras = w.extras
          /\ Ended(r, ok).failed = w.failed /\ Ended(r, ok).unheard = w.unheard
      BY <3>1, FollowFields
    <3> QED BY <1>2, <2>2, <3>2, <3>3, FlagsAre
  <2>3. CASE ~ok
    <3> DEFINE e == [r EXCEPT !.failed = TRUE]
    <3>1. Ended(r, ok) = Follow(e) /\ e \in Replies
      BY <2>1, <2>3, FailedFields
    <3>2. e.failed = TRUE /\ e.fullText = r.fullText /\ e.editLock = r.editLock /\ e.flight = r.flight /\ e.upTo = r.upTo /\ e.sentMsg = r.sentMsg /\ e.posts = r.posts /\ e.shown = r.shown /\ e.extras = r.extras /\ e.unheard = r.unheard
      BY FailedFields
    <3> HIDE DEF e
    <3> QED BY <1>2, <2>3, <3>1, <3>2, FollowFields, FlagsAre
  <2> QED BY <2>2, <2>3
<1>3. CASE r.flight = "extra"
  <2>1. Ended(r, ok) = IF ok THEN Follow([r EXCEPT !.extras = r.extras + 1]) ELSE Idle([r EXCEPT !.failed = TRUE])
    BY <1>3 DEF Ended
  <2>2. CASE ok
    <3> DEFINE e == [r EXCEPT !.extras = r.extras + 1]
    <3>1. Ended(r, ok) = Follow(e) /\ e \in Replies
      BY <2>1, <2>2, ExtraFields
    <3>2. e.extras = r.extras + 1 /\ e.fullText = r.fullText /\ e.editLock = r.editLock /\ e.flight = r.flight /\ e.upTo = r.upTo /\ e.sentMsg = r.sentMsg /\ e.posts = r.posts /\ e.shown = r.shown /\ e.failed = r.failed /\ e.unheard = r.unheard
      BY ExtraFields
    <3> HIDE DEF e
    <3>3. /\ Ended(r, ok) \in Replies
          /\ \/ Ended(r, ok).flight = "none" /\ Ended(r, ok).upTo = 0 /\ ~(e.extras < Extras(e.upTo))
             \/ Ended(r, ok).flight = "extra" /\ Ended(r, ok).upTo = e.upTo /\ e.extras < Extras(e.upTo)
          /\ Ended(r, ok).fullText = e.fullText /\ Ended(r, ok).editLock = e.editLock /\ Ended(r, ok).sentMsg = e.sentMsg
          /\ Ended(r, ok).posts = e.posts /\ Ended(r, ok).shown = e.shown /\ Ended(r, ok).extras = e.extras
          /\ Ended(r, ok).failed = e.failed /\ Ended(r, ok).unheard = e.unheard
      BY <3>1, FollowFields
    <3> QED BY <1>3, <2>2, <3>2, <3>3, FlagsAre
  <2>3. CASE ~ok
    <3> DEFINE e == [r EXCEPT !.failed = TRUE]
    <3>1. Ended(r, ok) = Idle(e) /\ e \in Replies
      BY <2>1, <2>3, FailedFields
    <3>2. e.failed = TRUE /\ e.fullText = r.fullText /\ e.editLock = r.editLock /\ e.flight = r.flight /\ e.upTo = r.upTo /\ e.sentMsg = r.sentMsg /\ e.posts = r.posts /\ e.shown = r.shown /\ e.extras = r.extras /\ e.unheard = r.unheard
      BY FailedFields
    <3> HIDE DEF e
    <3> QED BY <1>3, <2>3, <3>1, <3>2, IdleFields, FlagsAre
  <2> QED BY <2>2, <2>3
<1> QED BY <1>1, <1>2, <1>3 DEF Replies
LEMMA ExtrasAreNat == ASSUME NEW text \in Nat PROVE Extras(text) \in Nat
  BY ConnectorAssumption DEF Extras

LEMMA NothingLeft == ASSUME NEW S, NEW q \in Seq(S) PROVE q = <<>> <=> Len(q) = 0
  BY EmptySeq

\* The next write begins.
LEMMA BegunKeeps ==
  ASSUME NEW r \in Replies, r.flight = "none", r.posts = IF r.sentMsg THEN r.unheard + 1 ELSE r.unheard, r.upTo <= r.fullText,
         ~r.failed, r.extras = 0
  PROVE  /\ Writing(Begun(r))
         /\ (\A i \in 1..Len(r.editLock) : r.editLock[i] = "edit") => Before(Begun(r))
         /\ (/\ Len(r.editLock) > 0
             /\ \A i \in 1..Len(r.editLock) : r.editLock[i] = "final" <=> i = Len(r.editLock))
              => After(Begun(r))
<1> DEFINE b == Begun(r)
           q == r.editLock
<1>0. q \in Seq({"edit", "final"}) /\ Len(q) \in Nat /\ (q = <<>> <=> Len(q) = 0) /\ r.fullText \in Nat
  BY NothingLeft DEF Replies
<1>1. /\ b.fullText = r.fullText /\ b.sentMsg = r.sentMsg /\ b.posts = r.posts
      /\ b.shown = r.shown /\ b.extras = r.extras /\ b.failed = r.failed /\ b.unheard = r.unheard
  BY BegunFields
<1>2. CASE q = <<>>
  <2>1. b = r
    BY <1>2, BegunFields
  <2> HIDE DEF b
  <2>2. Writing(b) /\ Before(b)
    BY <1>0, <1>2, <2>1 DEF Writing, Before
  <2>3. ~(Len(q) > 0)
    BY <1>0, <1>2
  <2> QED BY <2>2, <2>3 DEF b
<1>3. CASE q # <<>>
  <2>1. b.flight = Head(q) /\ b.editLock = Tail(q) /\ b.upTo = r.fullText
    BY <1>3, BegunFields
  <2> HIDE DEF b
  <2>2. /\ Head(q) \in {"edit", "final"} /\ Head(q) = q[1] /\ Tail(q) \in Seq({"edit", "final"})
        /\ Len(q) \in Nat \ {0} /\ Len(Tail(q)) = Len(q) - 1
        /\ \A i \in 1..Len(q) - 1 : Tail(q)[i] = q[i + 1]
    BY <1>0, <1>3, TailOf
  <2>3. Tail(q) = <<>> <=> Len(q) = 1
    <3>1. Tail(q) = <<>> <=> Len(Tail(q)) = 0
      BY <2>2, NothingLeft
    <3> QED BY <2>2, <3>1
  <2> DEFINE h == Head(q)
             t == Tail(q)
  <2> HIDE DEF q, h, t
  <2>4. Writing(b)
    BY <1>0, <1>1, <2>1, <2>2 DEF Writing
  <2>5. ASSUME \A i \in 1..Len(q) : q[i] = "edit"
        PROVE  Before(b)
    <3>1. h = "edit" /\ \A i \in 1..Len(t) : t[i] = "edit"
      BY <2>2, <2>5 DEF h, t
    <3> QED BY <1>1, <2>1, <3>1 DEF Before, h, t
  <2>6. ASSUME Len(q) > 0, \A i \in 1..Len(q) : q[i] = "final" <=> i = Len(q)
        PROVE  After(b)
    <3>1. CASE Len(q) = 1
      <4>1. h = "final" /\ t = <<>>
        BY <2>2, <2>3, <2>6, <3>1 DEF h, t
      <4> QED BY <1>1, <2>1, <4>1 DEF After, h, t
    <3>2. CASE Len(q) # 1
      <4>1. h = "edit" /\ Len(t) > 0 /\ \A i \in 1..Len(t) : t[i] = "final" <=> i = Len(t)
        <5>1. h = "edit" /\ Len(t) > 0
          <6>1. 1 \in 1..Len(q) /\ 1 # Len(q) /\ Len(q) - 1 > 0
            BY <2>2, <3>2
          <6>2. q[1] # "final"
            BY <2>6, <6>1
          <6> QED BY <2>2, <6>1, <6>2 DEF h, t
        <5>2. ASSUME NEW i \in 1..Len(t) PROVE t[i] = "final" <=> i = Len(t)
          <6>1. i + 1 \in 1..Len(q) /\ t[i] = q[i + 1] /\ (i = Len(t) <=> i + 1 = Len(q))
            BY <2>2 DEF t
          <6> QED BY <2>6, <6>1
        <5> QED BY <5>1, <5>2
      <4> QED BY <1>1, <2>1, <4>1 DEF After, h, t
    <3> QED BY <3>1, <3>2
  <2> QED BY <2>4, <2>5, <2>6 DEF q, b
<1> QED BY <1>2, <1>3

\* A write ends.
LEMMA WriteKeeps ==
  ASSUME NEW r \in Replies, Writing(r), r.flight # "none", NEW ok \in BOOLEAN
  PROVE  LET b == Begun(Ended(r, ok))
         IN /\ b \in Replies /\ b.fullText = r.fullText /\ Writing(b)
            /\ Before(r) => Before(b)
            /\ (After(r) /\ r.fullText > 0) => After(b)
<1> DEFINE e == Ended(r, ok)
           b == Begun(e)
<1>0. e \in Replies
  BY EndedFields
<1>1. /\ e.fullText = r.fullText /\ e.editLock = r.editLock /\ e.unheard = r.unheard
      /\ e.failed <=> r.failed \/ (~ok /\ r.flight # "edit")
      /\ e.sentMsg <=> r.sentMsg \/ (ok /\ r.flight # "extra")
      /\ e.posts = IF e.sentMsg /\ ~r.sentMsg THEN r.posts + 1 ELSE r.posts
      /\ e.shown = IF ok /\ r.flight # "extra" THEN Least(r.upTo, ChunkSize) ELSE r.shown
      /\ e.extras = IF ok /\ r.flight = "extra" THEN r.extras + 1 ELSE r.extras
      /\ \/ e.flight = "none" /\ e.upTo = 0
         \/ e.flight = "extra" /\ e.upTo = r.upTo
      /\ r.flight = "edit" => e.flight = "none"
      /\ (r.flight = "final" \/ (r.flight = "extra" /\ ok)) =>
           (e.flight = "extra" <=> e.extras < Extras(r.upTo))
      /\ (r.flight = "extra" /\ ~ok) => e.flight = "none"
  BY EndedFields
<1>2. b \in Replies /\ b.fullText = e.fullText
  BY <1>0, BegunFields
<1>3. /\ r.fullText \in Nat /\ r.upTo \in Nat /\ r.posts \in Nat /\ r.unheard \in Nat /\ r.extras \in Nat
      /\ r.flight \in {"edit", "final", "extra"} /\ r.sentMsg \in BOOLEAN /\ r.failed \in BOOLEAN
      /\ Extras(r.fullText) \in Nat /\ Extras(r.upTo) \in Nat
  BY ConnectorAssumption, ExtrasAreNat DEF Replies
<1> HIDE DEF e
<1>4. (e.posts = IF e.sentMsg THEN e.unheard + 1 ELSE e.unheard) /\ e.upTo <= e.fullText
  BY <1>1, <1>3 DEF Writing
<1>5. CASE e.flight # "none" \/ e.editLock = <<>>
  <2>1. b = e
    BY <1>0, <1>5, BegunFields
  <2> HIDE DEF b
  <2>2. Writing(b)
    BY <1>4, <1>5, <2>1 DEF Writing
  <2>3. Before(r) => Before(b)
    BY <1>1, <1>3, <2>1 DEF Before
  <2>4. ASSUME After(r), r.fullText > 0 PROVE After(b)
    <3>1. r.flight # "edit"
      <4>1. r.flight = "edit" => Len(r.editLock) > 0 /\ e.editLock = <<>>
        BY <1>1, <1>5, <2>4 DEF After
      <4> QED BY <1>1, <4>1
    <3>2. CASE r.flight = "final"
      <4>1. /\ r.editLock = <<>> /\ r.upTo = r.fullText /\ r.extras = 0 /\ ~r.failed
        BY <2>4, <3>2 DEF After
      <4>2. Whole(e)
        BY <1>1, <1>3, <1>4, <3>2, <4>1 DEF Whole
      <4> QED BY <1>1, <1>3, <2>1, <3>2, <4>1, <4>2 DEF After
    <3>3. CASE r.flight = "extra"
      <4>1. /\ r.editLock = <<>> /\ r.upTo = r.fullText /\ Whole(r) /\ r.extras < Extras(r.fullText)
        BY <2>4, <3>3 DEF After
      <4>2. Whole(e)
        BY <1>1, <1>3, <3>3, <4>1 DEF Whole
      <4> QED BY <1>1, <1>3, <2>1, <3>3, <4>1, <4>2 DEF After, Whole
    <3> QED BY <1>3, <3>1, <3>2, <3>3
  <2> QED BY <1>1, <1>2, <2>2, <2>3, <2>4 DEF e, b
<1>6. CASE e.flight = "none" /\ e.editLock # <<>>
  <2>1. Before(r) \/ After(r) => r.flight = "edit" /\ r.extras = 0 /\ ~r.failed
    BY <1>1, <1>3, <1>6 DEF Before, After
  <2>2. ASSUME Before(r) \/ After(r) PROVE e.extras = 0 /\ ~e.failed
    BY <1>1, <2>1, <2>2
  <2>3. Writing(b)
    <3>1. b.posts = e.posts /\ b.unheard = e.unheard /\ b.sentMsg = e.sentMsg /\ b.upTo = e.fullText /\ b.flight = Head(e.editLock)
      BY <1>0, <1>6, BegunFields
    <3>2. e.editLock \in Seq({"edit", "final"}) /\ e.fullText \in Nat
      BY <1>0 DEF Replies
    <3>3. Head(e.editLock) \in {"edit", "final"}
      BY <1>6, <3>2, TailOf
    <3> QED BY <1>1, <1>2, <1>4, <3>1, <3>2, <3>3 DEF Writing
  <2>4. Before(r) => Before(b)
    BY <1>0, <1>1, <1>4, <1>6, <2>2, BegunKeeps DEF Before
  <2>5. After(r) => After(b)
    BY <1>0, <1>1, <1>4, <1>6, <2>1, <2>2, BegunKeeps DEF After
  <2> QED BY <1>1, <1>2, <2>3, <2>4, <2>5 DEF e, b
<1> QED BY <1>5, <1>6 DEF e

\* A write of which only the platform knows.
LEMMA UnheardKeeps ==
  ASSUME NEW r \in Replies, Writing(r), r.flight \in {"edit", "final"}
  PROVE  LET u == Unheard(r)
         IN /\ u \in Replies /\ u.fullText = r.fullText /\ u.flight = r.flight /\ Writing(u)
            /\ Before(r) => Before(u)
            /\ After(r) => After(u)
<1> DEFINE l == Least(r.upTo, ChunkSize)
           p == IF r.sentMsg THEN r.posts ELSE r.posts + 1
           n == IF r.sentMsg THEN r.unheard ELSE r.unheard + 1
           u == Unheard(r)
<1>1. r.posts \in Nat /\ r.unheard \in Nat /\ r.upTo \in Nat /\ ChunkSize \in Nat /\ r.sentMsg \in BOOLEAN
  BY ConnectorAssumption DEF Replies
<1>2. l \in 0..ChunkSize
  BY <1>1, LeastIsLeast
<1>3. p \in Nat /\ n \in Nat /\ (p = IF r.sentMsg THEN n + 1 ELSE n)
  BY <1>1 DEF Writing
<1>4. u = [r EXCEPT !.posts = p, !.unheard = n, !.shown = l]
  BY DEF Unheard
<1> HIDE DEF l, p, n, u
<1>5. /\ u \in Replies /\ u.fullText = r.fullText /\ u.flight = r.flight /\ u.editLock = r.editLock
      /\ u.upTo = r.upTo /\ u.sentMsg = r.sentMsg /\ u.extras = r.extras /\ u.failed = r.failed
      /\ u.posts = p /\ u.unheard = n
  BY <1>2, <1>3, <1>4 DEF Replies
<1>6. Writing(u)
  BY <1>3, <1>5 DEF Writing
<1>7. Before(r) => Before(u)
  BY <1>5 DEF Before
<1>8. After(r) => After(u)
  BY <1>5 DEF After
<1> QED BY <1>5, <1>6, <1>7, <1>8 DEF u

LEMMA WriteEndsWell ==
  ASSUME NEW m \in Message, WriteEnds(m), reply[m] \in Replies, Writing(reply[m])
  PROVE  \E b \in Replies :
           /\ reply' = [reply EXCEPT ![m] = b]
           /\ b.fullText = reply[m].fullText /\ Writing(b)
           /\ Before(reply[m]) => Before(b)
           /\ (After(reply[m]) /\ reply[m].fullText > 0) => After(b)
<1> DEFINE r == reply[m]
<1>1. CASE \E ok \in BOOLEAN : reply' = [reply EXCEPT ![m] = Begun(Ended(r, ok))]
  <2>1. PICK ok \in BOOLEAN : reply' = [reply EXCEPT ![m] = Begun(Ended(r, ok))]
    BY <1>1
  <2>2. r.flight # "none"
    BY DEF WriteEnds
  <2> QED BY <2>1, <2>2, WriteKeeps
<1>2. CASE r.flight # "extra" /\ reply' = [reply EXCEPT ![m] = Begun(Ended(Unheard(r), FALSE))]
  <2>1. r.flight \in {"edit", "final"}
    BY <1>2 DEF WriteEnds, Replies
  <2> DEFINE u == Unheard(r)
  <2>2. /\ u \in Replies /\ u.fullText = r.fullText /\ u.flight = r.flight /\ Writing(u)
        /\ Before(r) => Before(u)
        /\ After(r) => After(u)
    BY <2>1, UnheardKeeps
  <2> HIDE DEF u
  <2> DEFINE b == Begun(Ended(u, FALSE))
  <2>3. /\ b \in Replies /\ b.fullText = u.fullText /\ Writing(b)
        /\ Before(u) => Before(b)
        /\ (After(u) /\ u.fullText > 0) => After(b)
    BY <2>1, <2>2, WriteKeeps
  <2>4. reply' = [reply EXCEPT ![m] = b]
    BY <1>2 DEF u
  <2> HIDE DEF b
  <2> QED BY <2>2, <2>3, <2>4
<1> QED BY <1>1, <1>2 DEF WriteEnds

\* A piece of text, with or without an edit of its own.
LEMMA TextKeeps ==
  ASSUME NEW r \in Replies, Writing(r), Before(r), r.fullText < MaxText, NEW edits \in {<<>>, <<"edit">>}
  PROVE  LET b == Begun(Grown(r, edits))
         IN b \in Replies /\ Writing(b) /\ Before(b)
<1> DEFINE q == r.editLock \o edits
           n == r.fullText + 1
           w == Grown(r, edits)
<1>1. r.editLock \in Seq({"edit", "final"}) /\ r.fullText \in 0..MaxText /\ r.upTo \in Nat
  BY ConnectorAssumption DEF Replies
<1>n. n \in 0..MaxText /\ n > r.fullText
  BY <1>1, ConnectorAssumption
<1>w. w = [r EXCEPT !.fullText = n, !.editLock = q]
  BY DEF Grown
<1> HIDE DEF w
<1>2. CASE edits = <<>>
  <2>1. q = r.editLock
    BY <1>1, <1>2, ConcatEmptySeq
  <2> HIDE DEF q, n
  <2>2. w \in Replies /\ w.fullText = n /\ w.editLock = r.editLock
        /\ w.flight = r.flight /\ w.upTo = r.upTo /\ w.sentMsg = r.sentMsg /\ w.posts = r.posts
        /\ w.extras = r.extras /\ w.failed = r.failed /\ w.unheard = r.unheard
    BY <1>1, <1>n, <1>w, <2>1 DEF Replies
  <2>3. CASE r.flight = "none"
    <3>1. /\ Writing(Begun(w))
          /\ (\A i \in 1..Len(w.editLock) : w.editLock[i] = "edit") => Before(Begun(w))
      BY <1>1, <1>n, <2>2, <2>3, BegunKeeps DEF Writing, Before
    <3> QED BY <2>2, <3>1, BegunFields DEF Before, w, q, n
  <2>4. CASE r.flight # "none"
    <3>1. Begun(w) = w
      BY <2>2, <2>4, BegunFields
    <3>2. Writing(w) /\ Before(w)
      BY <1>1, <1>n, <2>2, <2>4 DEF Writing, Before
    <3> QED BY <2>2, <3>1, <3>2 DEF w, q, n
  <2> QED BY <2>3, <2>4
<1>3. CASE edits = <<"edit">>
  <2>1. q = Append(r.editLock, "edit")
    BY <1>1, <1>3, AppendIsConcat
  <2>2. /\ q \in Seq({"edit", "final"}) /\ Len(q) = Len(r.editLock) + 1 /\ q[Len(q)] = "edit"
        /\ \A i \in 1..Len(r.editLock) : q[i] = r.editLock[i]
    BY <1>1, <2>1, AppendProperties
  <2>3. Len(r.editLock) \in Nat
    BY <1>1
  <2>4. \A i \in 1..Len(q) : q[i] = "edit"
    <3>1. ASSUME NEW i \in 1..Len(q) PROVE q[i] = "edit"
      <4>1. i \in 1..Len(r.editLock) \/ i = Len(q)
        BY <2>2, <2>3
      <4> QED BY <2>2, <4>1 DEF Before
    <3> QED BY <3>1
  <2> HIDE DEF q, n
  <2>5. w \in Replies /\ w.fullText = n /\ w.editLock = q
        /\ w.flight = r.flight /\ w.upTo = r.upTo /\ w.sentMsg = r.sentMsg /\ w.posts = r.posts
        /\ w.extras = r.extras /\ w.failed = r.failed /\ w.unheard = r.unheard
    BY <1>1, <1>n, <1>w, <2>2 DEF Replies
  <2>6. CASE r.flight = "none"
    <3>1. /\ Writing(Begun(w))
          /\ (\A i \in 1..Len(w.editLock) : w.editLock[i] = "edit") => Before(Begun(w))
      BY <1>1, <1>n, <2>5, <2>6, BegunKeeps DEF Writing, Before
    <3> QED BY <2>4, <2>5, <3>1, BegunFields DEF w, q, n
  <2>7. CASE r.flight # "none"
    <3>1. Begun(w) = w
      BY <2>5, <2>7, BegunFields
    <3>2. Writing(w) /\ Before(w)
      BY <1>1, <1>n, <2>4, <2>5, <2>7 DEF Writing, Before
    <3> QED BY <2>5, <3>1, <3>2 DEF w, q, n
  <2> QED BY <2>6, <2>7
<1> QED BY <1>2, <1>3 DEF w

\* The turn is done.
LEMMA DoneKeeps ==
  ASSUME NEW r \in Replies, Writing(r), Before(r)
  PROVE  /\ HandleDone(r) \in Replies /\ Writing(HandleDone(r)) /\ HandleDone(r).fullText = r.fullText
         /\ IF r.fullText > 0 THEN After(HandleDone(r)) ELSE Before(HandleDone(r))
<1>0. r.editLock \in Seq({"edit", "final"}) /\ r.fullText \in Nat
  BY ConnectorAssumption DEF Replies
<1>1. CASE r.fullText = 0
  <2>1. HandleDone(r) = r
    BY <1>1 DEF HandleDone
  <2> QED BY <1>1, <2>1
<1>2. CASE r.fullText > 0
  <2> DEFINE q == Append(r.editLock, "final")
             w == [r EXCEPT !.editLock = q]
  <2>1. HandleDone(r) = Begun(w)
    BY <1>0, <1>2 DEF HandleDone
  <2>2. /\ q \in Seq({"edit", "final"}) /\ Len(q) = Len(r.editLock) + 1 /\ q[Len(q)] = "final"
        /\ \A i \in 1..Len(r.editLock) : q[i] = r.editLock[i]
    BY <1>0, AppendProperties
  <2>3. Len(r.editLock) \in Nat
    BY <1>0
  <2>4. \A i \in 1..Len(q) : q[i] = "final" <=> i = Len(q)
    <3>1. ASSUME NEW i \in 1..Len(q) PROVE q[i] = "final" <=> i = Len(q)
      <4>1. (i \in 1..Len(r.editLock) /\ i # Len(q)) \/ i = Len(q)
        BY <2>2, <2>3
      <4> QED BY <2>2, <4>1 DEF Before
    <3> QED BY <3>1
  <2>5. Len(q) > 0
    BY <2>2, <2>3
  <2> HIDE DEF q
  <2>6. w \in Replies /\ w.fullText = r.fullText /\ w.editLock = q
        /\ w.flight = r.flight /\ w.upTo = r.upTo /\ w.sentMsg = r.sentMsg /\ w.posts = r.posts
        /\ w.extras = r.extras /\ w.failed = r.failed /\ w.unheard = r.unheard
    BY <2>2 DEF Replies
  <2> HIDE DEF w
  <2>7. CASE r.flight = "none"
    <3>1. /\ Writing(Begun(w))
          /\ (/\ Len(w.editLock) > 0
              /\ \A i \in 1..Len(w.editLock) : w.editLock[i] = "final" <=> i = Len(w.editLock))
               => After(Begun(w))
      BY <2>6, <2>7, BegunKeeps DEF Writing, Before
    <3>2. After(Begun(w))
      BY <2>4, <2>5, <2>6, <3>1
    <3> QED BY <1>2, <2>1, <2>6, <3>1, <3>2, BegunFields
  <2>8. CASE r.flight # "none"
    <3>1. Begun(w) = w
      BY <2>6, <2>8, BegunFields
    <3>2. Writing(w)
      BY <2>6, <2>8 DEF Writing
    <3>3. After(w)
      BY <2>4, <2>5, <2>6, <2>8 DEF Before, After
    <3> QED BY <1>2, <2>1, <2>6, <3>1, <3>2, <3>3
  <2> QED BY <2>7, <2>8
<1> QED BY <1>0, <1>1, <1>2
-----------------------------------------------------------------------------
(* Types. *)

LEMMA TypesByName ==
  TypeOK <=>
    /\ turn \in [Message -> {"none", "talk", "ask", "done", "error", "complete"}]
    /\ request \in [Message -> Requests]
    /\ at \in [Message -> {"none", "sent", "answering", "opening", "stopping", "over"}]
    /\ said \in [Message -> [kind: Says \union {"none"}, about: Message \union {None}]]
    /\ pendingFreeTextQuestion \in Message \union {None}
    /\ pendingApprovals \subseteq Message
    /\ reply \in [Message -> Replies]
    /\ log \in Seq(Message) /\ runner \in Runners /\ saved \in 0..Len(log)
    /\ handled \in [Message -> Nat] /\ taken \in [Message -> Nat]
    /\ overtaken \subseteq Message /\ lapse \subseteq Lapses
  BY DEF TypeOK, Requests, Replies, Runners

LEMMA InitTypes == Init => TypeInv
<1> SUFFICES ASSUME Init PROVE TypeInv
  OBVIOUS
<1>1. log = <<>> /\ <<>> \in Seq(Message) /\ Len(log) = 0 /\ runner.batch = <<>> /\ 0 \in 0..Len(log)
  BY EmptySeq DEF Init
<1>2. runner \in Runners /\ saved \in 0..Len(log)
  BY <1>1 DEF Init, Runners
<1>3. reply \in [Message -> Replies]
  BY NoReplyIsReply DEF Init
<1>4. request \in [Message -> Requests]
  BY DEF Init, NoRequest, Requests
<1>5. said \in [Message -> [kind: Says \union {"none"}, about: Message \union {None}]]
  BY DEF Init
<1>6. TypeOK
  BY <1>1, <1>2, <1>3, <1>4, <1>5, TypesByName DEF Init
<1>7. OnePlace /\ AtWork /\ TurnsStart
  BY <1>1 DEF Init, OnePlace, AtWork, AtMessage, TurnsStart, Logged, OnThread
<1> QED BY <1>6, <1>7 DEF TypeInv

\* What becomes of the invariant when the account is left alone.
LEMMA PlacesStay ==
  ASSUME TypeInv, UNCHANGED <<log, runner>>,
         \A m \in Message : (said'[m].kind = "none" <=> said[m].kind = "none") /\ (OnThread(m)' <=> OnThread(m))
  PROVE  OnePlace' /\ AtWork'
  BY DEF TypeInv, OnePlace, AtWork, Logged

LEMMA ThreadTypes ==
  ASSUME TypeInv, NEW m \in Message,
         WriteThread(m) \/ Handle(m) \/ Answer(m) \/ StopTurns(m) \/ StartTurn(m)
  PROVE  TypeInv'
<1>0. TypeOK
  BY DEF TypeInv
<1>1. CASE WriteThread(m)
  <2>1. PICK kind \in Says, q \in Message \union {None} : Write(m, kind, q)
    BY <1>1 DEF WriteThread
  <2>2. /\ said' \in [Message -> [kind: Says \union {"none"}, about: Message \union {None}]]
        /\ said[m].kind = "none" /\ said'[m].kind \in Says
        /\ \A x \in Message \ {m} : said'[x] = said[x]
    BY <1>0, <2>1, TypesByName DEF Write
  <2>3. /\ at' \in [Message -> {"none", "sent", "answering", "opening", "stopping", "over"}]
        /\ at'[m] = "sent" /\ \A x \in Message \ {m} : at'[x] = at[x]
    BY <1>0, <1>1, TypesByName DEF WriteThread
  <2>4. UNCHANGED <<turn, request, pendingFreeTextQuestion, pendingApprovals, reply, log, runner, saved,
                    handled, taken, overtaken, lapse>>
    BY <1>1 DEF WriteThread, engine, pending, wechat, ghosts
  <2>5. TypeOK'
    BY <1>0, <2>2, <2>3, <2>4, TypesByName DEF TypeOK
  <2>6. ~Logged(m)
    BY <2>2 DEF TypeInv, OnePlace
  <2>7. OnePlace'
    BY <2>2, <2>3, <2>4, <2>6 DEF TypeInv, OnePlace, Logged, OnThread, Says
  <2>8. AtWork' /\ TurnsStart'
    BY <2>2, <2>3, <2>4 DEF TypeInv, AtWork, TurnsStart, Says
  <2> QED BY <2>5, <2>7, <2>8 DEF TypeInv
<1>2. CASE Handle(m)
  <2>0. /\ UNCHANGED <<turn, request, reply, log, runner, saved, handled, overtaken, lapse>>
        /\ at[m] = "sent"
    BY <1>2 DEF Handle, engine, wechat
  <2>1. /\ at' \in [Message -> {"none", "sent", "answering", "opening", "stopping", "over"}]
        /\ at'[m] \in {"answering", "opening", "stopping"} /\ \A x \in Message \ {m} : at'[x] = at[x]
    BY <1>0, <1>2, TypesByName DEF Handle, TakeAnswer, TakeVerdict, TakeButton, TakeStop, TakePrompt
  <2>2. /\ said' \in [Message -> [kind: Says \union {"none"}, about: Message \union {None}]]
        /\ \A x \in Message : said'[x].kind = said[x].kind
    <3>1. said \in [Message -> [kind: Says \union {"none"}, about: Message \union {None}]]
      BY <1>0, TypesByName
    <3>2. CASE UNCHANGED said
      BY <3>1, <3>2
    <3>3. CASE said' = [said EXCEPT ![m].about = Question] /\ Question \in Message \union {None}
      BY <3>1, <3>3
    <3>4. Question \in Message \union {None}
      BY <1>0, TypesByName DEF Question
    <3> QED BY <1>2, <3>2, <3>3, <3>4 DEF Handle, TakeAnswer, TakeVerdict, TakeButton, TakeStop, TakePrompt
  <2>3. /\ pendingFreeTextQuestion' \in Message \union {None} /\ pendingApprovals' \subseteq Message
        /\ taken' \in [Message -> Nat]
    BY <1>0, <1>2, TypesByName
    DEF Handle, TakeAnswer, TakeVerdict, TakeButton, TakeStop, TakePrompt, pending
  <2>4. TypeOK'
    BY <1>0, <2>0, <2>1, <2>2, <2>3 DEF TypeOK
  <2>5. OnePlace' /\ AtWork'
    BY <2>0, <2>1, <2>2, PlacesStay DEF OnThread
  <2>6. TurnsStart'
    BY <2>0, <2>1, <2>2 DEF TypeInv, TurnsStart
  <2> QED BY <2>4, <2>5, <2>6 DEF TypeInv
<1>3. CASE Answer(m) \/ StopTurns(m) \/ StartTurn(m)
  <2>0. /\ UNCHANGED <<request, said, pendingFreeTextQuestion, pendingApprovals, reply, log, runner, saved,
                        handled, taken, overtaken, lapse>>
        /\ at[m] \in {"answering", "opening", "stopping"} /\ at' = [at EXCEPT ![m] = "over"]
    BY <1>3 DEF Answer, StopTurns, StartTurn, pending, wechat, ghosts
  <2>1. /\ at' \in [Message -> {"none", "sent", "answering", "opening", "stopping", "over"}]
        /\ at'[m] = "over" /\ \A x \in Message \ {m} : at'[x] = at[x]
    BY <1>0, <2>0, TypesByName
  <2>2. /\ turn' \in [Message -> {"none", "talk", "ask", "done", "error", "complete"}]
        /\ \A x \in Message \ {m} : turn[x] = "none" => turn'[x] = "none"
    BY <1>0, <1>3, TypesByName DEF Answer, StopTurns, StartTurn, Settle
  <2>3. said[m].kind # "none"
    BY <2>0 DEF TypeInv, OnePlace, OnThread
  <2>4. TypeOK'
    BY <1>0, <2>0, <2>1, <2>2 DEF TypeOK
  <2>5. OnePlace' /\ AtWork'
    BY <2>0, <2>1, PlacesStay DEF OnThread
  <2>6. TurnsStart'
    BY <2>0, <2>1, <2>2, <2>3 DEF TypeInv, TurnsStart
  <2> QED BY <2>4, <2>5, <2>6 DEF TypeInv
<1> QED BY <1>1, <1>2, <1>3

LEMMA TurnTypes ==
  ASSUME TypeInv, NEW m \in Message, TurnStep(m), \A x \in Message : Writing(reply[x]),
         turn[m] = "talk" => Before(reply[m])
  PROVE  TypeInv'
<1>0. TypeOK /\ reply \in [Message -> Replies]
  BY TypesByName DEF TypeInv
<1>1. UNCHANGED <<at, said, log, runner, saved, handled, lapse, taken>>
  BY DEF TurnStep, HandleTextDelta, WriteEnds, Ask, PostAppears, PostEnds, PostFails, Expire, Finish, PostTo,
         adapter, wechat, ghosts
<1>2. /\ turn' \in [Message -> {"none", "talk", "ask", "done", "error", "complete"}]
      /\ \A x \in Message : turn[x] = "none" => turn'[x] = "none"
  <2>1. CASE HandleTextDelta(m) \/ WriteEnds(m) \/ PostAppears(m) \/ PostEnds(m) \/ PostFails(m)
    <3>1. UNCHANGED turn
      BY <2>1 DEF HandleTextDelta, WriteEnds, PostAppears, PostEnds, PostFails, engine
    <3> QED BY <1>0, <3>1, TypesByName
  <2>2. CASE Ask(m) \/ Expire(m) \/ Finish(m)
    BY <1>0, <2>2, TypesByName DEF Ask, Expire, Finish
  <2> QED BY <2>1, <2>2 DEF TurnStep
<1>3. request' \in [Message -> Requests]
  <2>1. CASE HandleTextDelta(m) \/ WriteEnds(m) \/ Expire(m) \/ Finish(m)
    <3>1. UNCHANGED request
      BY <2>1 DEF HandleTextDelta, WriteEnds, Expire, Finish, engine
    <3> QED BY <1>0, <3>1, TypesByName
  <2>0. request \in [Message -> Requests]
    BY <1>0, TypesByName
  <2>2. CASE Ask(m)
    <3>1. PICK kind \in Asks, post \in {"sending", "none", "seen", "posted", "lost"} :
            request' = [request EXCEPT ![m] = [kind |-> kind, post |-> post]]
      <4>1. \/ \E kind \in Asks : request' = [request EXCEPT ![m] = [kind |-> kind, post |-> "sending"]]
            \/ request' = [request EXCEPT ![m].kind = "approval"]
        BY <2>2 DEF Ask
      <4>2. [request[m] EXCEPT !.kind = "approval"] = [kind |-> "approval", post |-> request[m].post]
        BY <2>0 DEF Requests
      <4>3. "approval" \in Asks /\ request[m].post \in {"none", "sending", "seen", "posted", "lost"}
        BY <2>0 DEF Requests, Asks
      <4> QED BY <4>1, <4>2, <4>3
    <3>2. [kind |-> kind, post |-> post] \in Requests
      BY DEF Requests
    <3> QED BY <2>0, <3>1, <3>2
  <2>3. CASE PostAppears(m) \/ PostEnds(m) \/ PostFails(m)
    <3>1. PICK to \in {"seen", "posted", "lost"} : request' = [request EXCEPT ![m].post = to]
      BY <2>3 DEF PostAppears, PostEnds, PostFails, PostTo
    <3>2. [request[m] EXCEPT !.post = to] \in Requests
      BY <2>0 DEF Requests
    <3> QED BY <2>0, <3>1, <3>2
  <2> QED BY <2>1, <2>2, <2>3 DEF TurnStep
<1>4. /\ pendingFreeTextQuestion' \in Message \union {None} /\ pendingApprovals' \subseteq Message
      /\ overtaken' \subseteq Message
  BY <1>0, TypesByName
  DEF TurnStep, HandleTextDelta, WriteEnds, Ask, PostAppears, PostEnds, PostFails, Expire, Finish, Pend,
      NotPending, Question, pending, adapter, ghosts
<1>5. reply' \in [Message -> Replies]
  <2>1. CASE UNCHANGED reply
    BY <1>0, <2>1
  <2>2. CASE HandleTextDelta(m)
    <3>1. PICK edits \in {<<>>, <<"edit">>} :
            reply' = [reply EXCEPT ![m] = Begun(Grown(reply[m], edits))]
      BY <2>2 DEF HandleTextDelta
    <3>2. Begun(Grown(reply[m], edits)) \in Replies
      BY <1>0, <2>2, TextKeeps DEF HandleTextDelta
    <3> QED BY <1>0, <3>1, <3>2
  <2>3. CASE WriteEnds(m)
    <3>1. PICK b \in Replies : reply' = [reply EXCEPT ![m] = b]
      BY <1>0, <2>3, WriteEndsWell
    <3> QED BY <1>0, <3>1
  <2>4. CASE turn[m] = "talk" /\ reply' = [reply EXCEPT ![m] = HandleDone(reply[m])]
    <3>1. HandleDone(reply[m]) \in Replies
      BY <1>0, <2>4, DoneKeeps
    <3> QED BY <1>0, <2>4, <3>1
  <2> QED BY <2>1, <2>2, <2>3, <2>4
      DEF TurnStep, Ask, PostAppears, PostEnds, PostFails, Expire, Finish, adapter
<1>6. TypeOK'
  <2>1. runner' \in Runners'
    BY <1>0, <1>1, TypesByName DEF Runners
  <2> QED BY <1>0, <1>1, <1>2, <1>3, <1>4, <1>5, <2>1 DEF TypeOK, Requests, Replies, Runners
<1>7. OnePlace' /\ AtWork'
  BY <1>1, PlacesStay DEF OnThread
<1>8. TurnsStart'
  BY <1>1, <1>2 DEF TypeInv, TurnsStart
<1> QED BY <1>6, <1>7, <1>8 DEF TypeInv
\* What a batch takes from the log.
LEMMA BatchOf ==
  ASSUME NEW q \in Seq(Message), NEW n \in 0..Len(q) - 1
  PROVE  /\ SubSeq(q, n + 1, Len(q)) \in Seq(Message) /\ SubSeq(q, n + 1, Len(q)) # <<>>
         /\ Len(SubSeq(q, n + 1, Len(q))) = Len(q) - n
         /\ \A i \in 1..Len(q) - n : SubSeq(q, n + 1, Len(q))[i] = q[n + i]
<1>1. Len(q) \in Nat
  OBVIOUS
<1>2. /\ SubSeq(q, n + 1, Len(q)) \in Seq(Message)
      /\ Len(SubSeq(q, n + 1, Len(q))) = Len(q) - n
      /\ \A i \in 1..Len(q) - n : SubSeq(q, n + 1, Len(q))[i] = q[n + i]
  BY <1>1, SubSeqProperties
<1>3. Len(SubSeq(q, n + 1, Len(q))) # 0
  <2>1. Len(q) - n # 0
    BY <1>1
  <2> QED BY <1>2, <2>1
<1> QED BY <1>2, <1>3, EmptySeq

\* The runner is at the first message of its batch.
LEMMA AtHead ==
  ASSUME TypeInv, runner.pc \in AtMessage
  PROVE  /\ Head(runner.batch) \in Message /\ Head(runner.batch) = runner.batch[1] /\ 1 \in 1..Len(runner.batch)
         /\ Logged(Head(runner.batch))
         /\ Tail(runner.batch) \in Seq(Message) /\ Len(runner.batch) \in Nat \ {0}
         /\ Len(Tail(runner.batch)) = Len(runner.batch) - 1
         /\ \A i \in 1..Len(runner.batch) - 1 : Tail(runner.batch)[i] = runner.batch[i + 1]
<1>1. runner.batch \in Seq(Message) /\ runner.batch # <<>>
  BY TypesByName DEF TypeInv, Runners, AtWork
<1>2. /\ Head(runner.batch) \in Message /\ Head(runner.batch) = runner.batch[1]
      /\ Tail(runner.batch) \in Seq(Message) /\ Len(runner.batch) \in Nat \ {0}
      /\ Len(Tail(runner.batch)) = Len(runner.batch) - 1
      /\ \A i \in 1..Len(runner.batch) - 1 : Tail(runner.batch)[i] = runner.batch[i + 1]
  BY <1>1, TailOf
<1>3. 1 \in 1..Len(runner.batch)
  BY <1>2
<1> QED BY <1>2, <1>3 DEF TypeInv, OnePlace

LEMMA WriteTypes ==
  ASSUME TypeInv, NEW m \in Message, WriteWeChat(m)
  PROVE  TypeInv'
<1>0. TypeOK
  BY DEF TypeInv
<1>1. /\ said' \in [Message -> [kind: Says \union {"none"}, about: Message \union {None}]]
      /\ said[m].kind = "none" /\ said'[m].kind # "none"
      /\ \A x \in Message \ {m} : said'[x] = said[x]
  BY <1>0, TypesByName DEF WriteWeChat, Says
<1>2. /\ UNCHANGED <<turn, request, at, pendingFreeTextQuestion, pendingApprovals, reply, runner, saved,
                     handled, taken, overtaken, lapse>>
      /\ log' = Append(log, m)
  BY DEF WriteWeChat, engine, adapter, pending, ghosts
<1>3. /\ log' \in Seq(Message) /\ Len(log') = Len(log) + 1 /\ Len(log) \in Nat
      /\ \A i \in 1..Len(log) : log'[i] = log[i]
      /\ log'[Len(log) + 1] = m
  BY <1>0, <1>2, TypesByName, AppendProperties
<1>4. \A x \in 0..Len(log) : x \in 0..Len(log')
  BY <1>3
<1>5. runner' \in Runners' /\ saved' \in 0..Len(log')
  BY <1>0, <1>2, <1>4, TypesByName DEF Runners
<1>6. TypeOK'
  BY <1>0, <1>1, <1>2, <1>3, <1>5 DEF TypeOK, Runners
<1>7. ~OnThread(m)
  BY <1>1 DEF TypeInv, OnePlace
<1>8. \A x : Logged(x)' <=> Logged(x) \/ x = m
  <2>1. \A i \in 1..Len(log') : i \in 1..Len(log) \/ i = Len(log) + 1
    BY <1>3
  <2>2. \A i \in 1..Len(log) : i \in 1..Len(log')
    BY <1>3
  <2>3. Len(log) + 1 \in 1..Len(log')
    BY <1>3
  <2> QED BY <1>3, <2>1, <2>2, <2>3 DEF Logged
<1>9. OnePlace'
  BY <1>1, <1>2, <1>7, <1>8 DEF TypeInv, OnePlace, OnThread
<1>10. AtWork' /\ TurnsStart'
  BY <1>1, <1>2 DEF TypeInv, AtWork, TurnsStart
<1> QED BY <1>6, <1>9, <1>10 DEF TypeInv

LEMMA RunnerTypes ==
  ASSUME TypeInv, RunnerStep \/ ResetCursor \/ Crash
  PROVE  TypeInv'
<1>0. /\ TypeOK /\ log \in Seq(Message) /\ Len(log) \in Nat /\ runner \in Runners /\ saved \in 0..Len(log)
      /\ runner.cursor \in 0..Len(log) /\ runner.batch \in Seq(Message)
  BY TypesByName DEF TypeInv, Runners
<1>1. UNCHANGED <<request, said, at, pendingFreeTextQuestion, pendingApprovals, reply, log, taken, overtaken>>
  BY DEF RunnerStep, ResetCursor, Crash, Start, Fetch, PersistCursor, HandleIncoming, Command, OpenTurn,
         TurnEnds, SendText, engine, adapter, pending, ghosts
<1>e. <<>> \in Seq(Message) /\ \A i \in 1..Len(<<>>) : FALSE
  BY EmptySeq
<1>2. saved' \in 0..Len(log)
  BY <1>0 DEF RunnerStep, ResetCursor, Crash, Start, Fetch, PersistCursor, HandleIncoming, Command, OpenTurn,
         TurnEnds, SendText
<1>3. lapse' \subseteq Lapses
  BY <1>0 DEF RunnerStep, ResetCursor, Crash, Start, Fetch, PersistCursor, HandleIncoming, Command, OpenTurn,
         TurnEnds, SendText, Drop, Lapses, ghosts, TypeOK
<1>4. /\ runner' \in Runners /\ AtWork' /\ \A i \in 1..Len(runner'.batch) : Logged(runner'.batch[i])
      /\ runner.pc \notin AtMessage => handled' = handled /\ turn' = turn
  <2>1. CASE Fetch
    <3> DEFINE q == SubSeq(log, runner.cursor + 1, Len(log))
    <3>1. runner.cursor \in 0..Len(log) - 1
      BY <1>0, <2>1 DEF Fetch
    <3>2. /\ q \in Seq(Message) /\ q # <<>> /\ Len(q) = Len(log) - runner.cursor
          /\ \A i \in 1..Len(log) - runner.cursor : q[i] = log[runner.cursor + i]
      BY <1>0, <3>1, BatchOf
    <3>3. \A i \in 1..Len(q) : Logged(q[i])
      <4>1. \A i \in 1..Len(log) - runner.cursor : runner.cursor + i \in 1..Len(log)
        BY <1>0, <3>1
      <4> HIDE DEF q
      <4> QED BY <3>2, <4>1 DEF Logged
    <3>4. runner' = [pc |-> "saving", cursor |-> Len(log), batch |-> q]
      BY <2>1 DEF Fetch
    <3> HIDE DEF q
    <3>5. runner' \in Runners
      BY <1>0, <3>2, <3>4 DEF Runners
    <3>6. AtWork' /\ runner'.batch = q
      BY <3>4 DEF AtWork, AtMessage
    <3>7. UNCHANGED <<handled, turn>>
      BY <2>1 DEF Fetch, engine
    <3> QED BY <3>3, <3>5, <3>6, <3>7
  <2>2. CASE Drop /\ runner.pc \in AtMessage
    <3>1. runner' = [runner EXCEPT !.pc = "poll", !.batch = <<>>]
      BY <2>2 DEF Drop
    <3>2. runner' \in Runners /\ runner'.pc = "poll" /\ runner'.batch = <<>>
      BY <1>0, <1>e, <3>1 DEF Runners
    <3> QED BY <1>e, <2>2, <3>2 DEF AtWork, AtMessage
  <2>3. CASE PersistCursor
    <3>1. \/ runner' = [runner EXCEPT !.pc = Rest(runner.batch)]
          \/ runner' = [runner EXCEPT !.pc = "poll", !.batch = <<>>]
      BY <2>3 DEF PersistCursor, Drop
    <3>2. CASE runner' = [runner EXCEPT !.pc = Rest(runner.batch)]
      BY <1>0, <2>3, <3>2 DEF PersistCursor, Rest, Runners, AtWork, AtMessage, TypeInv, OnePlace, engine
    <3>3. CASE runner' = [runner EXCEPT !.pc = "poll", !.batch = <<>>]
      <4>1. runner' \in Runners /\ runner'.pc = "poll" /\ runner'.batch = <<>>
        BY <1>0, <1>e, <3>3 DEF Runners
      <4> QED BY <1>e, <2>3, <4>1 DEF PersistCursor, AtWork, AtMessage, engine
    <3> QED BY <3>1, <3>2, <3>3
  <2>4. CASE /\ runner.pc \in AtMessage
             /\ \E pc \in AtMessage : runner' = [runner EXCEPT !.pc = pc]
    BY <1>0, <2>4 DEF Runners, AtWork, AtMessage, TypeInv, OnePlace
  <2>5. CASE runner.pc \in AtMessage /\ runner' = [runner EXCEPT !.pc = Rest(Tail(runner.batch)), !.batch = Tail(@)]
    <3> DEFINE t == Tail(runner.batch)
    <3>1. /\ t \in Seq(Message) /\ Len(t) = Len(runner.batch) - 1 /\ Len(runner.batch) \in Nat \ {0}
          /\ \A i \in 1..Len(runner.batch) - 1 : t[i] = runner.batch[i + 1]
      BY <2>5, AtHead
    <3>2. \A i \in 1..Len(runner.batch) - 1 : i + 1 \in 1..Len(runner.batch)
      BY <3>1
    <3>3. \A i \in 1..Len(t) : Logged(t[i])
      BY <3>1, <3>2 DEF TypeInv, OnePlace
    <3>4. runner' = [runner EXCEPT !.pc = Rest(t), !.batch = t]
      BY <2>5
    <3> HIDE DEF t
    <3> QED BY <1>0, <2>5, <3>1, <3>3, <3>4 DEF Runners, AtWork, AtMessage, Rest
  <2>6. CASE ResetCursor
    BY <1>0, <1>e, <2>6 DEF ResetCursor, Runners, AtWork, AtMessage, engine
  <2>7. CASE Crash
    BY <1>0, <1>e, <2>7 DEF Crash, Runners, AtWork, AtMessage, engine
  <2>8. CASE Start
    BY <1>0, <1>e, <2>8 DEF Start, Runners, AtWork, AtMessage, engine
  <2> QED BY <2>1, <2>2, <2>3, <2>4, <2>5, <2>6, <2>7, <2>8
      DEF RunnerStep, HandleIncoming, Command, OpenTurn, TurnEnds, SendText, AtMessage
<1>5. /\ turn' \in [Message -> {"none", "talk", "ask", "done", "error", "complete"}]
      /\ \A x \in Message : ~Logged(x) => turn'[x] = turn[x]
  <2>1. CASE OpenTurn
    <3>1. Head(runner.batch) \in Message /\ Logged(Head(runner.batch))
      BY <2>1, AtHead DEF OpenTurn, AtMessage
    <3> QED BY <1>0, <2>1, <3>1 DEF OpenTurn, TypeOK
  <2>2. CASE ~OpenTurn
    <3>1. UNCHANGED turn
      BY <2>2 DEF RunnerStep, ResetCursor, Crash, Start, Fetch, PersistCursor, HandleIncoming, Command,
             TurnEnds, SendText, engine
    <3> QED BY <1>0, <3>1 DEF TypeOK
  <2> QED BY <2>1, <2>2
<1>6. handled' \in [Message -> Nat]
  <2>1. CASE HandleIncoming
    <3> DEFINE h == Head(runner.batch)
    <3>1. h \in Message
      BY <2>1, AtHead DEF HandleIncoming, AtMessage
    <3>2. handled' = [handled EXCEPT ![h] = @ + 1]
      BY <2>1 DEF HandleIncoming
    <3>3. handled \in [Message -> Nat]
      BY <1>0 DEF TypeOK
    <3> HIDE DEF h
    <3> QED BY <3>1, <3>2, <3>3
  <2>2. CASE ~HandleIncoming
    <3>1. UNCHANGED handled
      BY <2>2 DEF RunnerStep, ResetCursor, Crash, Start, Fetch, PersistCursor, OpenTurn, Command,
             TurnEnds, SendText
    <3> QED BY <1>0, <3>1 DEF TypeOK
  <2> QED BY <2>1, <2>2
<1>7. TypeOK'
  BY <1>0, <1>1, <1>2, <1>3, <1>4, <1>5, <1>6 DEF TypeOK, Runners
<1>8. OnePlace'
  BY <1>1, <1>4 DEF TypeInv, OnePlace, Logged, OnThread
<1>9. TurnsStart'
  BY <1>1, <1>5 DEF TypeInv, TurnsStart, OnePlace, OnThread
<1> QED BY <1>4, <1>7, <1>8, <1>9 DEF TypeInv
-----------------------------------------------------------------------------
(* Steps. *)

LEMMA InitInvs == Init => ReplyInv /\ QuestionInv /\ LogInv /\ HandledInv
<1> SUFFICES ASSUME Init PROVE ReplyInv /\ QuestionInv /\ LogInv /\ HandledInv
  OBVIOUS
<1>0. \A i \in 1..Len(<<>>) : FALSE
  BY EmptySeq
<1>1. ReplyInv
  BY NoReplyIsReply DEF Init, ReplyInv
<1>2. QuestionInv
  BY ConnectorAssumption DEF Init, QuestionInv, Pended, NoRequest, Question
<1>3. LogInv /\ RunnerInv
  BY <1>0 DEF Init, LogInv, RunnerInv
<1> QED BY <1>1, <1>2, <1>3 DEF HandledInv

LEMMA TypeStep == TypeInv /\ ReplyInv /\ [Next]_vars => TypeInv'
<1> SUFFICES ASSUME TypeInv, ReplyInv, [Next]_vars PROVE TypeInv'
  OBVIOUS
<1>1. CASE \E m \in Message : WriteThread(m) \/ WriteWeChat(m)
  BY <1>1, ThreadTypes, WriteTypes
<1>2. CASE \E m \in Message : Handle(m) \/ Answer(m) \/ StopTurns(m) \/ StartTurn(m)
  BY <1>2, ThreadTypes
<1>3. CASE \E m \in Message : TurnStep(m)
  <2>1. PICK m \in Message : TurnStep(m)
    BY <1>3
  <2>2. (\A x \in Message : Writing(reply[x])) /\ (turn[m] = "talk" => Before(reply[m]))
    BY DEF ReplyInv
  <2> QED BY <2>1, <2>2, TurnTypes
<1>4. CASE RunnerStep \/ ResetCursor \/ Crash
  BY <1>4, RunnerTypes
<1>5. CASE UNCHANGED vars
  BY <1>5 DEF TypeInv, TypeOK, OnePlace, AtWork, TurnsStart, Logged, OnThread, vars, engine, adapter, pending,
              wechat, ghosts
<1> QED BY <1>1, <1>2, <1>3, <1>4, <1>5 DEF Next

LEMMA RepliesStay ==
  ASSUME ReplyInv, UNCHANGED reply, \A m \in Message : OnThread(m) => OnThread(m)',
         \A m \in Message : reply[m].fullText > 0 => (turn'[m] = "done" <=> turn[m] = "done")
  PROVE  ReplyInv'
  BY DEF ReplyInv

LEMMA ReplyStep == TypeInv /\ ReplyInv /\ [Next]_vars => ReplyInv'
<1> SUFFICES ASSUME TypeInv, ReplyInv, [Next]_vars PROVE ReplyInv'
  OBVIOUS
<1>0. /\ turn \in [Message -> {"none", "talk", "ask", "done", "error", "complete"}]
      /\ at \in [Message -> {"none", "sent", "answering", "opening", "stopping", "over"}]
      /\ reply \in [Message -> Replies] /\ pendingFreeTextQuestion \in Message \union {None}
  BY TypesByName DEF TypeInv
<1>1. CASE \E m \in Message : WriteThread(m) \/ WriteWeChat(m)
  <2>1. UNCHANGED <<reply, turn>> /\ \A m \in Message : OnThread(m) => OnThread(m)'
    BY <1>0, <1>1 DEF WriteThread, WriteWeChat, engine, adapter, OnThread
  <2> QED BY <2>1, RepliesStay
<1>2. CASE \E m \in Message : Handle(m) \/ Answer(m) \/ StopTurns(m) \/ StartTurn(m)
  <2>1. PICK m \in Message : Handle(m) \/ Answer(m) \/ StopTurns(m) \/ StartTurn(m)
    BY <1>2
  <2>2. UNCHANGED reply /\ \A x \in Message : OnThread(x) => OnThread(x)'
    BY <1>0, <2>1 DEF Handle, TakeAnswer, TakeVerdict, TakeButton, TakeStop, TakePrompt, Answer, StopTurns,
                      StartTurn, OnThread
  <2>3. \A x \in Message : turn'[x] = "done" <=> turn[x] = "done"
    <3>1. CASE Handle(m)
      BY <3>1 DEF Handle, engine
    <3>2. CASE Answer(m) \/ StopTurns(m)
      BY <1>0, <3>2 DEF Answer, StopTurns, Settle
    <3>3. CASE StartTurn(m)
      <4>1. turn[m] = "none"
        BY <3>3 DEF StartTurn, TypeInv, TurnsStart
      <4> QED BY <1>0, <3>3, <4>1 DEF StartTurn
    <3> QED BY <2>1, <3>1, <3>2, <3>3
  <2> QED BY <2>2, <2>3, RepliesStay
<1>3. CASE \E m \in Message : TurnStep(m)
  <2>1. PICK m \in Message : TurnStep(m)
    BY <1>3
  <2>2. UNCHANGED at
    BY <2>1 DEF TurnStep, HandleTextDelta, WriteEnds, Ask, PostAppears, PostEnds, PostFails, Expire, Finish, adapter
  <2>3. \A x \in Message : OnThread(x)' <=> OnThread(x)
    BY <2>2 DEF OnThread
  <2>4. CASE HandleTextDelta(m)
    <3>1. PICK edits \in {<<>>, <<"edit">>} : reply' = [reply EXCEPT ![m] = Begun(Grown(reply[m], edits))]
      BY <2>4 DEF HandleTextDelta
    <3>2. reply[m].fullText < MaxText /\ turn[m] = "talk" /\ OnThread(m) /\ turn' = turn
      BY <2>4 DEF HandleTextDelta, engine
    <3>3. Writing(reply[m]) /\ Before(reply[m])
      BY <3>2 DEF ReplyInv
    <3>4. Writing(Begun(Grown(reply[m], edits))) /\ Before(Begun(Grown(reply[m], edits)))
      BY <1>0, <3>2, <3>3, TextKeeps
    <3> DEFINE b == Begun(Grown(reply[m], edits))
    <3>5. Writing(b) /\ Before(b) /\ reply' = [reply EXCEPT ![m] = b]
      BY <3>1, <3>4
    <3> HIDE DEF b
    <3>6. reply'[m] = b /\ \A x \in Message \ {m} : reply'[x] = reply[x]
      BY <1>0, <3>5
    <3> QED BY <2>3, <3>2, <3>5, <3>6 DEF ReplyInv
  <2>5. CASE WriteEnds(m)
    <3>2. reply[m].flight # "none" /\ turn' = turn
      BY <2>5 DEF WriteEnds, engine
    <3>3. Writing(reply[m])
      BY DEF ReplyInv
    <3>1. PICK b \in Replies :
            /\ reply' = [reply EXCEPT ![m] = b]
            /\ b.fullText = reply[m].fullText /\ Writing(b)
            /\ Before(reply[m]) => Before(b)
            /\ (After(reply[m]) /\ reply[m].fullText > 0) => After(b)
      BY <1>0, <2>5, <3>3, WriteEndsWell
    <3>4. /\ b.fullText = reply[m].fullText /\ Writing(b)
          /\ Before(reply[m]) => Before(b)
          /\ (After(reply[m]) /\ reply[m].fullText > 0) => After(b)
      BY <3>1
    <3>5. reply' = [reply EXCEPT ![m] = b]
      BY <3>1
    <3>6. OnThread(m)
      BY <3>2 DEF ReplyInv, NoReply
    <3>7. reply'[m] = b /\ \A x \in Message \ {m} : reply'[x] = reply[x]
      BY <1>0, <3>5
    <3> QED BY <2>3, <3>2, <3>4, <3>6, <3>7 DEF ReplyInv
  <2>6. CASE Finish(m) /\ turn' = [turn EXCEPT ![m] = "done"]
    <3>0. turn[m] = "talk" /\ reply' = IF OnThread(m) THEN [reply EXCEPT ![m] = HandleDone(@)] ELSE reply
      BY <1>0, <2>6 DEF Finish
    <3>1. turn'[m] = "done" /\ \A x \in Message \ {m} : turn'[x] = turn[x]
      BY <1>0, <2>6
    <3>2. CASE OnThread(m)
      <4> DEFINE b == HandleDone(reply[m])
      <4>1. reply' = [reply EXCEPT ![m] = b]
        BY <3>0, <3>2
      <4>2. Writing(reply[m]) /\ Before(reply[m])
        BY <3>0 DEF ReplyInv
      <4>3. /\ Writing(b) /\ b.fullText = reply[m].fullText
            /\ IF reply[m].fullText > 0 THEN After(b) ELSE Before(b)
        BY <1>0, <4>2, DoneKeeps
      <4> HIDE DEF b
      <4>4. reply'[m] = b /\ \A x \in Message \ {m} : reply'[x] = reply[x]
        BY <1>0, <4>1
      <4> QED BY <2>3, <3>1, <3>2, <4>3, <4>4 DEF ReplyInv
    <3>3. CASE ~OnThread(m)
      <4>1. reply[m].fullText = 0 /\ reply' = reply
        BY <3>0, <3>3 DEF ReplyInv, NoReply
      <4> QED BY <2>3, <3>1, <4>1, RepliesStay
    <3> QED BY <3>2, <3>3
  <2>7. CASE UNCHANGED reply /\ \A x \in Message : turn'[x] = "done" <=> turn[x] = "done"
    BY <2>3, <2>7, RepliesStay
  <2>8. CASE Ask(m) \/ PostAppears(m) \/ PostEnds(m) \/ PostFails(m) \/ Expire(m)
    <3>1. UNCHANGED reply /\ \A x \in Message : turn'[x] = "done" <=> turn[x] = "done"
      BY <1>0, <2>8 DEF Ask, PostAppears, PostEnds, PostFails, Expire, adapter
    <3> QED BY <2>7, <3>1
  <2>9. CASE Finish(m) /\ turn' # [turn EXCEPT ![m] = "done"]
    <3>1. UNCHANGED reply /\ \A x \in Message : turn'[x] = "done" <=> turn[x] = "done"
      BY <1>0, <2>9 DEF Finish
    <3> QED BY <2>7, <3>1
  <2> QED BY <2>1, <2>4, <2>5, <2>6, <2>8, <2>9 DEF TurnStep
<1>4. CASE RunnerStep \/ ResetCursor \/ Crash
  <2>1. UNCHANGED <<reply, at>>
    BY <1>4 DEF RunnerStep, ResetCursor, Crash, Start, Fetch, PersistCursor, HandleIncoming, Command, OpenTurn,
         TurnEnds, SendText, adapter
  <2>2. CASE OpenTurn
    <3> DEFINE h == Head(runner.batch)
    <3>1. h \in Message /\ Logged(h)
      BY <2>2, AtHead DEF OpenTurn, AtMessage
    <3>2. reply[h].fullText = 0
      BY <3>1 DEF TypeInv, OnePlace, ReplyInv, NoReply
    <3>3. turn' = turn \/ turn' = [turn EXCEPT ![h] = "talk"]
      BY <2>2 DEF OpenTurn
    <3> HIDE DEF h
    <3>4. \A x \in Message : reply[x].fullText > 0 => turn'[x] = turn[x]
      BY <1>0, <3>1, <3>2, <3>3
    <3> QED BY <2>1, <3>4, RepliesStay DEF OnThread
  <2>3. CASE ~OpenTurn
    <3>1. UNCHANGED turn
      BY <1>4, <2>3 DEF RunnerStep, ResetCursor, Crash, Start, Fetch, PersistCursor, HandleIncoming, Command,
             TurnEnds, SendText, engine
    <3> QED BY <2>1, <3>1, RepliesStay DEF OnThread
  <2> QED BY <2>2, <2>3
<1>5. CASE UNCHANGED vars
  BY <1>5, RepliesStay DEF vars, engine, adapter, OnThread
<1> QED BY <1>1, <1>2, <1>3, <1>4, <1>5 DEF Next

\* The variables of this module keep their types, and the runner's batch and
\* cursor stay within the account's log.
THEOREM ConnectorTypesCorrect == Spec => []TypeOK
<1>1. TypeInv => TypeOK
  BY DEF TypeInv
<1> QED BY <1>1, InitTypes, InitInvs, TypeStep, ReplyStep, PTL DEF Spec

\* When a turn is done and no write is under way, the thread has the whole
\* answer, whatever writes before the last have failed or come late.
THEOREM RepliesAreWhole == Spec => []ReplyIsWhole
<1>1. TypeInv /\ ReplyInv => ReplyIsWhole
  <2> SUFFICES ASSUME TypeInv, ReplyInv, NEW m \in Message,
                      turn[m] = "done", reply[m].flight = "none", ~reply[m].failed, reply[m].fullText > 0
               PROVE  /\ reply[m].posts = 1 + reply[m].unheard
                      /\ reply[m].shown = Least(reply[m].fullText, ChunkSize)
                      /\ reply[m].extras = Extras(reply[m].fullText)
    BY DEF ReplyIsWhole
  <2> QED BY DEF ReplyInv, After, Whole
<1> QED BY <1>1, InitTypes, InitInvs, TypeStep, ReplyStep, PTL DEF Spec
-----------------------------------------------------------------------------
(* Questions. *)

LEMMA QuestionsStay ==
  ASSUME QuestionInv, UNCHANGED <<pendingFreeTextQuestion, overtaken, taken>>,
         \A q \in Message : Pended(q)' <=> Pended(q)
  PROVE  QuestionInv'
  BY DEF QuestionInv, Question

\* A question is put aside by a new one.
LEMMA PendKeeps ==
  ASSUME TypeInv, QuestionInv, NEW m \in Message, Pend(m), UNCHANGED taken, ~Pended(m), Pended(m)',
         \A q \in Message \ {m} : Pended(q)' <=> Pended(q)
  PROVE  QuestionInv'
<1>0. /\ pendingFreeTextQuestion \in Message \union {None} /\ overtaken \subseteq Message
      /\ taken \in [Message -> Nat]
  BY TypesByName DEF TypeInv
<1>1. m \notin overtaken /\ ~(taken[m] > 0) /\ Question # m
  BY DEF QuestionInv
<1>2. taken[m] = 0
  BY <1>0, <1>1
<1>3. Question' = m /\ \A q \in Message \ {m} : q \in overtaken' <=> q \in overtaken \/ q = Question
  BY <1>0, ConnectorAssumption DEF Pend, Question
<1> QED BY <1>0, <1>2, <1>3 DEF QuestionInv

LEMMA QuestionStep == TypeInv /\ QuestionInv /\ [Next]_vars => QuestionInv'
<1> SUFFICES ASSUME TypeInv, QuestionInv, [Next]_vars PROVE QuestionInv'
  OBVIOUS
<1>0. /\ request \in [Message -> Requests] /\ taken \in [Message -> Nat]
      /\ pendingFreeTextQuestion \in Message \union {None} /\ overtaken \subseteq Message
  BY TypesByName DEF TypeInv
<1>1. CASE UNCHANGED <<request, pendingFreeTextQuestion, overtaken, taken>>
  BY <1>1, QuestionsStay DEF Pended
<1>2. CASE \E m \in Message : Handle(m)
  <2>1. PICK m \in Message : Handle(m)
    BY <1>2
  <2>2. UNCHANGED <<request, overtaken>>
    BY <2>1 DEF Handle, engine
  <2>3. CASE TakeAnswer(m)
    <3>1. /\ Question \in Message /\ pendingFreeTextQuestion' = None
          /\ taken' = [taken EXCEPT ![Question] = @ + 1]
      BY <1>0, <2>3 DEF TakeAnswer, Question
    <3>2. taken[Question] = 0
      BY <3>1 DEF QuestionInv
    <3>3. taken'[Question] = 1 /\ \A q \in Message \ {Question} : taken'[q] = taken[q]
      BY <1>0, <3>1, <3>2
    <3>4. \A q \in Message : Pended(q)' <=> Pended(q)
      BY <2>2 DEF Pended
    <3>5. Question' = None
      BY <3>1 DEF Question
    <3> QED BY <1>0, <2>2, <3>1, <3>3, <3>4, <3>5, ConnectorAssumption DEF QuestionInv
  <2>4. CASE ~TakeAnswer(m)
    BY <1>1, <2>1, <2>2, <2>4 DEF Handle, TakeVerdict, TakeButton, TakeStop, TakePrompt, pending
  <2> QED BY <2>3, <2>4
<1>3. CASE \E m \in Message : Ask(m)
  <2>1. PICK m \in Message : Ask(m)
    BY <1>3
  <2>2. request[m].kind = "none" /\ UNCHANGED taken
    BY <2>1 DEF Ask
  <2>3. CASE \E kind \in Asks : /\ request' = [request EXCEPT ![m] = [kind |-> kind, post |-> "sending"]]
                               /\ IF kind = "free" THEN Pend(m) ELSE NotPending
    <3>1. PICK kind \in Asks : /\ request' = [request EXCEPT ![m] = [kind |-> kind, post |-> "sending"]]
                               /\ IF kind = "free" THEN Pend(m) ELSE NotPending
      BY <2>3
    <3>2. /\ request'[m].kind = kind /\ request'[m].post = "sending"
          /\ \A q \in Message \ {m} : request'[q] = request[q]
      BY <1>0, <3>1
    <3>3. ~Pended(m) /\ (Pended(m)' <=> kind = "free") /\ \A q \in Message \ {m} : Pended(q)' <=> Pended(q)
      BY <2>2, <3>2 DEF Pended
    <3>4. CASE kind = "free"
      BY <2>2, <3>1, <3>3, <3>4, PendKeeps
    <3>5. CASE kind # "free"
      BY <2>2, <3>1, <3>3, <3>5, QuestionsStay DEF NotPending
    <3> QED BY <3>4, <3>5
  <2>4. CASE request' = [request EXCEPT ![m].kind = "approval"] /\ NotPending
    <3>1. \A q \in Message : Pended(q)' <=> Pended(q)
      BY <1>0, <2>2, <2>4 DEF Pended, Requests
    <3> QED BY <2>2, <2>4, <3>1, QuestionsStay DEF NotPending
  <2> QED BY <2>1, <2>3, <2>4 DEF Ask
<1>4. CASE \E m \in Message : PostAppears(m) \/ PostFails(m)
  <2>1. PICK m \in Message : PostAppears(m) \/ PostFails(m)
    BY <1>4
  <2>2. UNCHANGED <<pendingFreeTextQuestion, overtaken, taken>>
    BY <2>1 DEF PostAppears, PostFails, adapter, pending, ghosts
  <2>3. \A q \in Message : Pended(q)' <=> Pended(q)
    BY <1>0, <2>1 DEF PostAppears, PostFails, PostTo, Pended, Requests
  <2> QED BY <2>2, <2>3, QuestionsStay
<1>5. CASE \E m \in Message : PostEnds(m)
  <2>1. PICK m \in Message : PostEnds(m)
    BY <1>5
  <2>2. /\ request[m].post = "seen" /\ UNCHANGED taken
        /\ request'[m].kind = request[m].kind /\ request'[m].post = "posted"
        /\ \A q \in Message \ {m} : request'[q] = request[q]
    BY <1>0, <2>1 DEF PostEnds, PostTo, Requests
  <2>3. \A q \in Message \ {m} : Pended(q)' <=> Pended(q)
    BY <2>2 DEF Pended
  <2>4. CASE request[m].kind = "choice"
    <3>1. ~Pended(m) /\ Pended(m)' /\ Pend(m)
      BY <2>1, <2>2, <2>4 DEF Pended, PostEnds
    <3> QED BY <2>2, <2>3, <3>1, PendKeeps
  <2>5. CASE request[m].kind # "choice"
    <3>1. (Pended(m)' <=> Pended(m)) /\ NotPending
      BY <2>1, <2>2, <2>5 DEF Pended, PostEnds
    <3> QED BY <2>2, <2>3, <3>1, QuestionsStay DEF NotPending
  <2> QED BY <2>4, <2>5
<1>6. CASE \E m \in Message : WriteThread(m) \/ WriteWeChat(m) \/ Answer(m) \/ StopTurns(m) \/ StartTurn(m)
  BY <1>1, <1>6 DEF WriteThread, WriteWeChat, Answer, StopTurns, StartTurn, engine, adapter, pending, ghosts
<1>7. CASE \E m \in Message : HandleTextDelta(m) \/ WriteEnds(m) \/ Expire(m) \/ Finish(m)
  BY <1>1, <1>7 DEF HandleTextDelta, WriteEnds, Expire, Finish, engine, adapter, pending, ghosts
<1>8. CASE RunnerStep \/ ResetCursor \/ Crash
  BY <1>1, <1>8 DEF RunnerStep, ResetCursor, Crash, Start, Fetch, PersistCursor, HandleIncoming, Command, OpenTurn,
         TurnEnds, SendText, engine, adapter, pending, ghosts
<1>9. CASE UNCHANGED vars
  BY <1>1, <1>9 DEF vars, engine, adapter, pending, ghosts
<1> QED BY <1>2, <1>3, <1>4, <1>5, <1>6, <1>7, <1>8, <1>9 DEF Next, TurnStep

\* A question that waits and is seen is the one the next text answers, unless a
\* text has been taken for it or a later question has come.
THEOREM QuestionsArePending == Spec => []OpenQuestionIsPending
<1>1. TypeInv /\ QuestionInv => OpenQuestionIsPending
  <2> SUFFICES ASSUME TypeInv, QuestionInv, NEW q \in Message, q \notin overtaken, taken[q] = 0, Pended(q)
               PROVE  Question = q
    BY DEF OpenQuestionIsPending, Pended, Question
  <2>1. ~(taken[q] > 0)
    OBVIOUS
  <2> QED BY <2>1 DEF QuestionInv
<1> QED BY <1>1, InitTypes, InitInvs, TypeStep, ReplyStep, QuestionStep, PTL DEF Spec

\* One question takes one text.
THEOREM QuestionsTakeOne == Spec => []QuestionTakesOne
<1>1. QuestionInv => QuestionTakesOne
  BY DEF QuestionInv, QuestionTakesOne
<1> QED BY <1>1, InitTypes, InitInvs, TypeStep, ReplyStep, QuestionStep, PTL DEF Spec

-----------------------------------------------------------------------------
(* The account. *)

LEMMA LogStep == TypeInv /\ LogInv /\ [Next]_vars => LogInv'
<1> SUFFICES ASSUME TypeInv, LogInv, [Next]_vars PROVE LogInv'
  OBVIOUS
<1>0. /\ said \in [Message -> [kind: Says \union {"none"}, about: Message \union {None}]]
      /\ handled \in [Message -> Nat] /\ log \in Seq(Message)
  BY TypesByName DEF TypeInv
<1>1. CASE UNCHANGED <<log, handled>> /\ \A x \in Message : said'[x].kind = "none" => said[x].kind = "none"
  BY <1>1 DEF LogInv
<1>2. CASE \E m \in Message : WriteWeChat(m)
  <2>1. PICK m \in Message : WriteWeChat(m)
    BY <1>2
  <2>2. /\ log' = Append(log, m) /\ handled' = handled /\ said[m].kind = "none"
        /\ \A x \in Message : said'[x].kind = "none" => said[x].kind = "none"
    BY <1>0, <2>1 DEF WriteWeChat
  <2>3. /\ Len(log') = Len(log) + 1 /\ Len(log) \in Nat
        /\ \A i \in 1..Len(log) : log'[i] = log[i]
        /\ log'[Len(log) + 1] = m
    BY <1>0, <2>2, AppendProperties
  <2>4. \A i \in 1..Len(log) : log[i] # m
    BY <2>2 DEF TypeInv, OnePlace, Logged
  <2>5. \A i \in 1..Len(log') : i \in 1..Len(log) \/ i = Len(log) + 1
    BY <2>3
  <2> QED BY <2>2, <2>3, <2>4, <2>5 DEF LogInv
<1>3. CASE HandleIncoming
  <2> DEFINE h == Head(runner.batch)
  <2>1. h \in Message /\ Logged(h)
    BY <1>3, AtHead DEF HandleIncoming, AtMessage
  <2>2. handled' = [handled EXCEPT ![h] = @ + 1] /\ UNCHANGED <<log, said>>
    BY <1>3 DEF HandleIncoming
  <2>3. said[h].kind # "none"
    BY <2>1 DEF TypeInv, OnePlace
  <2> HIDE DEF h
  <2> QED BY <1>0, <2>1, <2>2, <2>3 DEF LogInv
<1>4. CASE \E m \in Message : WriteThread(m)
  <2>1. UNCHANGED <<log, handled>> /\ \A x \in Message : said'[x].kind = "none" => said[x].kind = "none"
    BY <1>0, <1>4 DEF WriteThread, Write, wechat, Says
  <2> QED BY <1>1, <2>1
<1>5. CASE \E m \in Message : Handle(m)
  <2>1. UNCHANGED <<log, handled>> /\ \A x \in Message : said'[x].kind = "none" => said[x].kind = "none"
    <3>1. PICK m \in Message : Handle(m)
      BY <1>5
    <3>2. UNCHANGED <<log, handled>> /\ (said' = said \/ said' = [said EXCEPT ![m].about = Question])
      BY <3>1 DEF Handle, TakeAnswer, TakeVerdict, TakeButton, TakeStop, TakePrompt, wechat
    <3>3. CASE said' = [said EXCEPT ![m].about = Question]
      BY <1>0, <3>2, <3>3
    <3> QED BY <3>2, <3>3
  <2> QED BY <1>1, <2>1
<1>6. CASE \E m \in Message : Answer(m) \/ StopTurns(m) \/ StartTurn(m) \/ TurnStep(m)
  BY <1>1, <1>6 DEF Answer, StopTurns, StartTurn, TurnStep, HandleTextDelta, WriteEnds, Ask, PostAppears, PostEnds,
         PostFails, Expire, Finish, wechat
<1>7. CASE (RunnerStep /\ ~HandleIncoming) \/ ResetCursor \/ Crash
  BY <1>1, <1>7 DEF RunnerStep, ResetCursor, Crash, Start, Fetch, PersistCursor, Command, OpenTurn, TurnEnds, SendText
<1>8. CASE UNCHANGED vars
  BY <1>1, <1>8 DEF vars, wechat
<1> QED BY <1>2, <1>3, <1>4, <1>5, <1>6, <1>7, <1>8 DEF Next
LEMMA HandledStep == TypeInv /\ LogInv /\ HandledInv /\ [Next]_vars => HandledInv'
<1> SUFFICES ASSUME TypeInv, LogInv, HandledInv, [Next]_vars, "reset" \notin lapse' PROVE RunnerInv'
  BY DEF HandledInv
<1>0. /\ handled \in [Message -> Nat] /\ log \in Seq(Message) /\ Len(log) \in Nat
      /\ runner \in Runners /\ saved \in Nat
      /\ runner.batch \in Seq(Message) /\ runner.cursor \in Nat /\ saved <= Len(log) /\ runner.cursor <= Len(log)
      /\ runner.pc \in {"down", "poll", "saving", "batch", "command", "opening", "turn", "sending"}
  BY TypesByName DEF TypeInv, Runners
<1>a. "reset" \notin lapse
  BY DEF Next, WriteThread, WriteWeChat, Handle, Answer, StopTurns, StartTurn, TurnStep, HandleTextDelta, WriteEnds,
         Ask, PostAppears, PostEnds, PostFails, Expire, Finish, RunnerStep, ResetCursor, Crash, Start, Fetch,
         PersistCursor, HandleIncoming, Command, OpenTurn, TurnEnds, SendText, Drop, ghosts, vars
<1>b. RunnerInv
  BY <1>a DEF HandledInv
<1>e. \A i \in 1..Len(<<>>) : FALSE
  BY EmptySeq
<1>1. CASE UNCHANGED <<log, handled, saved, runner>>
  BY <1>b, <1>1 DEF RunnerInv, Counted
<1>2. CASE \E m \in Message : WriteWeChat(m)
  <2>1. PICK m \in Message : WriteWeChat(m)
    BY <1>2
  <2>2. /\ log' = Append(log, m) /\ UNCHANGED <<handled, saved, runner>> /\ said[m].kind = "none"
    BY <2>1 DEF WriteWeChat
  <2>3. /\ Len(log') = Len(log) + 1
        /\ \A i \in 1..Len(log) : log'[i] = log[i]
        /\ log'[Len(log) + 1] = m
    BY <1>0, <2>2, AppendProperties
  <2>4. handled[m] = 0
    BY <2>2 DEF LogInv
  <2>5. \A i \in 1..Len(log') : i \in 1..Len(log) \/ i = Len(log) + 1
    BY <1>0, <2>3
  <2>6. \A i \in 1..Len(log) : i \in 1..Len(log')
    BY <1>0, <2>3
  <2>7. \A k \in 1..Len(log') : k > saved => handled[log'[k]] = 0
    BY <1>b, <2>3, <2>4, <2>5 DEF RunnerInv
  <2>8. ASSUME NEW i \in 1..Len(runner.batch)
        PROVE  \E k \in 1..Len(log') :
                 /\ log'[k] = runner.batch[i]
                 /\ IF runner.pc = "saving" THEN saved < k /\ k <= runner.cursor ELSE k <= saved
    BY <1>b, <2>3, <2>6, <2>8 DEF RunnerInv
  <2> QED BY <1>b, <2>2, <2>7, <2>8 DEF RunnerInv, Counted
<1>3. CASE Start
  <2>1. runner' = [pc |-> "poll", batch |-> <<>>, cursor |-> saved] /\ UNCHANGED <<log, saved, handled>>
    BY <1>3 DEF Start
  <2> QED BY <1>0, <1>b, <1>e, <2>1 DEF RunnerInv
<1>4. CASE Fetch
  <2> DEFINE c == runner.cursor
             q == SubSeq(log, c + 1, Len(log))
  <2>1. /\ runner' = [pc |-> "saving", cursor |-> Len(log), batch |-> q]
        /\ runner.pc = "poll" /\ c < Len(log) /\ UNCHANGED <<log, saved, handled>>
    BY <1>4 DEF Fetch
  <2>2. saved <= c /\ c \in 0..Len(log) - 1
    BY <1>0, <1>b, <2>1 DEF RunnerInv
  <2>3. Len(q) = Len(log) - c /\ \A i \in 1..Len(log) - c : q[i] = log[c + i]
    BY <1>0, <2>2, BatchOf
  <2> HIDE DEF q, c
  <2>4. \A i \in 1..Len(q) : c + i \in 1..Len(log) /\ c + i > saved /\ saved < c + i /\ c + i <= Len(log)
    BY <1>0, <2>2, <2>3
  <2>5. \A i \in 1..Len(q) : q[i] = log[c + i]
    BY <2>3
  <2>6. \A i, j \in 1..Len(q) : q[i] = q[j] => i = j
    <3>1. ASSUME NEW i \in 1..Len(q), NEW j \in 1..Len(q), q[i] = q[j] PROVE i = j
      <4>1. c + i = c + j
        BY <2>4, <2>5, <3>1 DEF LogInv
      <4> QED BY <2>2, <4>1
    <3> QED BY <3>1
  <2>7. \A i \in 1..Len(q) : handled[q[i]] = 0
    BY <1>b, <2>4, <2>5 DEF RunnerInv
  <2>8. ASSUME NEW i \in 1..Len(q) PROVE \E k \in 1..Len(log) : log[k] = q[i] /\ saved < k /\ k <= Len(log)
    BY <2>4, <2>5
  <2>9. saved <= Len(log)
    BY <1>0
  <2> QED BY <1>b, <2>1, <2>6, <2>7, <2>8, <2>9 DEF RunnerInv
<1>5. CASE PersistCursor
  <2>1. runner.pc = "saving" /\ UNCHANGED <<log, handled>>
    BY <1>5 DEF PersistCursor
  <2>2. CASE saved' = runner.cursor /\ runner' = [runner EXCEPT !.pc = Rest(runner.batch)]
    <3>1. /\ runner'.pc = Rest(runner.batch) /\ runner'.batch = runner.batch /\ runner'.cursor = runner.cursor
      BY <1>0, <2>2 DEF Runners
    <3>2. runner'.pc \in {"poll", "batch"} /\ (runner'.pc = "poll" => runner.batch = <<>>)
      BY <3>1 DEF Rest
    <3>3. saved <= runner.cursor
      BY <1>b, <2>1 DEF RunnerInv
    <3>4. \A k \in 1..Len(log) : k > runner.cursor => handled[log[k]] = 0
      BY <1>0, <1>b, <3>3 DEF RunnerInv
    <3>5. \A i \in 1..Len(runner.batch) :
            /\ handled[runner.batch[i]] = 0
            /\ \E k \in 1..Len(log) : log[k] = runner.batch[i] /\ k <= runner.cursor
      BY <1>b, <2>1 DEF RunnerInv, Counted
    <3> QED BY <1>0, <1>b, <2>1, <2>2, <3>1, <3>2, <3>4, <3>5 DEF RunnerInv
  <2>3. CASE Drop /\ UNCHANGED saved
    <3>1. runner'.pc = "poll" /\ runner'.batch = <<>> /\ runner'.cursor = runner.cursor
      BY <1>0, <2>3 DEF Drop, Runners
    <3> QED BY <1>b, <1>e, <2>1, <2>3, <3>1 DEF RunnerInv
  <2> QED BY <1>5, <2>2, <2>3 DEF PersistCursor
<1>6. CASE HandleIncoming
  <2> DEFINE h == runner.batch[1]
  <2>1. h = Head(runner.batch) /\ h \in Message /\ 1 \in 1..Len(runner.batch) /\ runner.pc = "batch"
    BY <1>6, AtHead DEF HandleIncoming, AtMessage
  <2>2. /\ handled' = [handled EXCEPT ![h] = @ + 1] /\ UNCHANGED <<log, saved>>
        /\ \E pc \in {"opening", "command"} : runner' = [runner EXCEPT !.pc = pc]
    BY <1>6, <2>1 DEF HandleIncoming
  <2>3. /\ runner'.pc \in {"opening", "command"} /\ runner'.batch = runner.batch /\ runner'.cursor = runner.cursor
    BY <1>0, <2>2 DEF Runners
  <2>4. handled[h] = 0
    BY <1>b, <2>1 DEF RunnerInv, Counted
  <2>5. PICK k0 \in 1..Len(log) : log[k0] = h /\ k0 <= saved
    BY <1>b, <2>1 DEF RunnerInv
  <2>6. handled'[h] = 1 /\ \A x \in Message \ {h} : handled'[x] = handled[x]
    BY <1>0, <2>1, <2>2, <2>4
  <2>7. \A k \in 1..Len(log) : k > saved => log[k] # h /\ log[k] \in Message
    BY <1>0, <2>5 DEF LogInv
  <2>8. \A i \in 1..Len(runner.batch) : i = 1 \/ (runner.batch[i] # h /\ runner.batch[i] \in Message)
    BY <1>0, <1>b, <2>1 DEF RunnerInv
  <2> HIDE DEF h
  <2>9. \A m \in Message : handled'[m] <= 1
    BY <1>b, <2>6 DEF RunnerInv
  <2>10. \A k \in 1..Len(log) : k > saved => handled'[log[k]] = 0
    BY <1>b, <2>6, <2>7 DEF RunnerInv
  <2>11. \A i \in 1..Len(runner.batch) : handled'[runner.batch[i]] = 0 \/ i = 1
    BY <1>b, <2>1, <2>6, <2>8 DEF RunnerInv, Counted
  <2>12. \A i \in 1..Len(runner.batch) : \E k \in 1..Len(log) : log[k] = runner.batch[i] /\ k <= saved
    BY <1>b, <2>1 DEF RunnerInv
  <2> QED BY <1>b, <2>1, <2>2, <2>3, <2>9, <2>10, <2>11, <2>12 DEF RunnerInv, Counted
<1>7. CASE /\ runner.pc \in {"command", "opening", "turn"}
           /\ \E pc \in {"sending", "turn"} : runner' = [runner EXCEPT !.pc = pc]
           /\ UNCHANGED <<log, saved, handled>>
  <2>1. /\ runner'.pc \in {"sending", "turn"} /\ runner'.batch = runner.batch /\ runner'.cursor = runner.cursor
    BY <1>0, <1>7 DEF Runners
  <2> QED BY <1>b, <1>7, <2>1 DEF RunnerInv, Counted
<1>8. CASE Drop /\ runner.pc # "down" /\ UNCHANGED <<log, saved, handled>>
  <2>1. runner'.pc = "poll" /\ runner'.batch = <<>> /\ runner'.cursor = runner.cursor
    BY <1>0, <1>8 DEF Drop, Runners
  <2> QED BY <1>b, <1>e, <1>8, <2>1 DEF RunnerInv
<1>9. CASE /\ runner.pc = "sending" /\ UNCHANGED <<log, saved, handled>>
           /\ runner' = [runner EXCEPT !.pc = Rest(Tail(runner.batch)), !.batch = Tail(@)]
  <2> DEFINE t == Tail(runner.batch)
             b == runner.batch
  <2>1. /\ Len(b) \in Nat \ {0} /\ Len(t) = Len(b) - 1 /\ \A i \in 1..Len(b) - 1 : t[i] = b[i + 1]
    BY <1>9, AtHead DEF AtMessage
  <2>2. /\ runner'.pc = Rest(t) /\ runner'.batch = t /\ runner'.cursor = runner.cursor
    BY <1>0, <1>9 DEF Runners
  <2>3. runner'.pc \in {"poll", "batch"} /\ (runner'.pc = "poll" => t = <<>>)
    BY <2>2 DEF Rest
  <2> HIDE DEF t, b
  <2>4. \A i \in 1..Len(t) : i + 1 \in 1..Len(b) /\ i + 1 # 1 /\ t[i] = b[i + 1]
    BY <2>1
  <2>5. \A i, j \in 1..Len(t) : t[i] = t[j] => i = j
    <3>1. ASSUME NEW i \in 1..Len(t), NEW j \in 1..Len(t), t[i] = t[j] PROVE i = j
      <4>1. i + 1 \in 1..Len(b) /\ j + 1 \in 1..Len(b) /\ b[i + 1] = b[j + 1]
        BY <2>4, <3>1
      <4>2. \A x, y \in 1..Len(b) : b[x] = b[y] => x = y
        BY <1>b DEF RunnerInv, b
      <4>3. i + 1 = j + 1
        BY <4>1, <4>2
      <4> QED BY <2>1, <4>3
    <3> QED BY <3>1
  <2>6. \A i \in 1..Len(b) : /\ handled[b[i]] = 0 \/ i = 1
                             /\ \E k \in 1..Len(log) : log[k] = b[i] /\ k <= saved
    BY <1>b, <1>9 DEF RunnerInv, Counted, b
  <2>7. \A i \in 1..Len(t) : /\ handled[t[i]] = 0
                             /\ \E k \in 1..Len(log) : log[k] = t[i] /\ k <= saved
    <3>1. ASSUME NEW i \in 1..Len(t)
          PROVE  handled[t[i]] = 0 /\ \E k \in 1..Len(log) : log[k] = t[i] /\ k <= saved
      <4>1. i + 1 \in 1..Len(b) /\ i + 1 # 1 /\ t[i] = b[i + 1]
        BY <2>4
      <4>2. handled[b[i + 1]] = 0 /\ \E k \in 1..Len(log) : log[k] = b[i + 1] /\ k <= saved
        BY <2>6, <4>1
      <4> QED BY <4>1, <4>2
    <3> QED BY <3>1
  <2>8. /\ saved <= runner.cursor /\ \A m \in Message : handled[m] <= 1
        /\ \A k \in 1..Len(log) : k > saved => handled[log[k]] = 0
    BY <1>b, <1>9 DEF RunnerInv
  <2>9. UNCHANGED <<log, saved, handled>>
    BY <1>9
  <2> QED BY <2>2, <2>3, <2>5, <2>7, <2>8, <2>9 DEF RunnerInv
<1>10. CASE Crash
  <2>1. /\ runner' = [pc |-> "down", batch |-> <<>>, cursor |-> 0]
        /\ UNCHANGED <<log, handled, saved>>
    BY <1>10 DEF Crash
  <2> QED BY <1>b, <1>e, <2>1 DEF RunnerInv
<1>11. CASE ResetCursor
  BY <1>11 DEF ResetCursor
<1>12. CASE \E m \in Message :
              \/ WriteThread(m) \/ Handle(m) \/ Answer(m) \/ StopTurns(m) \/ StartTurn(m) \/ TurnStep(m)
  BY <1>1, <1>12 DEF WriteThread, Handle, Answer, StopTurns, StartTurn, TurnStep, HandleTextDelta, WriteEnds,
         Ask, PostAppears, PostEnds, PostFails, Expire, Finish, wechat
<1>13. CASE UNCHANGED vars
  BY <1>1, <1>13 DEF vars, wechat
<1>14. CASE Command \/ OpenTurn \/ TurnEnds \/ SendText
  BY <1>7, <1>8, <1>9, <1>14 DEF Command, OpenTurn, TurnEnds, SendText
<1> QED BY <1>2, <1>3, <1>4, <1>5, <1>6, <1>10, <1>11, <1>12, <1>13, <1>14 DEF Next, RunnerStep

\* A message to the account is handled once, however often the runner dies and
\* starts again, unless the cursor is lost.
THEOREM EachHandledOnce == Spec => []HandledOnce
<1>1. HandledInv => HandledOnce
  BY DEF HandledInv, RunnerInv, HandledOnce
<1> QED BY <1>1, InitTypes, InitInvs, TypeStep, ReplyStep, LogStep, HandledStep, PTL DEF Spec
=============================================================================
