------------------------ MODULE RequestLifecycleProofs ------------------------
(* Theorems about RequestLifecycle, for all messages, authors and handlers,  *)
(* every retry limit and any number of deliveries and crashes.               *)
EXTENDS RequestLifecycle, QueueFilterProofs

-----------------------------------------------------------------------------
(* The tasks that wait for the journal.                                     *)

Unique(s) == \A i, j \in DOMAIN s : s[i] = s[j] => i = j

\* A task that resumes leaves the others in their order.
LEMMA WithoutTask ==
  ASSUME fifo \in Seq(Tasks), Unique(fifo), NEW t \in Tasks
  PROVE  /\ Without(t) \in Seq(Tasks)
         /\ Unique(Without(t))
         /\ \A i \in DOMAIN Without(t) : Without(t)[i] # t
<1>1. CASE \A i \in DOMAIN fifo : fifo[i] # t
  BY <1>1 DEF Without
<1>2. CASE ~\A i \in DOMAIN fifo : fifo[i] # t
  <2> DEFINE n == CHOOSE i \in DOMAIN fifo : fifo[i] = t
             rest == [i \in 1 .. Len(fifo) - 1 |-> fifo[IF i < n THEN i ELSE i + 1]]
  <2>1. n \in DOMAIN fifo /\ fifo[n] = t
    BY <1>2
  <2>2. Len(fifo) \in Nat /\ DOMAIN fifo = 1 .. Len(fifo)
    BY LenProperties
  <2>3. Without(t) = rest
    BY <1>2 DEF Without
  <2> HIDE DEF n
  <2>4. n \in 1 .. Len(fifo) /\ Len(fifo) - 1 \in Nat /\ DOMAIN rest = 1 .. Len(fifo) - 1
    BY <2>1, <2>2
  <2>5. \A i \in DOMAIN rest : (IF i < n THEN i ELSE i + 1) \in DOMAIN fifo \ {n}
    BY <2>2, <2>4
  <2>6. rest \in [1 .. Len(fifo) - 1 -> Tasks]
    BY <2>2, <2>4, <2>5, ElementOfSeq
  <2>7. rest \in Seq(Tasks)
    BY <2>4, <2>6
  <2>8. \A i \in DOMAIN rest : rest[i] # t
    BY <2>1, <2>5 DEF Unique
  <2>9. Unique(rest)
    <3> SUFFICES ASSUME NEW i \in DOMAIN rest, NEW j \in DOMAIN rest, rest[i] = rest[j]
                 PROVE  i = j
      BY DEF Unique
    <3>1. (IF i < n THEN i ELSE i + 1) = IF j < n THEN j ELSE j + 1
      BY <2>5 DEF Unique
    <3> QED BY <2>2, <2>4, <3>1
  <2> QED BY <2>3, <2>7, <2>8, <2>9
<1> QED BY <1>1, <1>2

\* What a step of t makes of the waiting tasks.
FifoStep(t) == fifo' \in {fifo, Without(t), Append(Without(t), t)}

\* A task is in the journal's line of waiters once at most (submit).
LEMMA FifoKept ==
  ASSUME fifo \in Seq(Tasks), Unique(fifo), NEW t \in Tasks, FifoStep(t)
  PROVE  fifo' \in Seq(Tasks) /\ Unique(fifo')
<1> DEFINE w == Without(t)
<1>1. w \in Seq(Tasks) /\ Unique(w) /\ \A i \in DOMAIN w : w[i] # t
  BY WithoutTask
<1> HIDE DEF w
<1>2. /\ Append(w, t) \in Seq(Tasks) /\ DOMAIN w = 1 .. Len(w) /\ Len(w) \in Nat
      /\ DOMAIN Append(w, t) = 1 .. Len(w) + 1 /\ Append(w, t)[Len(w) + 1] = t
      /\ \A i \in 1 .. Len(w) : Append(w, t)[i] = w[i]
  BY <1>1
<1>3. Unique(Append(w, t))
  BY <1>1, <1>2 DEF Unique
<1>4. fifo' \in {fifo, w, Append(w, t)}
  BY DEF FifoStep, w
<1> QED BY <1>1, <1>2, <1>3, <1>4

-----------------------------------------------------------------------------
(* The journal.                                                             *)

\* A transaction never takes back the checkpoint and never removes a row.
Grows(r, s) ==
  /\ s \in Row
  /\ r.effects => s.effects
  /\ r.status # "absent" => s.status # "absent"

\* Every transaction of RequestJournal keeps the row and its checkpoint.
LEMMA TransactionsGrow ==
  ASSUME NEW r \in Row
  PROVE  /\ Grows(r, r)
         /\ Grows(r, Accepted(r)) /\ Accepted(r).status # "absent"
         /\ \A status \in Pending \cup Terminal :
              Grows(r, Updated(r, status)) /\ Grows(r, Recorded(r, status))
         /\ Grows(r, Begun(r))
         /\ Grows(r, Checkpointed(r)) /\ (r.status # "absent" => Checkpointed(r).effects)
         /\ Grows(r, Answered(r))
         /\ Grows(r, Restarted(r))
<1>1. Grows(r, r) /\ Grows(r, Accepted(r)) /\ Accepted(r).status # "absent"
  BY DEF Grows, Row, Accepted, Pending
<1>2. ASSUME NEW status \in Pending \cup Terminal
      PROVE  Grows(r, Updated(r, status)) /\ Grows(r, Recorded(r, status))
  <2>1. Grows(r, Updated(r, status))
    BY DEF Grows, Row, Updated, Pending, Terminal
  <2> QED BY <1>1, <2>1 DEF Recorded
<1>3. Grows(r, Begun(r))
  <2>1. r.attempts \in Nat /\ r.attempts + 1 \in Nat /\ r.effects \in BOOLEAN
    BY DEF Row
  <2> DEFINE n == r.attempts + 1
  <2>2. Begun(r) = [r EXCEPT !.status = "running", !.attempts = n]
    BY DEF Begun
  <2>3. n \in Nat
    BY <2>1
  <2> HIDE DEF n
  <2> QED BY <2>2, <2>3 DEF Grows, Row, Pending
<1>4. Grows(r, Checkpointed(r)) /\ (r.status # "absent" => Checkpointed(r).effects)
  BY DEF Grows, Row, Checkpointed
<1>5. Grows(r, Answered(r))
  BY DEF Grows, Row, Answered, Terminal
<1>6. Grows(r, Restarted(r))
  <2>1. {"failed", "suppressed"} \subseteq Pending \cup Terminal
    BY DEF Terminal
  <2> QED BY <1>1, <1>2, <2>1 DEF Restarted
<1> QED BY <1>1, <1>2, <1>3, <1>4, <1>5, <1>6

RowsGrow == row' \in [Messages -> Row] /\ \A m \in Messages : Grows(row[m], row'[m])

\* A transaction that reads changes no row.
LEMMA ReadGrows ==
  ASSUME row \in [Messages -> Row], touched \in BOOLEAN, Read
  PROVE  RowsGrow /\ touched' \in BOOLEAN
<1>1. row' = row /\ touched' = touched
  BY DEF Read
<1> QED BY <1>1, TransactionsGrow DEF RowsGrow

\* A transaction on one row keeps the others.
LEMMA WriteGrows ==
  ASSUME row \in [Messages -> Row], touched \in BOOLEAN, NEW m \in Messages, NEW r,
         Grows(row[m], r), Write(m, r)
  PROVE  RowsGrow /\ touched' \in BOOLEAN /\ row'[m] = r
<1>1. row' = [row EXCEPT ![m] = r] /\ touched' = (touched \/ Watched(m))
  BY DEF Write
<1>2. r \in Row
  BY DEF Grows
<1>3. row' \in [Messages -> Row] /\ \A k \in Messages : row'[k] = IF k = m THEN r ELSE row[k]
  BY <1>1, <1>2
<1>4. touched' \in BOOLEAN
  BY <1>1, Zenon
<1> QED BY <1>3, <1>4, TransactionsGrow DEF RowsGrow

\* The records of dropped entries keep the rows they are written to.
LEMMA SupersedingGrows ==
  ASSUME row \in [Messages -> Row], NEW S, Superseding(S)
  PROVE  RowsGrow /\ touched' \in BOOLEAN
<1>1. row' = [k \in Messages |-> IF k \in S THEN Recorded(row[k], "superseded") ELSE row[k]]
  BY DEF Superseding
<1>2. touched' = (touched \/ \E k \in S : Watched(k))
  BY DEF Superseding
<1>3. \A k \in Messages : Grows(row[k], row[k]) /\ Grows(row[k], Recorded(row[k], "superseded"))
  BY TransactionsGrow DEF Terminal
<1>4. \A k \in Messages : Grows(row[k], row'[k])
  BY <1>1, <1>3
<1>5. row' \in [Messages -> Row]
  BY <1>1, <1>3 DEF Grows
<1>6. touched' \in BOOLEAN
  BY <1>2, Zenon
<1> QED BY <1>4, <1>5, <1>6 DEF RowsGrow

-----------------------------------------------------------------------------
(* The inductive invariant.                                                 *)

TaskState == [at : Locations, msg : Messages \cup {0}, why : Whys, todo : Nat]

Resting == {"idle", "dead"}

\* A task at work is at work for a message of the journal.
Occupied ==
  \A t \in Tasks : task[t].at \notin Resting => msg(t) \in Messages /\ row[msg(t)].status # "absent"

\* So is a waiting entry.
QueueJournaled == \A i \in DOMAIN queue : row[queue[i]].status # "absent"

\* No effect was started that the journal does not know of.
Committed == \A m \in Messages : acts[m] > 0 => row[m].effects

\* A turn that did nothing yet is the first that may.
Untouched == task[Turn].at \in TurnOnly /\ ~acted => acts[msg(Turn)] = 0

\* The checkpoint is behind a turn that is about to act.
CheckedOut == task[Turn].at = "acting" => row[msg(Turn)].effects

\* Only the retry loop can die.
TurnLives == task[Turn].at # "dead"

IInv ==
  /\ TypeOK
  /\ EffectsOnce
  /\ Occupied
  /\ QueueJournaled
  /\ Committed
  /\ Untouched
  /\ CheckedOut
  /\ TurnLives

-----------------------------------------------------------------------------
(* The step of a task.                                                      *)

\* What may become of the turn: it begins on a row without effects only, and
\* it is about to act only behind the checkpoint.
TurnStep ==
  /\ msg(Turn)' \in {msg(Turn), 0}
  /\ task'[Turn].at \in TurnOnly =>
       /\ msg(Turn)' = msg(Turn)
       /\ task[Turn].at \notin Resting
       /\ task[Turn].at \in TurnOnly \/ ~row[msg(Turn)].effects
  /\ task'[Turn].at = "acting" => row'[msg(Turn)].effects
  /\ task'[Turn].at # "dead"

\* What no task does to the queue but Enqueue and NextTurn.
QueueShrinks ==
  /\ queue' \in Seq(Messages)
  /\ Unique(queue')
  /\ \A i \in DOMAIN queue' : \E j \in DOMAIN queue : queue'[i] = queue[j]

\* A step of t that starts no effect and adds nothing to the queue.
Moves(t) ==
  /\ RowsGrow
  /\ FifoStep(t)
  /\ task' \in [Tasks -> TaskState]
  /\ \A u \in Tasks \ {t} : task'[u] = task[u]
  /\ task'[t].at \in Resting \/ (msg(t)' \in Messages /\ row'[msg(t)'].status # "absent")
  /\ t = Turn => TurnStep
  /\ QueueShrinks
  /\ owned' \in SUBSET Messages
  /\ stop' \in {"none", "asked", "raised"}
  /\ latest' \in Messages \cup {0}
  /\ marked' \in SUBSET Messages
  /\ touched' \in BOOLEAN
  /\ given' \in [Messages -> Nat]
  /\ shared' \in SUBSET Messages
  /\ UNCHANGED <<acted, crashes, acts>>

\* The heart of the proof: what a step may do to task t and to the rest so that
\* the invariant is kept.
LEMMA MovesKeep ==
  ASSUME IInv, NEW t \in Tasks, Moves(t)
  PROVE  IInv'
<1> USE DEF Moves
<1>1. TypeOK'
  <2>1. fifo \in Seq(Tasks) /\ Unique(fifo)
    BY DEF IInv, TypeOK, Unique
  <2>2. fifo' \in Seq(Tasks) /\ Unique(fifo')
    BY <2>1, FifoKept
  <2>3. \A i \in DOMAIN queue' : queue'[i] # msg(Turn)'
    <3> SUFFICES ASSUME NEW i \in DOMAIN queue'
                 PROVE  queue'[i] # msg(Turn)'
      OBVIOUS
    <3>1. PICK j \in DOMAIN queue : queue'[i] = queue[j]
      BY DEF QueueShrinks
    <3>2. queue[j] # msg(Turn) /\ queue[j] \in Messages /\ queue[j] # 0
      BY LifecycleAssumption, ElementOfSeq DEF IInv, TypeOK, msg
    <3>3. msg(Turn)' \in {msg(Turn), 0}
      BY DEF TurnStep, msg, Tasks
    <3> QED BY <3>1, <3>2, <3>3
  <2>4. /\ row' \in [Messages -> Row]
        /\ queue' \in Seq(Messages) /\ Unique(queue')
        /\ acted' \in BOOLEAN /\ crashes' \in Nat /\ acts' \in [Messages -> Nat]
    BY DEF RowsGrow, QueueShrinks, IInv, TypeOK
  <2> QED BY <2>2, <2>3, <2>4 DEF TypeOK, TaskState, Unique, msg
<1>2. EffectsOnce' /\ Committed'
  BY DEF IInv, EffectsOnce, Committed, RowsGrow, Grows
<1>3. Occupied'
  <2> SUFFICES ASSUME NEW u \in Tasks, task'[u].at \notin Resting
               PROVE  msg(u)' \in Messages /\ row'[msg(u)'].status # "absent"
    BY DEF Occupied
  <2>1. CASE u = t
    BY <2>1
  <2>2. CASE u # t
    <3>1. task'[u] = task[u]
      BY <2>2
    <3>2. msg(u) \in Messages /\ row[msg(u)].status # "absent" /\ msg(u)' = msg(u)
      BY <3>1 DEF IInv, Occupied, msg
    <3> QED BY <3>2 DEF RowsGrow, Grows
  <2> QED BY <2>1, <2>2
<1>4. QueueJournaled'
  <2> SUFFICES ASSUME NEW i \in DOMAIN queue'
               PROVE  row'[queue'[i]].status # "absent"
    BY DEF QueueJournaled
  <2>1. PICK j \in DOMAIN queue : queue'[i] = queue[j]
    BY DEF QueueShrinks
  <2>2. queue[j] \in Messages /\ row[queue[j]].status # "absent"
    BY ElementOfSeq DEF IInv, TypeOK, QueueJournaled
  <2> QED BY <2>1, <2>2 DEF RowsGrow, Grows
<1>5. Turn \in Tasks
  BY DEF Tasks
<1>6. CASE t # Turn
  <2>1. task'[Turn] = task[Turn] /\ msg(Turn)' = msg(Turn)
    BY <1>5, <1>6 DEF msg
  <2>2. Untouched'
    BY <2>1 DEF IInv, Untouched, msg
  <2>3. CheckedOut'
    <3>1. task[Turn].at = "acting" => msg(Turn) \in Messages
      BY <1>5 DEF IInv, Occupied, Resting
    <3> QED BY <2>1, <3>1 DEF IInv, CheckedOut, RowsGrow, Grows, msg
  <2> QED BY <1>1, <1>2, <1>3, <1>4, <2>1, <2>2, <2>3 DEF IInv, TurnLives
<1>7. CASE t = Turn
  <2>1. Untouched'
    <3> SUFFICES ASSUME task'[Turn].at \in TurnOnly, ~acted
                 PROVE  acts[msg(Turn)'] = 0
      BY DEF Untouched
    <3>1. /\ msg(Turn)' = msg(Turn) /\ task[Turn].at \notin Resting
          /\ task[Turn].at \in TurnOnly \/ ~row[msg(Turn)].effects
      BY <1>7 DEF TurnStep
    <3>2. msg(Turn) \in Messages
      BY <1>5, <3>1 DEF IInv, Occupied
    <3>3. ~row[msg(Turn)].effects => acts[msg(Turn)] = 0
      BY <3>2 DEF IInv, Committed, TypeOK
    <3> QED BY <3>1, <3>3 DEF IInv, Untouched
  <2>2. CheckedOut'
    BY <1>7 DEF TurnStep, CheckedOut, TurnOnly
  <2>3. TurnLives'
    BY <1>7 DEF TurnStep, TurnLives
  <2> QED BY <1>1, <1>2, <1>3, <1>4, <2>1, <2>2, <2>3 DEF IInv
<1> QED BY <1>6, <1>7

-----------------------------------------------------------------------------
(* The shapes of a step.                                                    *)

\* t goes on to p with its message.
Steps(t, p) ==
  /\ task' \in [Tasks -> TaskState]
  /\ \A u \in Tasks \ {t} : task'[u] = task[u]
  /\ task'[t].at = p
  /\ task'[t].msg = msg(t)

\* t comes to rest.
Rests(t) ==
  /\ task' \in [Tasks -> TaskState]
  /\ \A u \in Tasks \ {t} : task'[u] = task[u]
  /\ task'[t].at \in Resting
  /\ task'[t].msg = 0

\* Go moves one task and leaves its message.
LEMMA GoSteps ==
  ASSUME task \in [Tasks -> TaskState], NEW t \in Tasks, NEW p \in Locations
  PROVE  /\ Go(t, p) => Steps(t, p)
         /\ \A why \in Whys :
              task' = [task EXCEPT ![t].at = p, ![t].why = why] => Steps(t, p)
         /\ \A n \in Nat :
              task' = [task EXCEPT ![t].at = p, ![t].todo = n] => Steps(t, p)
<1> DEFINE x == task[t]
<1>1. x \in TaskState
  OBVIOUS
<1>2. [x EXCEPT !.at = p] \in TaskState /\ [x EXCEPT !.at = p].at = p
      /\ [x EXCEPT !.at = p].msg = x.msg
  BY <1>1 DEF TaskState
<1>3. ASSUME NEW why \in Whys
      PROVE  /\ [x EXCEPT !.at = p, !.why = why] \in TaskState
             /\ [x EXCEPT !.at = p, !.why = why].at = p
             /\ [x EXCEPT !.at = p, !.why = why].msg = x.msg
  BY <1>1 DEF TaskState
<1>4. ASSUME NEW n \in Nat
      PROVE  /\ [x EXCEPT !.at = p, !.todo = n] \in TaskState
             /\ [x EXCEPT !.at = p, !.todo = n].at = p
             /\ [x EXCEPT !.at = p, !.todo = n].msg = x.msg
  BY <1>1 DEF TaskState
<1>5. ASSUME NEW y \in TaskState, y.at = p, y.msg = x.msg, task' = [task EXCEPT ![t] = y]
      PROVE  Steps(t, p)
  BY <1>5 DEF Steps, msg
<1>6. Go(t, p) => task' = [task EXCEPT ![t] = [x EXCEPT !.at = p]]
  BY DEF Go
<1>7. \A why \in Whys : task' = [task EXCEPT ![t].at = p, ![t].why = why]
        => task' = [task EXCEPT ![t] = [x EXCEPT !.at = p, !.why = why]]
  OBVIOUS
<1>8. \A n \in Nat : task' = [task EXCEPT ![t].at = p, ![t].todo = n]
        => task' = [task EXCEPT ![t] = [x EXCEPT !.at = p, !.todo = n]]
  OBVIOUS
<1> HIDE DEF x
<1> QED BY <1>2, <1>3, <1>4, <1>5, <1>6, <1>7, <1>8, ZenonT(60)

\* So does the failure of an admission, which counts no operations any more.
LEMMA FailsSteps ==
  ASSUME task \in [Tasks -> TaskState], NEW t \in Tasks, NEW p \in Locations, NEW why \in Whys,
         task' = [task EXCEPT ![t].at = p, ![t].why = why, ![t].todo = 0]
  PROVE  Steps(t, p)
<1> DEFINE y == [task[t] EXCEPT !.at = p, !.why = why, !.todo = 0]
<1>1. y \in TaskState /\ y.at = p /\ y.msg = task[t].msg
  BY DEF TaskState
<1>2. task' = [task EXCEPT ![t] = y]
  OBVIOUS
<1> HIDE DEF y
<1>3. task'[t] = y /\ \A u \in Tasks \ {t} : task'[u] = task[u]
  BY <1>2
<1>4. task' \in [Tasks -> TaskState]
  BY <1>1, <1>2
<1> QED BY <1>1, <1>3, <1>4 DEF Steps, msg

\* A task that stops rests, without a message.
LEMMA StopsRests ==
  ASSUME task \in [Tasks -> TaskState], NEW t \in Tasks, Stops(t)
  PROVE  Rests(t) /\ task'[t].at # "dead"
<1>1. Idle \in TaskState /\ Idle.at = "idle" /\ Idle.msg = 0
  BY DEF Idle, TaskState, Locations, Whys, Resting
<1> QED BY <1>1 DEF Stops, Rests, Resting

\* What a step leaves alone that neither interrupts nor queues anything.
Quiet ==
  /\ UNCHANGED <<queue, stop, latest, marked, acted, given, crashes, acts>>
  /\ shared' \in {shared, shared \cup ({msg(Retry)} \cap owned)}

\* A step of t that goes on with its message keeps the invariant.
LEMMA StepKeeps ==
  ASSUME IInv, NEW t \in Tasks, NEW p, task[t].at \notin Resting,
         Steps(t, p), RowsGrow, touched' \in BOOLEAN, FifoStep(t),
         owned' \in SUBSET Messages, Quiet,
         t = Turn => /\ p \in TurnOnly => task[t].at \in TurnOnly
                     /\ p \notin {"acting", "dead"}
  PROVE  IInv'
<1>1. msg(t) \in Messages /\ row[msg(t)].status # "absent" /\ msg(t)' = msg(t)
  BY DEF IInv, Occupied, Steps, msg
<1>2. row'[msg(t)].status # "absent"
  BY <1>1 DEF RowsGrow, Grows
<1>3. t = Turn => TurnStep
  BY <1>1 DEF TurnStep, Steps
<1>4. QueueShrinks
  BY DEF QueueShrinks, Quiet, history, IInv, TypeOK, Unique
<1>5. Moves(t)
  BY <1>1, <1>2, <1>3, <1>4 DEF Moves, Steps, Quiet, history, IInv, TypeOK
<1> QED BY <1>5, MovesKeep

\* A step with which t gives its message up keeps the invariant.
LEMMA RestKeeps ==
  ASSUME IInv, NEW t \in Tasks, Rests(t), RowsGrow, touched' \in BOOLEAN, FifoStep(t),
         owned' \in SUBSET Messages, Quiet,
         t = Turn => task'[t].at # "dead"
  PROVE  IInv'
<1>1. t = Turn => TurnStep
  BY DEF TurnStep, Rests, Resting, TurnOnly, msg
<1>2. QueueShrinks
  BY DEF QueueShrinks, Quiet, history, IInv, TypeOK, Unique
<1>3. Moves(t)
  BY <1>1, <1>2 DEF Moves, Rests, Quiet, history, IInv, TypeOK
<1> QED BY <1>3, MovesKeep

\* The types the steps below use.
LEMMA Typed ==
  ASSUME IInv
  PROVE  /\ row \in [Messages -> Row]
         /\ task \in [Tasks -> TaskState]
         /\ touched \in BOOLEAN
         /\ owned \in SUBSET Messages
         /\ \A t \in Tasks : task[t].at \notin Resting =>
              /\ msg(t) \in Messages
              /\ row[msg(t)] \in Row
              /\ row[msg(t)].status # "absent"
BY DEF IInv, TypeOK, TaskState, Occupied

\* Reading or writing the row of an existing request keeps every row.
LEMMA ReadOrWriteGrows ==
  ASSUME IInv, NEW t \in Tasks, task[t].at \notin Resting, NEW r,
         Read \/ (Write(msg(t), r) /\ Grows(row[msg(t)], r))
  PROVE  RowsGrow /\ touched' \in BOOLEAN
BY Typed, ReadGrows, WriteGrows

\* A record before the end (_record_request_outcome) keeps the invariant.
LEMMA RecordKeeps ==
  ASSUME IInv, NEW t \in Tasks, NEW p, NEW status \in Pending \cup Terminal,
         p \notin Resting, Record(t, p, status)
  PROVE  IInv'
<1>1. /\ task[t].at \notin Resting
      /\ Write(msg(t), Recorded(row[msg(t)], status))
      /\ Go(t, "leaving") /\ Await(t)
      /\ owned' = owned /\ Quiet
  BY DEF Record, At, Quiet, history
<1>2. Grows(row[msg(t)], Recorded(row[msg(t)], status))
  BY <1>1, Typed, TransactionsGrow
<1>3. RowsGrow /\ touched' \in BOOLEAN
  BY <1>1, <1>2, ReadOrWriteGrows
<1>4. Steps(t, "leaving")
  BY <1>1, Typed, GoSteps DEF Locations, Failure
<1>5. FifoStep(t) /\ owned' \in SUBSET Messages
  BY <1>1, Typed DEF FifoStep, Await
<1> QED BY <1>1, <1>3, <1>4, <1>5, StepKeeps DEF TurnOnly

-----------------------------------------------------------------------------
(* on_message.                                                              *)

\* drop_author shortens the queue.
LEMMA DropAuthorShrinks ==
  ASSUME IInv, NEW m, DropAuthor(m)
  PROVE  QueueShrinks
<1> DEFINE K == DOMAIN queue \ QueuedAt(m)
<1>1. queue \in Seq(Messages) /\ Unique(queue) /\ K \in SUBSET DOMAIN queue
  BY DEF IInv, TypeOK, Unique
<1>2. queue' \in Kept(queue, K)
  BY DEF DropAuthor
<1> HIDE DEF K
<1>3. queue' \in Seq(Messages)
  BY <1>1, <1>2, KeptEntries, Zenon
<1>4. \A i \in DOMAIN queue' : \E j \in DOMAIN queue : queue'[i] = queue[j]
  <2>1. \A r \in Kept(queue, K) : \A i \in DOMAIN r : \E j \in DOMAIN queue : r[i] = queue[j]
    BY <1>1, KeptWithin
  <2> QED BY <1>2, <2>1
<1>5. Unique(queue')
  BY <1>1, <1>2, KeptUnique, Zenon DEF Unique
<1> QED BY <1>3, <1>4, <1>5 DEF QueueShrinks

\* A step of on_message that may interrupt.
LEMMA InterruptingKeeps ==
  ASSUME IInv, NEW t \in Tasks, t # Turn, NEW p, task[t].at \notin Resting,
         Steps(t, p), RowsGrow, touched' \in BOOLEAN, FifoStep(t), QueueShrinks,
         owned' \in SUBSET Messages,
         stop' \in {"none", "asked", "raised"},
         latest' \in Messages \cup {0},
         marked' \in SUBSET Messages,
         UNCHANGED <<acted, history>>
  PROVE  IInv'
<1>1. msg(t) \in Messages /\ row[msg(t)].status # "absent" /\ msg(t)' = msg(t)
  BY DEF IInv, Occupied, Steps, msg
<1>2. row'[msg(t)].status # "absent"
  BY <1>1 DEF RowsGrow, Grows
<1>3. Moves(t)
  BY <1>1, <1>2 DEF Moves, Steps, history, IInv, TypeOK
<1> QED BY <1>3, MovesKeep

\* A message enters on_message.
LEMMA ReceiveKeeps ==
  ASSUME IInv, NEW t \in Tasks, t # Turn, NEW m \in Messages, Receive(t, m),
         touched' \in BOOLEAN, given' \in [Messages -> Nat], UNCHANGED <<crashes, acts, shared>>
  PROVE  IInv'
<1>1. row' = [row EXCEPT ![m] = Accepted(row[m])]
  BY DEF Receive
<1>2. Grows(row[m], Accepted(row[m])) /\ Accepted(row[m]).status # "absent"
  BY Typed, TransactionsGrow
<1>3. RowsGrow /\ row'[m].status # "absent"
  <2>1. row' \in [Messages -> Row]
    BY <1>1, <1>2, Typed DEF Grows
  <2>2. row'[m] = Accepted(row[m]) /\ \A k \in Messages \ {m} : row'[k] = row[k]
    BY <1>1, Typed
  <2>3. \A k \in Messages \ {m} : Grows(row[k], row'[k])
    BY <2>2, Typed, TransactionsGrow
  <2> QED BY <1>2, <2>1, <2>2, <2>3 DEF RowsGrow
<1>4. /\ task' \in [Tasks -> TaskState]
      /\ \A u \in Tasks \ {t} : task'[u] = task[u]
      /\ msg(t)' = m
  <2> DEFINE x == [Idle EXCEPT !.at = "accepted", !.msg = m]
  <2>1. x \in TaskState /\ x.msg = m
    BY DEF Idle, TaskState, Locations, Admission, Whys
  <2>2. task' = [task EXCEPT ![t] = x]
    BY DEF Receive
  <2> HIDE DEF x
  <2> QED BY <2>1, <2>2, Typed DEF msg
<1>5. QueueShrinks
  BY DEF QueueShrinks, Receive, IInv, TypeOK, Unique
<1>6. FifoStep(t)
  BY DEF FifoStep, Receive, Await
<1>7. Moves(t)
  BY <1>3, <1>4, <1>5, <1>6 DEF Moves, Receive, IInv, TypeOK
<1> QED BY <1>7, MovesKeep

\* The common step of a task other than the turn: it reads or writes the row
\* of its message and goes on.
LEMMA GoKeeps ==
  ASSUME IInv, NEW t \in Tasks, t # Turn, task[t].at \notin Resting, NEW p \in Locations,
         Go(t, p), Await(t) \/ Proceed(t), RowsGrow, touched' \in BOOLEAN,
         owned' \in SUBSET Messages, Quiet
  PROVE  IInv'
<1>1. Steps(t, p)
  BY Typed, GoSteps
<1>2. FifoStep(t)
  BY DEF FifoStep, Await, Proceed
<1> QED BY <1>1, <1>2, StepKeeps

\* The finally block that gives a message up keeps the invariant.
LEMMA DisownKeeps ==
  ASSUME IInv, NEW t \in Tasks, Disown(t), RowsGrow, touched' \in BOOLEAN, Quiet
  PROVE  IInv'
<1>1. Rests(t) /\ task'[t].at # "dead"
  BY Typed, StopsRests DEF Disown
<1>2. FifoStep(t) /\ owned' \in SUBSET Messages
  BY Typed DEF FifoStep, Disown, Proceed
<1> QED BY <1>1, <1>2, RestKeeps

\* The last read of on_message keeps the invariant.
LEMMA LastLookKeeps ==
  ASSUME IInv, NEW t \in Tasks, t # Turn, task[t].at \notin Resting, LastLook(t), Read,
         owned' = owned, Quiet
  PROVE  IInv'
<1>1. RowsGrow /\ touched' \in BOOLEAN /\ owned' \in SUBSET Messages
  BY Typed, ReadGrows
<1>2. CASE Go(t, "unanswered") /\ Await(t)
  BY <1>1, <1>2, GoKeeps DEF Locations, Admission
<1>3. CASE Go(t, "leaving") /\ Await(t)
  BY <1>1, <1>3, GoKeeps DEF Locations, Failure
<1> QED BY <1>2, <1>3 DEF LastLook

\* The first half of on_message keeps the invariant.
LEMMA AdmissionKeeps ==
  ASSUME IInv, NEW t \in Tasks, t # Turn,
         \/ ReadReceipt(t) \/ ResetReceipt(t) \/ Reject(t) \/ Dispatched(t) \/ MarkQueued(t)
         \/ CheckReceipt(t) \/ Suppress(t)
  PROVE  IInv'
<1> DEFINE m == msg(t)
<1>2. task[t].at \notin Resting => m \in Messages /\ row[m] \in Row
  BY Typed
<1>3. CASE ReadReceipt(t)
  <2>1. task[t].at \notin Resting /\ Read /\ Await(t) /\ owned' = owned /\ Quiet
    BY <1>3 DEF ReadReceipt, At, Resting, Quiet, history
  <2>2. Go(t, "leaving") \/ Go(t, "known")
    BY <1>3 DEF ReadReceipt
  <2> QED BY <2>1, <2>2, Typed, ReadGrows, GoKeeps DEF Locations, Admission, Failure
<1>4. CASE ResetReceipt(t)
  <2>1. task[t].at \notin Resting /\ Quiet
    BY <1>4 DEF ResetReceipt, At, Resting, Quiet, history
  <2>2. CASE Disown(t) /\ Read
    BY <2>1, <2>2, Typed, ReadGrows, DisownKeeps
  <2>3. CASE /\ Write(m, Updated(row[m], "received"))
             /\ Go(t, "receiving") /\ Await(t) /\ owned' = owned
    <3>1. Grows(row[m], Updated(row[m], "received"))
      BY <1>2, <2>1, TransactionsGrow DEF Pending
    <3>2. RowsGrow /\ touched' \in BOOLEAN
      BY <2>1, <2>3, <3>1, ReadOrWriteGrows
    <3> QED BY <2>1, <2>3, <3>2, Typed, GoKeeps DEF Locations, Admission
  <2> QED BY <1>4, <2>2, <2>3 DEF ResetReceipt
<1>5. CASE Reject(t)
  <2>1. task[t].at \notin Resting /\ LastLook(t) /\ Read /\ owned' = owned /\ Quiet
    BY <1>5 DEF Reject, At, Resting, Quiet, history
  <2> QED BY <2>1, LastLookKeeps
<1>6. CASE Dispatched(t)
  <2>1. task[t].at \notin Resting /\ LastLook(t) /\ Read /\ owned' = owned /\ Quiet
    BY <1>6 DEF Dispatched, At, Resting, Quiet, history
  <2> QED BY <2>1, LastLookKeeps
<1>7. CASE MarkQueued(t)
  <2>1. task[t].at \notin Resting /\ owned' = owned /\ Quiet
    BY <1>7 DEF MarkQueued, At, Resting, Quiet, history
  <2>2. CASE LastLook(t) /\ Read
    BY <2>1, <2>2, LastLookKeeps
  <2>3. CASE Write(m, Updated(row[m], "queued")) /\ Go(t, "queuing") /\ Await(t)
    <3>1. Grows(row[m], Updated(row[m], "queued"))
      BY <1>2, <2>1, TransactionsGrow DEF Pending
    <3>2. RowsGrow /\ touched' \in BOOLEAN
      BY <2>1, <2>3, <3>1, ReadOrWriteGrows
    <3> QED BY <2>1, <2>3, <3>2, Typed, GoKeeps DEF Locations, Admission
  <2> QED BY <1>7, <2>2, <2>3 DEF MarkQueued
<1>8. CASE CheckReceipt(t)
  <2>1. task[t].at \notin Resting /\ Read /\ Await(t) /\ owned' = owned /\ Quiet
    BY <1>8 DEF CheckReceipt, At, Resting, Quiet, history
  <2>2. FifoStep(t) /\ RowsGrow /\ touched' \in BOOLEAN /\ owned' \in SUBSET Messages
    BY <2>1, Typed, ReadGrows DEF FifoStep, Await
  <2>3. task[t].todo \in Nat
    BY Typed DEF TaskState
  <2>4. CASE task[t].todo > 1 /\ task' = [task EXCEPT ![t].todo = @ - 1]
    <3> DEFINE n == task[t].todo - 1
    <3>1. n \in Nat
      BY <2>3, <2>4
    <3>2. task' = [task EXCEPT ![t].todo = n]
      BY <2>4
    <3> HIDE DEF n
    <3>3. Steps(t, task[t].at)
      <4>1. task[t] \in TaskState /\ [task[t] EXCEPT !.todo = n] \in TaskState
            /\ [task[t] EXCEPT !.todo = n].at = task[t].at
            /\ [task[t] EXCEPT !.todo = n].msg = task[t].msg
        BY <3>1, Typed DEF TaskState
      <4> QED BY <3>2, <4>1, Typed DEF Steps, msg
    <3> QED BY <2>1, <2>2, <3>3, StepKeeps
  <2>5. CASE \E p \in {"dispatched", "cleared"} : task' = [task EXCEPT ![t].at = p, ![t].todo = 0]
    <3>1. PICK p \in {"dispatched", "cleared"} : task' = [task EXCEPT ![t].at = p, ![t].todo = 0]
      BY <2>5
    <3>2. p \in Locations
      BY DEF Locations, Admission
    <3>3. Steps(t, p)
      BY <3>1, <3>2, Typed, GoSteps
    <3> QED BY <2>1, <2>2, <3>3, StepKeeps
  <2> QED BY <1>8, <2>3, <2>4, <2>5 DEF CheckReceipt
<1>9. CASE Suppress(t)
  BY <1>9, RecordKeeps DEF Suppress, Terminal, Resting
<1> QED BY <1>3, <1>4, <1>5, <1>6, <1>7, <1>8, <1>9

\* An interrupt supersedes queued requests and cancels a turn.
LEMMA AdmitKeeps ==
  ASSUME IInv, NEW t \in Tasks, t # Turn, Admit(t)
  PROVE  IInv'
<1>1. /\ task[t].at \notin Resting /\ Go(t, "preparing") /\ Proceed(t)
      /\ owned' = owned /\ UNCHANGED <<acted, history>>
  BY DEF Admit, At, Resting
<1>2. Steps(t, "preparing") /\ FifoStep(t) /\ owned' \in SUBSET Messages
  BY <1>1, Typed, GoSteps DEF Locations, Admission, FifoStep, Proceed
<1>3. msg(t) \in Messages
  BY <1>1, Typed
<1>4. CASE Interrupt(msg(t))
  <2>1. RowsGrow /\ touched' \in BOOLEAN /\ QueueShrinks
    BY <1>4, Typed, SupersedingGrows, DropAuthorShrinks DEF Interrupt
  <2>2. /\ stop' \in {"none", "asked", "raised"}
        /\ latest' \in Messages \cup {0}
        /\ marked' \in SUBSET Messages
    BY <1>3, <1>4 DEF Interrupt, IInv, TypeOK
  <2> QED BY <1>1, <1>2, <2>1, <2>2, InterruptingKeeps
<1>5. CASE Read /\ UNCHANGED <<latest, marked, queue, stop>>
  <2>1. RowsGrow /\ touched' \in BOOLEAN
    BY <1>5, Typed, ReadGrows
  <2> QED BY <1>1, <1>5, <2>1, GoKeeps, Typed DEF Quiet, history, Locations, Admission
<1> QED BY <1>4, <1>5 DEF Admit

\* _dispatch_reply up to its first read keeps the invariant.
LEMMA DispatchKeeps ==
  ASSUME IInv, NEW t \in Tasks, t # Turn, Dispatch(t)
  PROVE  IInv'
<1> DEFINE m == msg(t)
<1>1. /\ task[t].at \notin Resting /\ Await(t)
      /\ UNCHANGED <<owned, stop, marked, acted, history>>
  BY DEF Dispatch, At, Resting
<1>2. FifoStep(t) /\ owned' \in SUBSET Messages
  BY <1>1, Typed DEF FifoStep, Await
<1>3. m \in Messages /\ row[m] \in Row
  BY <1>1, Typed
<1>4. CASE /\ Write(m, Recorded(row[m], "superseded")) /\ Go(t, "dispatched")
           /\ UNCHANGED <<latest, queue>>
  <2>1. RowsGrow /\ touched' \in BOOLEAN
    BY <1>1, <1>3, <1>4, TransactionsGrow, ReadOrWriteGrows DEF Terminal
  <2> QED BY <1>1, <1>4, <2>1, GoKeeps, Typed DEF Quiet, history, Locations, Admission
<1>5. CASE /\ latest' = m /\ Superseding(QueuedBy(m)) /\ DropAuthor(m)
           /\ task' = [task EXCEPT ![t].at = "dispatching",
                                   ![t].todo = 1 + Cardinality(QueuedAt(m))]
  <2> DEFINE n == 1 + Cardinality(QueuedAt(m))
  <2>1. n \in Nat
    <3>1. queue \in Seq(Messages) /\ QueuedAt(m) \subseteq DOMAIN queue
      BY DEF IInv, TypeOK, QueuedAt
    <3>2. Cardinality(QueuedAt(m)) \in Nat
      BY <3>1, Indices, FS_Subset, FS_CardinalityType
    <3> QED BY <3>2
  <2> HIDE DEF n
  <2>2. Steps(t, "dispatching")
    BY <1>5, <2>1, Typed, GoSteps DEF n, Locations, Admission
  <2>3. RowsGrow /\ touched' \in BOOLEAN /\ QueueShrinks
    BY <1>5, Typed, SupersedingGrows, DropAuthorShrinks
  <2>4. /\ stop' \in {"none", "asked", "raised"}
        /\ latest' \in Messages \cup {0}
        /\ marked' \in SUBSET Messages
    BY <1>1, <1>3, <1>5 DEF IInv, TypeOK
  <2> QED BY <1>1, <1>2, <2>2, <2>3, <2>4, InterruptingKeeps
<1>6. CASE /\ task' = [task EXCEPT ![t].at = "dispatching", ![t].todo = 1]
           /\ Read /\ UNCHANGED <<latest, queue>>
  <2>1. Steps(t, "dispatching")
    BY <1>6, Typed, GoSteps DEF Locations, Admission
  <2>2. RowsGrow /\ touched' \in BOOLEAN
    BY <1>6, Typed, ReadGrows
  <2> QED BY <1>1, <1>2, <1>6, <2>1, <2>2, StepKeeps DEF Quiet, history
<1> QED BY <1>4, <1>5, <1>6 DEF Dispatch

\* A request enters the queue if the queue does not hold it.
LEMMA EnqueueKeeps ==
  ASSUME IInv, NEW t \in Tasks, t # Turn, Enqueue(t)
  PROVE  IInv'
<1> DEFINE m == msg(t)
<1>1. /\ task[t].at \notin Resting /\ LastLook(t) /\ Read
      /\ UNCHANGED <<owned, stop, latest, marked, acted, history>>
  BY DEF Enqueue, At, Resting
<1>2. CASE queue' = queue
  BY <1>1, <1>2, LastLookKeeps DEF Quiet, history
<1>3. CASE ~Contained(m) /\ queue' = Append(queue, m)
  <2>1. m \in Messages /\ row[m].status # "absent"
    BY <1>1, Typed
  <2>2. /\ queue \in Seq(Messages) /\ Len(queue) \in Nat /\ DOMAIN queue = 1 .. Len(queue)
        /\ Unique(queue) /\ \A i \in DOMAIN queue : queue[i] # msg(Turn)
    BY LenProperties DEF IInv, TypeOK, Unique, msg
  <2>3. /\ queue' \in Seq(Messages) /\ DOMAIN queue' = 1 .. Len(queue) + 1
        /\ queue'[Len(queue) + 1] = m
        /\ \A i \in 1 .. Len(queue) : queue'[i] = queue[i]
    BY <1>3, <2>1, <2>2
  <2>4. msg(Turn) # m /\ \A i \in DOMAIN queue : queue[i] # m
    BY <1>3 DEF Contained
  <2>5. Unique(queue')
    BY <2>2, <2>3, <2>4 DEF Unique
  <2>6. PICK p \in {"unanswered", "leaving"} : Go(t, p) /\ Await(t)
    BY <1>1 DEF LastLook
  <2>7. Steps(t, p)
    BY <2>6, Typed, GoSteps DEF Locations, Admission, Failure
  <2>8. Turn \in Tasks /\ task'[Turn] = task[Turn] /\ msg(Turn)' = msg(Turn)
    BY <2>7 DEF Tasks, Steps, msg
  <2>9. row' = row /\ touched' = touched /\ acts' = acts /\ acted' = acted
    BY <1>1 DEF Read, history
  <2>10. fifo' \in Seq(Tasks) /\ Unique(fifo')
    <3>1. fifo \in Seq(Tasks) /\ Unique(fifo) /\ FifoStep(t)
      BY <2>6 DEF IInv, TypeOK, Unique, FifoStep, Await
    <3> QED BY <3>1, FifoKept
  <2>11. TypeOK'
    <3>1. \A i \in DOMAIN queue' : queue'[i] # msg(Turn)'
      BY <2>2, <2>3, <2>4, <2>8
    <3> QED BY <1>1, <2>3, <2>5, <2>7, <2>9, <2>10, <3>1
            DEF IInv, TypeOK, Unique, Steps, TaskState, history, msg
  <2>12. Occupied'
    <3> SUFFICES ASSUME NEW u \in Tasks, task'[u].at \notin Resting
                 PROVE  msg(u)' \in Messages /\ row'[msg(u)'].status # "absent"
      BY DEF Occupied
    <3>1. task[u].at \notin Resting /\ msg(u)' = msg(u)
      BY <1>1, <2>7 DEF Steps, msg
    <3> QED BY <2>9, <3>1 DEF IInv, Occupied
  <2>13. QueueJournaled'
    BY <2>1, <2>2, <2>3, <2>9 DEF IInv, QueueJournaled
  <2> QED BY <2>8, <2>9, <2>11, <2>12, <2>13
          DEF IInv, EffectsOnce, Committed, Untouched, CheckedOut, TurnLives, msg
<1> QED BY <1>2, <1>3 DEF Enqueue

-----------------------------------------------------------------------------
(* Failures.                                                                *)

\* Where a task is that neither works on a turn nor is dead.
Elsewhere == Locations \ (TurnOnly \cup {"dead"})

\* The locations of a failure are none of the queue's or the turn's own.
LEMMA FailureLocations ==
  /\ Failure \cup Admission \cup {"idle", "created", "done"} \subseteq Elsewhere
  /\ Elsewhere \cup TurnOnly \cup RetryOnly \subseteq Locations
BY DEF Elsewhere, Locations, Failure, Admission, RetryOnly, TurnOnly

\* A step that reads a row and picks a location outside of the turn's work.
LEMMA WhyKeeps ==
  ASSUME IInv, NEW t \in Tasks, task[t].at \notin Resting,
         NEW p \in Elsewhere, NEW why \in Whys,
         \/ task' = [task EXCEPT ![t].at = p, ![t].why = why]
         \/ task' = [task EXCEPT ![t].at = p, ![t].why = why, ![t].todo = 0],
         Await(t), Read, owned' \in SUBSET Messages, Quiet
  PROVE  IInv'
<1>1. Steps(t, p)
  BY Typed, GoSteps, FailsSteps, FailureLocations
<1>2. RowsGrow /\ touched' \in BOOLEAN
  BY Typed, ReadGrows
<1>3. FifoStep(t)
  BY DEF FifoStep, Await
<1> QED BY <1>1, <1>2, <1>3, StepKeeps DEF TurnOnly, Elsewhere

\* The same for steps of the failure policy, which the turn takes too.
LEMMA FailureGoKeeps ==
  ASSUME IInv, NEW t \in Tasks, task[t].at \notin Resting, NEW p \in Elsewhere,
         Go(t, p), Await(t) \/ Proceed(t), RowsGrow, touched' \in BOOLEAN,
         owned' \in SUBSET Messages, Quiet
  PROVE  IInv'
<1>1. p \in Locations /\ p \notin TurnOnly /\ p # "dead"
  BY DEF Elsewhere
<1>2. Steps(t, p)
  BY <1>1, Typed, GoSteps
<1>3. FifoStep(t)
  BY DEF FifoStep, Await, Proceed
<1> QED BY <1>1, <1>2, <1>3, StepKeeps DEF TurnOnly

\* The read of _request_failure keeps the invariant.
LEMMA JudgeForKeeps ==
  ASSUME IInv, NEW t \in Tasks, task[t].at \notin Resting, NEW why \in Whys, JudgeFor(t, why),
         owned' \in SUBSET Messages, Quiet
  PROVE  IInv'
<1>1. PICK p \in Verdicts(row[msg(t)], why) :
        task' = [task EXCEPT ![t].at = p, ![t].why = IF t = Turn THEN why ELSE "none"]
  BY DEF JudgeFor
<1>2. p \in {"leaving", "deferring", "condemning", "notifying"}
  BY DEF Verdicts
<1>3. p \in Elsewhere
  BY <1>2, FailureLocations DEF Failure
<1>4. (IF t = Turn THEN why ELSE "none") \in Whys
  BY DEF Whys
<1>5. Await(t) /\ Read
  BY DEF JudgeFor
<1> QED BY <1>1, <1>3, <1>4, <1>5, WhyKeeps

\* The except clause of a cancelled turn.
LEMMA UnwindKeeps ==
  ASSUME IInv, task[Turn].at \notin Resting, Unwind, Read, owned' \in SUBSET Messages, Quiet
  PROVE  IInv'
<1>1. PICK p \in {"condemning", "deferring"} :
        task' = [task EXCEPT ![Turn].at = p, ![Turn].why = "cancelled"]
  BY DEF Unwind
<1>2. p \in Elsewhere /\ "cancelled" \in Whys /\ Turn \in Tasks
  BY <1>1, FailureLocations DEF Failure, Whys, Tasks
<1> QED BY <1>1, <1>2, WhyKeeps DEF Unwind

\* The steps of _request_failure and of its records keep the invariant.
LEMMA FailingKeeps ==
  ASSUME IInv, NEW t \in Tasks, Failing(t)
  PROVE  IInv'
<1> DEFINE m == msg(t)
<1>1. task[t].at \notin Resting => row[m] \in Row
  BY Typed
<1>2. CASE Judge(t)
  <2>1. task[t].at \notin Resting /\ owned' = owned /\ Quiet /\ JudgeFor(t, task[t].why)
    BY <1>2 DEF Judge, At, Resting, Quiet, history
  <2>2. task[t].why \in Whys
    BY Typed DEF TaskState
  <2> QED BY <2>1, <2>2, Typed, JudgeForKeeps
<1>3. CASE Defer(t) \/ Condemn(t) \/ NoticeLost(t)
  BY <1>3, RecordKeeps DEF Defer, Condemn, NoticeLost, Resting, Pending, Terminal
<1>4. CASE Notify(t)
  <2>1. /\ task[t].at \notin Resting /\ owned' = owned /\ Quiet /\ Await(t)
        /\ \/ Go(t, "aborted") /\ Read
           \/ Go(t, "sending") /\ Write(m, Checkpointed(row[m]))
    BY <1>4 DEF Notify, Checkpoint, At, Resting, Quiet, history
  <2>2. RowsGrow /\ touched' \in BOOLEAN
    BY <1>1, <2>1, TransactionsGrow, ReadOrWriteGrows
  <2> QED BY <2>1, <2>2, Typed, FailureLocations, FailureGoKeeps DEF Failure
<1>5. CASE Post(t) \/ Confirm(t)
  <2>1. /\ task[t].at \notin Resting /\ owned' = owned /\ Quiet /\ Read
        /\ Await(t) \/ Proceed(t)
        /\ \E p \in {"posting", "leaving", "condemning"} : Go(t, p)
    BY <1>5 DEF Post, Confirm, At, Resting, Quiet, history
  <2> QED BY <2>1, Typed, ReadGrows, FailureLocations, FailureGoKeeps DEF Failure
<1>6. CASE NoticeSent(t)
  <2>1. /\ task[t].at \notin Resting /\ owned' = owned /\ Quiet /\ Await(t)
        /\ Go(t, "noticed") /\ Write(m, Answered(row[m]))
    BY <1>6 DEF NoticeSent, At, Resting, Quiet, history
  <2>2. RowsGrow /\ touched' \in BOOLEAN
    BY <1>1, <2>1, TransactionsGrow, ReadOrWriteGrows
  <2> QED BY <2>1, <2>2, Typed, FailureLocations, FailureGoKeeps DEF Failure
<1>7. CASE Aborted(t)
  <2>1. task[t].at \notin Resting /\ Read /\ Quiet /\ RowsGrow /\ touched' \in BOOLEAN
    BY <1>7, Typed, ReadGrows DEF Aborted, At, Resting, Quiet, history
  <2>2. CASE t = Turn /\ Go(t, "done") /\ Proceed(t) /\ owned' = owned
    BY <2>1, <2>2, Typed, FailureLocations, FailureGoKeeps
  <2>3. CASE t = Turn /\ Unwind /\ owned' = owned
    BY <2>1, <2>3, Typed, UnwindKeeps
  <2>4. CASE /\ t # Turn /\ owned' = owned \ {m} /\ Proceed(t)
             /\ task' = [task EXCEPT ![t] = [Idle EXCEPT !.at = IF t = Retry THEN "dead" ELSE "idle"]]
    <3> DEFINE x == [Idle EXCEPT !.at = IF t = Retry THEN "dead" ELSE "idle"]
    <3>1. x \in TaskState /\ x.at \in Resting /\ x.msg = 0
      BY DEF Idle, TaskState, Locations, RetryOnly, Whys, Resting
    <3> HIDE DEF x
    <3>2. task' = [task EXCEPT ![t] = x]
      BY <2>4 DEF x
    <3>3. Rests(t)
      BY <3>1, <3>2, Typed DEF Rests
    <3>4. FifoStep(t) /\ owned' \in SUBSET Messages
      BY <2>4, Typed DEF FifoStep, Proceed
    <3> QED BY <2>1, <2>4, <3>3, <3>4, RestKeeps
  <2> QED BY <1>7, <2>2, <2>3, <2>4 DEF Aborted
<1>8. CASE Leave(t)
  <2>1. task[t].at \notin Resting /\ Read /\ Quiet /\ RowsGrow /\ touched' \in BOOLEAN
    BY <1>8, Typed, ReadGrows DEF Leave, At, Resting, Quiet, history
  <2>2. CASE Go(t, "done") /\ Proceed(t) /\ owned' = owned
    BY <2>1, <2>2, Typed, FailureLocations, FailureGoKeeps
  <2>3. CASE Disown(t)
    BY <2>1, <2>3, DisownKeeps
  <2> QED BY <1>8, <2>2, <2>3 DEF Leave
<1> QED BY <1>2, <1>3, <1>4, <1>5, <1>6, <1>7, <1>8 DEF Failing

-----------------------------------------------------------------------------
(* The rest of on_message.                                                  *)

\* _pending_fetch_failed up to its read keeps the invariant.
LEMMA FetchFailedKeeps ==
  ASSUME IInv, NEW why \in Whys, NEW others \in SUBSET Messages, task[Retry].at \notin Resting,
         FetchFailed(why, others), Quiet
  PROVE  IInv'
<1>1. Retry \in Tasks /\ Retry # Turn
  BY LifecycleAssumption DEF Tasks
<1>2. row' = row /\ touched' = FALSE /\ owned' = others
  BY DEF FetchFailed
<1>3. RowsGrow /\ touched' \in BOOLEAN /\ owned' \in SUBSET Messages
  BY <1>2, Typed, TransactionsGrow DEF RowsGrow
<1>4. CASE Stops(Retry) /\ Proceed(Retry)
  <2>1. Rests(Retry) /\ FifoStep(Retry)
    BY <1>1, <1>4, Typed, StopsRests DEF FifoStep, Proceed
  <2> QED BY <1>1, <1>3, <2>1, RestKeeps
<1>5. CASE /\ \E p \in {"claiming", "quitting"} :
                task' = [task EXCEPT ![Retry].at = p, ![Retry].why = why]
           /\ Await(Retry)
  <2>1. PICK p \in {"claiming", "quitting"} :
          task' = [task EXCEPT ![Retry].at = p, ![Retry].why = why]
    BY <1>5
  <2>2. p \in Locations
    BY FailureLocations DEF RetryOnly
  <2>3. Steps(Retry, p) /\ FifoStep(Retry)
    BY <1>1, <1>5, <2>1, <2>2, Typed, GoSteps DEF FifoStep, Await
  <2> QED BY <1>1, <1>3, <2>3, StepKeeps
<1> QED BY <1>4, <1>5 DEF FetchFailed

\* The steps of on_message keep the invariant.
LEMMA AdmittingKeeps ==
  ASSUME IInv, NEW t \in Handlers \cup {Retry}, Admitting(t)
  PROVE  IInv'
<1>1. t \in Tasks /\ t # Turn
  BY LifecycleAssumption DEF Tasks
<1>2. CASE \/ ReadReceipt(t) \/ ResetReceipt(t) \/ Reject(t) \/ Dispatched(t) \/ MarkQueued(t)
           \/ CheckReceipt(t) \/ Suppress(t)
  BY <1>1, <1>2, AdmissionKeeps
<1>3. CASE Admit(t)
  BY <1>1, <1>3, AdmitKeeps
<1>4. CASE Dispatch(t)
  BY <1>1, <1>4, DispatchKeeps
<1>5. CASE Enqueue(t)
  BY <1>1, <1>5, EnqueueKeeps
<1>6. ASSUME NEW why \in {"retryable", "fatal"}, FailAdmission(t, why)
      PROVE  IInv'
  <2>1. /\ task[t].at \notin Resting /\ Read /\ Await(t) /\ owned' = owned /\ Quiet
        /\ \E p \in {"counting", "judging"} :
             task' = [task EXCEPT ![t].at = p, ![t].why = why, ![t].todo = 0]
    BY <1>6 DEF FailAdmission, Dispatching, Resting, Quiet, history
  <2>2. why \in Whys /\ {"counting", "judging"} \subseteq Elsewhere
    BY FailureLocations DEF Whys, Admission, Failure
  <2> QED BY <1>1, <2>1, <2>2, Typed, WhyKeeps
<1>7. CASE CountAttempt(t)
  <2>1. task[t].at \notin Resting /\ Quiet
    BY <1>7 DEF CountAttempt, At, Resting, Quiet, history
  <2>2. /\ Await(t) /\ owned' = owned
        /\ \/ Write(msg(t), Begun(row[msg(t)])) /\ Go(t, "judging")
           \/ Read /\ Go(t, "refused")
    BY <1>7 DEF CountAttempt
  <2>3. RowsGrow /\ touched' \in BOOLEAN
    BY <1>1, <2>1, <2>2, Typed, TransactionsGrow, ReadOrWriteGrows
  <2>4. "judging" \in Locations /\ "refused" \in Locations
    BY DEF Locations, Failure, Admission
  <2> QED BY <1>1, <2>1, <2>2, <2>3, <2>4, Typed, GoKeeps
<1>8. CASE Refused(t)
  <2>1. task[t].at \notin Resting /\ Quiet
    BY <1>8 DEF Refused, At, Resting, Quiet, history
  <2>2. CASE t = Retry /\ FetchFailed("retryable", owned \ {msg(t)})
    BY <2>1, <2>2, Typed, FetchFailedKeeps DEF Whys
  <2>3. CASE Disown(t) /\ Read
    BY <1>1, <2>1, <2>3, Typed, ReadGrows, DisownKeeps
  <2> QED BY <1>8, <2>2, <2>3 DEF Refused
<1> QED BY <1>2, <1>3, <1>4, <1>5, <1>6, <1>7, <1>8 DEF Admitting

\* The gateway delivers a message.
LEMMA DeliverKeeps ==
  ASSUME IInv, NEW h \in Handlers, NEW m \in Messages, Deliver(h, m)
  PROVE  IInv'
<1>1. h \in Tasks /\ h # Turn
  BY LifecycleAssumption DEF Tasks
<1>2. given' \in [Messages -> Nat]
  <2>1. given \in [Messages -> Nat] /\ given' = [given EXCEPT ![m] = given[m] + 1]
    BY DEF IInv, TypeOK, Deliver
  <2> QED BY <2>1
<1>3. touched' \in BOOLEAN /\ Receive(h, m) /\ UNCHANGED <<crashes, acts, shared>>
  BY Typed DEF Deliver
<1> QED BY <1>1, <1>2, <1>3, ReceiveKeeps

-----------------------------------------------------------------------------
(* The retry loop.                                                          *)

\* The retry loop's choice of a row keeps the invariant.
LEMMA ScanKeeps ==
  ASSUME IInv, NEW m \in Messages, Scan(m)
  PROVE  IInv'
<1>1. Retry \in Tasks /\ Retry # Turn
  BY LifecycleAssumption DEF Tasks
<1>2. row' = row /\ touched' = FALSE /\ owned' = owned /\ Quiet
  BY DEF Scan, Quiet, history
<1>3. RowsGrow /\ owned' \in SUBSET Messages /\ FifoStep(Retry) /\ QueueShrinks
  BY <1>2, Typed, TransactionsGrow
     DEF RowsGrow, FifoStep, Scan, Await, QueueShrinks, IInv, TypeOK, Unique
<1>4. row'[m].status # "absent"
  BY <1>2 DEF Scan, Retryable, Pending
<1>5. /\ task' \in [Tasks -> TaskState]
      /\ \A u \in Tasks \ {Retry} : task'[u] = task[u]
      /\ msg(Retry)' = m
  <2> DEFINE x == [Idle EXCEPT !.at = "reading", !.msg = m]
  <2>1. x \in TaskState /\ x.msg = m
    BY DEF Idle, TaskState, Locations, RetryOnly, Whys
  <2>2. task' = [task EXCEPT ![Retry] = x]
    BY DEF Scan
  <2> HIDE DEF x
  <2> QED BY <1>1, <2>1, <2>2, Typed DEF msg
<1>6. Moves(Retry)
  BY <1>1, <1>2, <1>3, <1>4, <1>5 DEF Moves, Quiet, history, IInv, TypeOK
<1> QED BY <1>1, <1>6, MovesKeep

\* The steps of the retry loop keep the invariant.
LEMMA RetryingKeeps ==
  ASSUME IInv, Retrying
  PROVE  IInv'
<1>1. Retry \in Tasks /\ Retry # Turn
  BY LifecycleAssumption DEF Tasks
<1>2. CASE PickUp
  <2>1. task[Retry].at \notin Resting /\ Proceed(Retry) /\ row' = row /\ owned' = owned /\ Quiet
    BY <1>2 DEF PickUp, At, Resting, Quiet, history
  <2>2. RowsGrow /\ owned' \in SUBSET Messages /\ FifoStep(Retry)
    BY <2>1, Typed, TransactionsGrow DEF RowsGrow, FifoStep, Proceed
  <2>3. touched' \in BOOLEAN
    <3>1. touched' = (touched /\ task'[Retry].at = "fetching")
      BY <1>2 DEF PickUp
    <3> QED BY <3>1, Zenon
  <2>4. Stops(Retry) \/ Go(Retry, "fetching")
    BY <1>2 DEF PickUp
  <2>5. CASE Stops(Retry)
    BY <1>1, <2>1, <2>2, <2>3, <2>5, Typed, StopsRests, RestKeeps
  <2>6. CASE Go(Retry, "fetching")
    BY <1>1, <2>1, <2>2, <2>3, <2>6, FailureLocations, GoKeeps DEF RetryOnly
  <2> QED BY <2>4, <2>5, <2>6
<1>3. CASE Fetched
  <2>1. task[Retry].at \notin Resting /\ touched' = FALSE /\ UNCHANGED history
    BY <1>3 DEF Fetched, At, Resting
  <2>2. msg(Retry) \in Messages
    BY <1>1, <2>1, Typed
  <2>3. CASE Stops(Retry) /\ UNCHANGED <<row, fifo, owned, queue, stop, latest, marked, acted>>
    <3>1. RowsGrow /\ owned' \in SUBSET Messages /\ FifoStep(Retry) /\ Quiet
      BY <2>1, <2>3, Typed, TransactionsGrow DEF RowsGrow, FifoStep, Quiet, history
    <3> QED BY <1>1, <2>1, <2>3, <3>1, Typed, StopsRests, RestKeeps
  <2>4. CASE Receive(Retry, msg(Retry))
    <3>1. given' \in [Messages -> Nat] /\ UNCHANGED <<crashes, acts, shared>>
      BY <2>1 DEF history, IInv, TypeOK
    <3> QED BY <1>1, <2>1, <2>2, <2>4, <3>1, ReceiveKeeps
  <2> QED BY <1>3, <2>3, <2>4 DEF Fetched
<1>4. CASE Quit
  <2>1. Stops(Retry) /\ Proceed(Retry) /\ Read /\ owned' = owned /\ Quiet
    BY <1>4 DEF Quit, Quiet, history
  <2>2. FifoStep(Retry)
    BY <2>1 DEF FifoStep, Proceed
  <2> QED BY <1>1, <2>1, <2>2, Typed, StopsRests, ReadGrows, RestKeeps
<1>5. CASE Claim
  <2> DEFINE m == msg(Retry)
  <2>1. task[Retry].at \notin Resting /\ Quiet
    BY <1>5 DEF Claim, At, Resting, Quiet, history
  <2>2. m \in Messages /\ row[m] \in Row
    BY <1>1, <2>1, Typed
  <2>3. Grows(row[m], Recorded(row[m], "failed")) /\ Grows(row[m], Begun(row[m]))
    BY <2>2, TransactionsGrow DEF Terminal
  <2>4. /\ Write(m, Recorded(row[m], "failed")) \/ Write(m, Begun(row[m])) \/ Read
        /\ Go(Retry, "leaving") \/ Go(Retry, "judging")
        /\ owned' = owned \cup {m} /\ Await(Retry)
    BY <1>5 DEF Claim
  <2>5. RowsGrow /\ touched' \in BOOLEAN /\ owned' \in SUBSET Messages
    BY <1>1, <2>1, <2>2, <2>3, <2>4, Typed, ReadOrWriteGrows
  <2> QED BY <1>1, <2>1, <2>4, <2>5, FailureLocations, GoKeeps DEF Failure
<1>6. ASSUME NEW why \in {"retryable", "gone"}, FetchFails(why)
      PROVE  IInv'
  <2>1. task[Retry].at \notin Resting /\ Quiet /\ FetchFailed(why, owned) /\ why \in Whys
    BY <1>6 DEF FetchFails, At, Resting, Quiet, history, Whys
  <2> QED BY <2>1, Typed, FetchFailedKeeps
<1> QED BY <1>2, <1>3, <1>4, <1>5, <1>6 DEF Retrying

-----------------------------------------------------------------------------
(* The turn.                                                                *)

\* The next turn takes the head of the queue.
LEMMA NextTurnKeeps ==
  ASSUME IInv, NextTurn
  PROVE  IInv'
<1>1. Turn \in Tasks
  BY DEF Tasks
<1>2. /\ row' = row /\ touched' = touched /\ acts' = acts /\ acted' = FALSE /\ stop' = "none"
      /\ UNCHANGED <<fifo, owned, latest, marked, given, crashes, shared>>
  BY DEF NextTurn, Read, history
<1>3. queue \in Seq(Messages) /\ Unique(queue) /\ \A i \in DOMAIN queue : queue[i] # msg(Turn)
  BY DEF IInv, TypeOK, Unique, msg
<1>4. CASE Stops(Turn) /\ queue' = queue /\ queue = <<>>
  <2>1. Rests(Turn)
    BY <1>1, <1>4, Typed, StopsRests
  <2>2. TypeOK'
    <3>1. \A i \in DOMAIN queue' : queue'[i] # task'[Turn].msg
      BY <1>4
    <3> QED BY <1>2, <1>4, <2>1, <3>1 DEF IInv, TypeOK, Rests, TaskState
  <2>3. Occupied'
    <3> SUFFICES ASSUME NEW u \in Tasks, task'[u].at \notin Resting
                 PROVE  msg(u)' \in Messages /\ row'[msg(u)'].status # "absent"
      BY DEF Occupied
    <3>1. u # Turn /\ task'[u] = task[u]
      BY <2>1 DEF Rests
    <3> QED BY <1>2, <3>1 DEF IInv, Occupied, msg
  <2>4. task'[Turn].at = "idle"
    BY <1>1, <1>4, Typed DEF Stops, Idle
  <2> QED BY <1>2, <1>4, <2>2, <2>3, <2>4
          DEF IInv, EffectsOnce, QueueJournaled, Committed, Untouched, CheckedOut, TurnLives,
              TurnOnly
<1>5. CASE /\ queue # <<>> /\ queue' = Tail(queue)
           /\ task' = [task EXCEPT ![Turn] = [Idle EXCEPT !.at = "created", !.msg = Head(queue)]]
  <2> DEFINE m == Head(queue)
             x == [Idle EXCEPT !.at = "created", !.msg = m]
  <2>1. Len(queue) \in Nat /\ Len(queue) >= 1 /\ DOMAIN queue = 1 .. Len(queue) /\ m = queue[1]
    BY <1>3, <1>5, LenProperties
  <2>2. m \in Messages /\ row[m].status # "absent"
    BY <1>3, <2>1, ElementOfSeq DEF IInv, QueueJournaled
  <2>3. /\ queue' \in Seq(Messages) /\ Len(queue') = Len(queue) - 1
        /\ DOMAIN queue' = 1 .. Len(queue) - 1
        /\ \A i \in 1 .. Len(queue) - 1 : queue'[i] = queue[i + 1]
    BY <1>3, <1>5, <2>1, HeadTailProperties, LenProperties
  <2> HIDE DEF m
  <2>4. x \in TaskState /\ x.at = "created" /\ x.msg = m
    BY <2>2 DEF Idle, TaskState, Locations, Whys
  <2>5. task' = [task EXCEPT ![Turn] = x]
    BY <1>5 DEF m
  <2> HIDE DEF x
  <2>6. /\ task' \in [Tasks -> TaskState] /\ \A u \in Tasks \ {Turn} : task'[u] = task[u]
        /\ task'[Turn].at = "created" /\ task'[Turn].msg = m
    BY <1>1, <2>4, <2>5, Typed
  <2>7. \A i \in DOMAIN queue' : i + 1 \in DOMAIN queue /\ queue'[i] = queue[i + 1] /\ i + 1 # 1
    BY <2>1, <2>3
  <2>8. Unique(queue')
    <3> SUFFICES ASSUME NEW i \in DOMAIN queue', NEW j \in DOMAIN queue', queue'[i] = queue'[j]
                 PROVE  i = j
      BY DEF Unique
    <3>1. i + 1 = j + 1
      BY <1>3, <2>7 DEF Unique
    <3> QED BY <2>1, <2>3, <3>1
  <2>9. \A i \in DOMAIN queue' : queue'[i] # m
    BY <1>3, <2>1, <2>7 DEF Unique
  <2>10. TypeOK'
    BY <1>2, <2>3, <2>6, <2>8, <2>9 DEF IInv, TypeOK, Unique, TaskState
  <2>11. Occupied'
    <3> SUFFICES ASSUME NEW u \in Tasks, task'[u].at \notin Resting
                 PROVE  msg(u)' \in Messages /\ row'[msg(u)'].status # "absent"
      BY DEF Occupied
    <3>1. CASE u = Turn
      BY <1>2, <2>2, <2>6, <3>1 DEF msg
    <3>2. CASE u # Turn
      BY <1>2, <2>6, <3>2 DEF IInv, Occupied, msg
    <3> QED BY <3>1, <3>2
  <2>12. QueueJournaled'
    BY <1>2, <2>7 DEF IInv, QueueJournaled
  <2> QED BY <1>2, <2>6, <2>10, <2>11, <2>12
          DEF IInv, EffectsOnce, Committed, Untouched, CheckedOut, TurnLives,
              TurnOnly
<1> QED BY <1>4, <1>5 DEF NextTurn

\* The first effect of a turn is counted; the checkpoint is behind it.
LEMMA PerformKeeps ==
  ASSUME IInv, Perform
  PROVE  IInv'
<1> DEFINE m == msg(Turn)
<1>1. Turn \in Tasks
  BY DEF Tasks
<1>2. task[Turn].at = "acting" /\ task[Turn].at \notin Resting /\ task[Turn].at \in TurnOnly
  BY DEF Perform, At, Resting, TurnOnly
<1>3. m \in Messages /\ row[m].effects
  BY <1>1, <1>2 DEF IInv, Occupied, CheckedOut
<1>4. /\ row' = row /\ touched' = touched /\ acted' = TRUE
      /\ UNCHANGED <<owned, queue, stop, latest, marked, given, crashes, shared>>
  BY DEF Perform, Read
<1>5. acts \in [Messages -> Nat]
  BY DEF IInv, TypeOK
<1>6. /\ acts' \in [Messages -> Nat]
      /\ \A k \in Messages \ {m} : acts'[k] = acts[k]
      /\ acts'[m] <= 1
  <2>1. CASE acted
    <3>1. acts' = acts
      BY <2>1 DEF Perform
    <3> QED BY <1>3, <1>5, <3>1 DEF IInv, EffectsOnce
  <2>2. CASE ~acted
    <3>1. acts[m] = 0
      BY <1>2, <2>2 DEF IInv, Untouched
    <3>2. acts' = [acts EXCEPT ![m] = acts[m] + 1]
      BY <2>2 DEF Perform
    <3>3. acts' = [acts EXCEPT ![m] = 1]
      BY <3>1, <3>2
    <3> QED BY <1>3, <1>5, <3>3
  <2> QED BY <2>1, <2>2
<1>7. Steps(Turn, "performing")
  BY <1>1, Typed, FailureLocations, GoSteps DEF Perform, TurnOnly
<1>8. fifo' \in Seq(Tasks) /\ Unique(fifo')
  <2>1. fifo \in Seq(Tasks) /\ Unique(fifo) /\ FifoStep(Turn)
    BY DEF IInv, TypeOK, Unique, FifoStep, Perform, Proceed
  <2> QED BY <1>1, <2>1, FifoKept
<1>9. TypeOK'
  BY <1>4, <1>6, <1>7, <1>8 DEF IInv, TypeOK, Unique, Steps, TaskState, msg
<1>10. EffectsOnce' /\ Committed'
  BY <1>3, <1>4, <1>6 DEF IInv, EffectsOnce, Committed
<1>11. Occupied'
  <2> SUFFICES ASSUME NEW u \in Tasks, task'[u].at \notin Resting
               PROVE  msg(u)' \in Messages /\ row'[msg(u)'].status # "absent"
    BY DEF Occupied
  <2>1. task[u].at \notin Resting /\ msg(u)' = msg(u)
    BY <1>2, <1>7 DEF Steps, msg
  <2> QED BY <1>4, <2>1 DEF IInv, Occupied
<1> QED BY <1>4, <1>7, <1>9, <1>10, <1>11
        DEF IInv, QueueJournaled, Untouched, CheckedOut, TurnLives, Steps

\* Any other step of the turn.
LEMMA TurnKeeps ==
  ASSUME IInv, task[Turn].at \notin Resting, NEW p, Steps(Turn, p), RowsGrow,
         touched' \in BOOLEAN, FifoStep(Turn), owned' \in SUBSET Messages,
         stop' \in {"none", "asked", "raised"},
         UNCHANGED <<queue, latest, marked, acted, history>>,
         p \in TurnOnly => task[Turn].at \in TurnOnly \/ ~row[msg(Turn)].effects,
         p = "acting" => row'[msg(Turn)].effects,
         p # "dead"
  PROVE  IInv'
<1>1. Turn \in Tasks
  BY DEF Tasks
<1>2. msg(Turn) \in Messages /\ row[msg(Turn)].status # "absent" /\ msg(Turn)' = msg(Turn)
  BY <1>1 DEF IInv, Occupied, Steps, msg
<1>3. row'[msg(Turn)].status # "absent"
  BY <1>2 DEF RowsGrow, Grows
<1>4. TurnStep
  BY <1>2 DEF TurnStep, Steps
<1>5. QueueShrinks
  BY DEF QueueShrinks, IInv, TypeOK, Unique
<1>6. Moves(Turn)
  BY <1>2, <1>3, <1>4, <1>5 DEF Moves, Steps, history, IInv, TypeOK
<1> QED BY <1>1, <1>6, MovesKeep

\* A turn begins on a row without effects, so no turn of it started any.
LEMMA BeginKeeps ==
  ASSUME IInv, Begin
  PROVE  IInv'
<1> DEFINE m == msg(Turn)
           p == BeginFor(row[m])
<1>1. Turn \in Tasks
  BY DEF Tasks
<1>2. /\ task[Turn].at \notin Resting /\ Await(Turn)
      /\ UNCHANGED <<owned, queue, stop, latest, marked, acted, history>>
  BY DEF Begin, At, Resting
<1>3. row[m] \in Row
  BY <1>1, <1>2, Typed
<1>4. p \in {"leaving", "condemning", "judging", "starting"} /\ (p = "starting" => ~row[m].effects)
  BY DEF BeginFor
<1>5. p \in Locations /\ p # "acting" /\ (p \in TurnOnly => p = "starting")
  BY <1>4 DEF Locations, Failure, TurnOnly
<1>6. /\ task' = [task EXCEPT ![Turn].at = p,
                              ![Turn].why = IF p = "judging" THEN "budget" ELSE "none"]
      /\ IF p = "starting" THEN Write(m, Begun(row[m])) ELSE Read
  BY DEF Begin
<1> HIDE DEF p
<1>7. (IF p = "judging" THEN "budget" ELSE "none") \in Whys
  BY DEF Whys
<1>8. Steps(Turn, p)
  BY <1>1, <1>5, <1>6, <1>7, Typed, GoSteps
<1>9. RowsGrow /\ touched' \in BOOLEAN
  BY <1>1, <1>2, <1>3, <1>6, TransactionsGrow, ReadOrWriteGrows
<1>10. FifoStep(Turn) /\ owned' \in SUBSET Messages /\ stop' \in {"none", "asked", "raised"}
  BY <1>2 DEF FifoStep, Await, IInv, TypeOK
<1> QED BY <1>2, <1>4, <1>5, <1>8, <1>9, <1>10, TurnKeeps

\* The checkpoint is committed before the turn may act.
LEMMA MarkEffectKeeps ==
  ASSUME IInv, MarkEffect
  PROVE  IInv'
<1> DEFINE m == msg(Turn)
<1>1. Turn \in Tasks
  BY DEF Tasks
<1>2. /\ task[Turn].at \in TurnOnly /\ task[Turn].at \notin Resting /\ Await(Turn)
      /\ UNCHANGED <<owned, queue, stop, latest, marked, acted, history>>
  BY DEF MarkEffect, Thinking, At, Resting, TurnOnly, Checkpoint
<1>3. m \in Messages /\ row[m] \in Row /\ row[m].status # "absent"
  BY <1>1, <1>2, Typed
<1>4. FifoStep(Turn) /\ owned' \in SUBSET Messages /\ stop' \in {"none", "asked", "raised"}
  BY <1>2 DEF FifoStep, Await, IInv, TypeOK
<1>5. CASE Go(Turn, "aborted") /\ Read
  <2>1. Steps(Turn, "aborted") /\ RowsGrow /\ touched' \in BOOLEAN
    BY <1>1, <1>5, Typed, GoSteps, FailureLocations, ReadGrows DEF Failure
  <2> QED BY <1>2, <1>4, <2>1, TurnKeeps DEF TurnOnly
<1>6. CASE Go(Turn, "acting") /\ Write(m, Checkpointed(row[m]))
  <2>1. Steps(Turn, "acting")
    BY <1>1, <1>6, Typed, GoSteps, FailureLocations DEF TurnOnly
  <2>2. Grows(row[m], Checkpointed(row[m])) /\ Checkpointed(row[m]).effects
    BY <1>3, TransactionsGrow
  <2>3. RowsGrow /\ touched' \in BOOLEAN /\ row'[m].effects
    BY <1>3, <1>6, <2>2, Typed, WriteGrows
  <2> QED BY <1>2, <1>4, <2>1, <2>3, TurnKeeps
<1> QED BY <1>5, <1>6 DEF MarkEffect, Checkpoint

\* The cancellation of a running turn keeps the invariant.
LEMMA CancelledKeeps ==
  ASSUME IInv, Cancelled
  PROVE  IInv'
<1>1. Turn \in Tasks
  BY DEF Tasks
<1>2. /\ task[Turn].at \notin Resting /\ Read /\ stop' \in {"none", "asked", "raised"}
      /\ UNCHANGED <<owned, queue, latest, marked, acted, history>>
  BY DEF Cancelled, TurnBegun, TurnAlive, Resting, IInv, TurnLives
<1>3. RowsGrow /\ touched' \in BOOLEAN /\ owned' \in SUBSET Messages
  BY <1>2, Typed, ReadGrows
<1>4. CASE Go(Turn, "done") /\ Proceed(Turn)
  <2>1. Steps(Turn, "done") /\ FifoStep(Turn)
    BY <1>1, <1>4, Typed, GoSteps, FailureLocations DEF FifoStep, Proceed
  <2> QED BY <1>2, <1>3, <2>1, TurnKeeps DEF TurnOnly
<1>5. CASE Unwind
  <2>1. PICK p \in {"condemning", "deferring"} :
          task' = [task EXCEPT ![Turn].at = p, ![Turn].why = "cancelled"]
    BY <1>5 DEF Unwind
  <2>2. p \in Elsewhere /\ "cancelled" \in Whys
    BY <2>1, FailureLocations DEF Failure, Whys
  <2>3. Steps(Turn, p)
    BY <1>1, <2>1, <2>2, Typed, GoSteps DEF Elsewhere
  <2>4. FifoStep(Turn)
    BY <1>5 DEF Unwind, FifoStep, Await
  <2> QED BY <1>2, <1>3, <2>2, <2>3, <2>4, TurnKeeps DEF Elsewhere, TurnOnly
<1> QED BY <1>4, <1>5 DEF Cancelled

\* The steps of the pump and of the turn keep the invariant.
LEMMA TurningKeeps ==
  ASSUME IInv, Turning
  PROVE  IInv'
<1>1. Turn \in Tasks /\ (task[Turn].at \notin Resting => row[msg(Turn)] \in Row)
  BY Typed DEF Tasks
<1>2. owned \in SUBSET Messages /\ stop \in {"none", "asked", "raised"}
  BY DEF IInv, TypeOK
<1>3. CASE NextTurn
  BY <1>3, NextTurnKeeps
<1>4. CASE NeverStarts
  <2>1. /\ task[Turn].at \notin Resting /\ Go(Turn, "done") /\ Read
        /\ UNCHANGED <<fifo, owned, queue, stop, latest, marked, acted, history>>
    BY <1>4 DEF NeverStarts, Resting
  <2>2. Steps(Turn, "done") /\ FifoStep(Turn) /\ RowsGrow /\ touched' \in BOOLEAN
    BY <1>1, <2>1, Typed, GoSteps, FailureLocations, ReadGrows DEF FifoStep
  <2> QED BY <1>2, <2>1, <2>2, TurnKeeps DEF TurnOnly
<1>5. CASE Begin
  BY <1>5, BeginKeeps
<1>6. CASE Refuse
  BY <1>1, <1>6, RecordKeeps DEF Refuse, Terminal, Resting
<1>7. CASE MarkEffect
  BY <1>7, MarkEffectKeeps
<1>8. CASE Perform
  BY <1>8, PerformKeeps
<1>9. CASE Prepare \/ ToolDone \/ ReplyRecorded
  <2>1. PICK p \in {"deciding", "working"} : Go(Turn, p)
    BY <1>9 DEF Prepare, ToolDone, ReplyRecorded
  <2>2. /\ task[Turn].at \in TurnOnly /\ task[Turn].at \notin Resting /\ Proceed(Turn) /\ Read
        /\ UNCHANGED <<owned, queue, stop, latest, marked, acted, history>>
    BY <1>9 DEF Prepare, ToolDone, ReplyRecorded, At, TurnOnly, Resting
  <2>3. p \in Locations
    BY FailureLocations DEF TurnOnly
  <2>4. Steps(Turn, p) /\ FifoStep(Turn) /\ RowsGrow /\ touched' \in BOOLEAN
    BY <1>1, <2>1, <2>2, <2>3, Typed, GoSteps, ReadGrows DEF FifoStep, Proceed
  <2> QED BY <1>2, <2>2, <2>4, TurnKeeps
<1>10. CASE ReplySent
  <2>1. /\ task[Turn].at \in TurnOnly /\ task[Turn].at \notin Resting /\ Await(Turn)
        /\ Go(Turn, "recording") /\ Write(msg(Turn), Answered(row[msg(Turn)]))
        /\ UNCHANGED <<owned, queue, stop, latest, marked, acted, history>>
    BY <1>10 DEF ReplySent, At, TurnOnly, Resting
  <2>2. Steps(Turn, "recording") /\ FifoStep(Turn)
    BY <1>1, <2>1, Typed, GoSteps, FailureLocations DEF FifoStep, Await, TurnOnly
  <2>3. RowsGrow /\ touched' \in BOOLEAN
    BY <1>1, <2>1, TransactionsGrow, ReadOrWriteGrows
  <2> QED BY <1>2, <2>1, <2>2, <2>3, TurnKeeps
<1>11. CASE Cancelled
  BY <1>11, CancelledKeeps
<1> QED BY <1>3, <1>4, <1>5, <1>6, <1>7, <1>8, <1>9, <1>10, <1>11 DEF Turning

\* The end of the model's work, with or without an error, keeps the invariant.
LEMMA EndsWorkKeeps ==
  ASSUME IInv, EndsWork
  PROVE  IInv'
<1>1. Turn \in Tasks
  BY DEF Tasks
<1>2. CASE ReturnTurn
  <2>1. PICK p \in {"leaving", "judging"} :
          task' = [task EXCEPT ![Turn].at = p, ![Turn].why = "silent"]
    BY <1>2 DEF ReturnTurn
  <2>2. /\ task[Turn].at \notin Resting /\ Await(Turn) /\ Read /\ owned' = owned /\ Quiet
        /\ p \in Elsewhere /\ "silent" \in Whys
    BY <1>2, FailureLocations DEF ReturnTurn, Thinking, At, Resting, Quiet, history, Failure, Whys
  <2> QED BY <1>1, <2>1, <2>2, Typed, WhyKeeps
<1>3. ASSUME NEW why \in {"retryable", "fatal"}, RaiseTurn(why)
      PROVE  IInv'
  <2>1. /\ task[Turn].at \notin Resting /\ JudgeFor(Turn, why) /\ owned' = owned /\ Quiet
        /\ why \in Whys
    BY <1>3 DEF RaiseTurn, Thinking, At, Resting, Quiet, history, Whys
  <2> QED BY <1>1, <2>1, Typed, JudgeForKeeps
<1> QED BY <1>2, <1>3 DEF EndsWork

-----------------------------------------------------------------------------
(* The theorems.                                                            *)

\* The process without messages satisfies the invariant.
LEMMA Initially ==
  Init => IInv
<1> SUFFICES ASSUME Init PROVE IInv
  OBVIOUS
<1>1. Idle \in TaskState /\ Idle.msg = 0 /\ Idle.at = "idle"
  BY DEF Idle, TaskState, Locations, Whys
<1>2. NoRow \in Row
  BY DEF NoRow, Row
<1>3. Turn \in Tasks
  BY DEF Tasks
<1>4. task \in [Tasks -> TaskState] /\ \A t \in Tasks : task[t] = Idle
  BY <1>1 DEF Init, Fresh
<1>5. fifo = <<>> /\ queue = <<>>
  BY DEF Init, Fresh
<1>6. TypeOK
  <2>1. /\ fifo \in Seq(Tasks) /\ DOMAIN fifo = {}
        /\ queue \in Seq(Messages) /\ DOMAIN queue = {}
    BY <1>5
  <2>2. /\ row \in [Messages -> Row]
        /\ given \in [Messages -> Nat] /\ acts \in [Messages -> Nat] /\ crashes \in Nat
        /\ shared \in SUBSET Messages
    BY <1>2 DEF Init
  <2>3. /\ owned \in SUBSET Messages /\ marked \in SUBSET Messages
        /\ stop \in {"none", "asked", "raised"} /\ latest \in Messages \cup {0}
        /\ acted \in BOOLEAN /\ touched \in BOOLEAN
    BY DEF Init, Fresh
  <2> QED BY <1>4, <2>1, <2>2, <2>3 DEF TypeOK, TaskState
<1>7. EffectsOnce /\ Committed
  BY DEF Init, EffectsOnce, Committed
<1> QED BY <1>1, <1>3, <1>4, <1>5, <1>6, <1>7
        DEF IInv, Occupied, QueueJournaled, Untouched, CheckedOut, TurnLives, TurnOnly, Resting

\* A restart forgets the tasks and keeps the checkpoints.
LEMMA RestartKeeps ==
  ASSUME IInv, Restart
  PROVE  IInv'
<1>1. Idle \in TaskState /\ Idle.msg = 0 /\ Idle.at = "idle"
  BY DEF Idle, TaskState, Locations, Whys
<1>2. Turn \in Tasks
  BY DEF Tasks
<1>3. task' \in [Tasks -> TaskState] /\ \A t \in Tasks : task'[t] = Idle
  BY <1>1 DEF Restart
<1>4. RowsGrow
  <2>1. \A m \in Messages : Grows(row[m], Restarted(row[m]))
    BY Typed, TransactionsGrow
  <2>2. row' = [m \in Messages |-> Restarted(row[m])]
    BY DEF Restart
  <2> QED BY <2>1, <2>2 DEF RowsGrow, Grows
<1>5. /\ fifo' = <<>> /\ queue' = <<>> /\ owned' = {} /\ stop' = "none" /\ latest' = 0
      /\ marked' = {} /\ acted' = FALSE /\ touched' = FALSE
      /\ crashes' = crashes + 1 /\ given' = given /\ acts' = acts /\ shared' = {}
  BY DEF Restart
<1>6. TypeOK'
  <2>1. /\ fifo' \in Seq(Tasks) /\ DOMAIN fifo' = {}
        /\ queue' \in Seq(Messages) /\ DOMAIN queue' = {}
    BY <1>5
  <2>2. row' \in [Messages -> Row]
    BY <1>4 DEF RowsGrow
  <2>3. given' \in [Messages -> Nat] /\ acts' \in [Messages -> Nat] /\ crashes' \in Nat
    BY <1>5 DEF IInv, TypeOK
  <2>4. /\ owned' \in SUBSET Messages /\ marked' \in SUBSET Messages
        /\ stop' \in {"none", "asked", "raised"} /\ latest' \in Messages \cup {0}
        /\ acted' \in BOOLEAN /\ touched' \in BOOLEAN /\ shared' \in SUBSET Messages
    BY <1>5
  <2> QED BY <1>3, <2>1, <2>2, <2>3, <2>4 DEF TypeOK, TaskState
<1>7. EffectsOnce' /\ Committed'
  BY <1>4, <1>5 DEF IInv, EffectsOnce, Committed, RowsGrow, Grows
<1> QED BY <1>1, <1>2, <1>3, <1>5, <1>6, <1>7
        DEF IInv, Occupied, QueueJournaled, Untouched, CheckedOut, TurnLives, TurnOnly, Resting

\* A stuttering step keeps the invariant.
LEMMA StutteringKeeps ==
  ASSUME IInv, UNCHANGED vars
  PROVE  IInv'
BY DEF vars, volatile, history, IInv, TypeOK, EffectsOnce, Occupied, QueueJournaled, Committed,
       Untouched, CheckedOut, TurnLives, msg

\* Every step keeps the invariant.
LEMMA Inductive ==
  IInv /\ [Next]_vars => IInv'
<1> SUFFICES ASSUME IInv, [Next]_vars PROVE IInv'
  OBVIOUS
<1>1. ASSUME NEW h \in Handlers, NEW m \in Messages, Deliver(h, m) PROVE IInv'
  BY <1>1, DeliverKeeps
<1>2. ASSUME NEW t \in Handlers \cup {Retry}, Admitting(t) PROVE IInv'
  BY <1>2, AdmittingKeeps
<1>3. ASSUME NEW t \in Tasks, Failing(t) PROVE IInv'
  BY <1>3, FailingKeeps
<1>4. CASE Turning
  BY <1>4, TurningKeeps
<1>5. CASE EndsWork
  BY <1>5, EndsWorkKeeps
<1>6. ASSUME NEW m \in Messages, Scan(m) PROVE IInv'
  BY <1>6, ScanKeeps
<1>7. CASE Retrying
  BY <1>7, RetryingKeeps
<1>8. CASE Restart
  BY <1>8, RestartKeeps
<1>9. CASE UNCHANGED vars
  BY <1>9, StutteringKeeps
<1> QED BY <1>1, <1>2, <1>3, <1>4, <1>5, <1>6, <1>7, <1>8, <1>9 DEF Next

\* The invariant holds in every reachable state.
LEMMA Invariance == Spec => []IInv
BY Initially, Inductive, PTL DEF Spec

\* The state is well formed, and the queue holds a request once, whatever is
\* delivered again, retried or admitted by several tasks at a time.
THEOREM TypeCorrect == Spec => []TypeOK
<1>1. IInv => TypeOK
  BY DEF IInv
<1> QED BY <1>1, Invariance, PTL

\* At most one turn of a request starts an effect (_mark_request_effect).
THEOREM EffectsAtMostOnce == Spec => []EffectsOnce
<1>1. IInv => EffectsOnce
  BY DEF IInv
<1> QED BY <1>1, Invariance, PTL

\* What was done is known to the journal, in every reachable state and so in
\* the state a crash leaves: a turn that acted is never begun again.
THEOREM EffectsCommitted == Spec => []Committed
<1>1. IInv => Committed
  BY DEF IInv
<1> QED BY <1>1, Invariance, PTL

-----------------------------------------------------------------------------
(* No effect is started for a request that is superseded.                   *)

\* Where a task works on a message that the queue does not hold yet.
Unentered == {"receiving", "preparing"}

\* Where a turn is after a cancellation.
Winding == {"condemning", "deferring", "leaving", "done"}

\* A message with one owner is neither queued nor running while it is admitted.
Entering ==
  \A t \in Admitters : task[t].at \in Unentered => msg(t) \in shared \/ ~Contained(msg(t))

\* A turn that was cancelled does not come back to its work.
Unwound == stop = "raised" => task[Turn].at \in Winding

\* A turn superseded after its checkpoint is about to be cancelled.
Overtaken ==
  task[Turn].at = "acting" /\ row[msg(Turn)].status = "superseded" =>
    stop = "asked" \/ msg(Turn) \in shared

Silent == OneOwner /\ Entering /\ Unwound /\ Overtaken

\* How a step of t changes what is owned: not at all, by giving up a message
\* of t alone, or by taking one that is free.
Claims(t) ==
  \/ owned' = owned /\ (task'[t].at \in Inside => task[t].at \in Inside /\ msg(t)' = msg(t))
  \/ /\ task'[t].at \notin Inside /\ owned' = owned \ {msg(t)}
     /\ task[t].at \in Inside \/ msg(t) \notin owned \/ msg(t) \in shared'
  \/ /\ msg(t)' \notin owned \/ msg(t)' \in shared'
     /\ owned' = owned \cup {msg(t)'}

\* No row becomes superseded.
NoneSuperseded ==
  \A k \in Messages : row'[k].status = "superseded" => row[k].status = "superseded"

\* What a step of on_message or of the retry loop may do.
Serves(t) ==
  /\ \A u \in Tasks \ {t} : task'[u] = task[u]
  /\ shared \subseteq shared'
  /\ Claims(t)
  /\ \A k \in Messages :
       Contained(k)' => Contained(k) \/ (k = msg(t) /\ task[t].at = "queuing")
  /\ task'[t].at \in Unentered =>
       /\ msg(t)' = msg(t)
       /\ task[t].at \in Inside \ {"queuing"}
       /\ task[t].at \in Unentered \/ ~Contained(msg(t))
  /\ stop' = stop \/ (stop = "none" /\ stop' = "asked")
  /\ task[Turn].at = "acting" /\ row'[msg(Turn)].status = "superseded" =>
       row[msg(Turn)].status = "superseded" \/ stop' = "asked" \/ msg(Turn) \in shared

\* What a step of the pump or of the turn may do.
Works ==
  /\ \A u \in Tasks \ {Turn} : task'[u] = task[u]
  /\ owned' = owned /\ shared' = shared
  /\ \A k \in Messages : Contained(k)' => Contained(k)
  /\ stop' = "raised" => task'[Turn].at \in Winding
  /\ task'[Turn].at = "acting" => row'[msg(Turn)'].status # "superseded"

\* A task inside on_message has a message.
LEMMA InsideWorks ==
  ASSUME IInv
  PROVE  /\ \A t \in Admitters : t \in Tasks /\ t # Turn
         /\ \A t \in Tasks : task[t].at \in Inside \cup TurnOnly => msg(t) \in Messages
         /\ Unentered \subseteq Inside /\ "queuing" \in Inside
<1>1. \A p \in Inside \cup TurnOnly : p \notin Resting
  BY DEF Inside, Admission, Failure, TurnOnly, Resting
<1> QED BY <1>1, Typed, LifecycleAssumption
        DEF Admitters, Tasks, Unentered, Inside, Admission

\* The steps of the admitting tasks keep what holds of them and of the turn.
LEMMA ServesKeeps ==
  ASSUME IInv, Silent, NEW t \in Admitters, Serves(t)
  PROVE  Silent'
<1> USE DEF Serves
<1>1. t \in Tasks /\ t # Turn /\ Turn \in Tasks
  BY InsideWorks DEF Tasks
<1>2. /\ task'[Turn] = task[Turn] /\ msg(Turn)' = msg(Turn)
      /\ \A u \in Admitters \ {t} : task'[u] = task[u] /\ msg(u)' = msg(u)
  BY <1>1, InsideWorks DEF msg
<1>3. OneOwner'
  <2> SUFFICES ASSUME NEW u \in Admitters, task'[u].at \in Inside, msg(u)' \notin shared'
               PROVE  /\ msg(u)' \in owned'
                      /\ \A v \in Admitters : task'[v].at \in Inside /\ msg(v)' = msg(u)' => v = u
    BY DEF OneOwner
  <2>1. CASE owned' = owned /\ (task'[t].at \in Inside => task[t].at \in Inside /\ msg(t)' = msg(t))
    <3>1. \A v \in Admitters : task'[v].at \in Inside => task[v].at \in Inside /\ msg(v)' = msg(v)
      BY <1>2, <2>1
    <3> QED BY <2>1, <3>1 DEF Silent, OneOwner
  <2>2. CASE /\ task'[t].at \notin Inside /\ owned' = owned \ {msg(t)}
             /\ task[t].at \in Inside \/ msg(t) \notin owned \/ msg(t) \in shared'
    <3>1. \A v \in Admitters : task'[v].at \in Inside =>
            v # t /\ task[v].at \in Inside /\ msg(v)' = msg(v)
      BY <1>2, <2>2
    <3>2. /\ msg(u) \notin shared /\ msg(u) \in owned
          /\ \A v \in Admitters : task[v].at \in Inside /\ msg(v) = msg(u) => v = u
      BY <3>1 DEF Silent, OneOwner
    <3>3. msg(u) # msg(t)
      BY <2>2, <3>1, <3>2
    <3> QED BY <2>2, <3>1, <3>2, <3>3
  <2>3. CASE /\ msg(t)' \notin owned \/ msg(t)' \in shared'
             /\ owned' = owned \cup {msg(t)'}
    <3>1. \A v \in Admitters \ {t} : task'[v].at \in Inside /\ msg(v)' \notin shared' =>
            /\ msg(v)' = msg(v) /\ msg(v) \in owned
            /\ \A w \in Admitters : task[w].at \in Inside /\ msg(w) = msg(v) => w = v
      BY <1>2 DEF Silent, OneOwner
    <3>2. CASE u = t
      <4> SUFFICES ASSUME NEW v \in Admitters \ {t}, task'[v].at \in Inside, msg(v)' = msg(t)'
                   PROVE  FALSE
        BY <2>3, <3>2
      <4> QED BY <2>3, <3>1, <3>2
    <3>3. CASE u # t
      <4>1. msg(u)' = msg(u) /\ msg(u) \in owned /\ msg(u) # msg(t)'
        BY <2>3, <3>1, <3>3
      <4>2. \A v \in Admitters \ {t} : task'[v].at \in Inside /\ msg(v)' = msg(u)' => v = u
        BY <1>2, <3>1, <3>3, <4>1
      <4> QED BY <2>3, <4>1, <4>2
    <3> QED BY <3>2, <3>3
  <2> QED BY <2>1, <2>2, <2>3 DEF Claims
<1>4. Entering'
  <2> SUFFICES ASSUME NEW u \in Admitters, task'[u].at \in Unentered, msg(u)' \notin shared',
                      Contained(msg(u))'
               PROVE  FALSE
    BY DEF Entering
  <2>1. CASE u = t
    <3>1. /\ msg(t)' = msg(t) /\ task[t].at \in Inside \ {"queuing"} /\ msg(t) \notin shared
          /\ task[t].at \in Unentered \/ ~Contained(msg(t))
      BY <2>1
    <3>2. ~Contained(msg(t))
      BY <3>1 DEF Silent, Entering
    <3>3. task[t].at \in Inside => msg(t) \in Messages
      BY <1>1, InsideWorks
    <3> QED BY <2>1, <3>1, <3>2, <3>3 DEF Contained
  <2>2. CASE u # t
    <3>1. task[u].at \in Unentered /\ msg(u)' = msg(u) /\ msg(u) \notin shared
      BY <1>2, <2>2
    <3>2. ~Contained(msg(u)) /\ task[u].at \in Inside /\ msg(u) \in Messages
      BY <3>1, InsideWorks DEF Silent, Entering
    <3>3. Contained(msg(u)) \/ (msg(u) = msg(t) /\ task[t].at = "queuing")
      BY <3>1, <3>2 DEF Contained
    <3>4. msg(u) = msg(t) /\ task[t].at \in Inside
      BY <3>2, <3>3, InsideWorks
    <3> QED BY <2>2, <3>1, <3>2, <3>4 DEF Silent, OneOwner
  <2> QED BY <2>1, <2>2
<1>5. Unwound'
  BY <1>2 DEF Silent, Unwound
<1>6. Overtaken'
  BY <1>2 DEF Silent, Overtaken
<1> QED BY <1>3, <1>4, <1>5, <1>6 DEF Silent

\* So do the steps of the pump and of the turn.
LEMMA WorksKeeps ==
  ASSUME IInv, Silent, Works
  PROVE  Silent'
<1> USE DEF Works
<1>1. \A u \in Admitters : task'[u] = task[u] /\ msg(u)' = msg(u)
  BY InsideWorks DEF msg
<1>2. OneOwner'
  BY <1>1 DEF Silent, OneOwner
<1>3. Entering'
  <2> SUFFICES ASSUME NEW u \in Admitters, task'[u].at \in Unentered, msg(u)' \notin shared'
               PROVE  ~Contained(msg(u))'
    BY DEF Entering
  <2>1. task[u].at \in Unentered /\ ~Contained(msg(u)) /\ msg(u) \in Messages /\ msg(u)' = msg(u)
    BY <1>1, InsideWorks DEF Silent, Entering
  <2> QED BY <2>1 DEF Contained
<1>4. Unwound' /\ Overtaken'
  BY DEF Unwound, Overtaken
<1> QED BY <1>2, <1>3, <1>4 DEF Silent

\* A transaction of these kinds supersedes nothing.
LEMMA TransactionsSilent ==
  ASSUME NEW r \in Row, NEW s \in
           {r, Accepted(r), Begun(r), Checkpointed(r), Answered(r)}
           \cup {Updated(r, status) : status \in (Pending \cup Terminal) \ {"superseded"}}
           \cup {Recorded(r, status) : status \in (Pending \cup Terminal) \ {"superseded"}},
         s.status = "superseded"
  PROVE  r.status = "superseded"
<1>1. /\ Accepted(r).status \in {r.status, "received"}
      /\ Begun(r).status = "running"
      /\ Checkpointed(r).status = r.status
      /\ Answered(r).status \in {r.status, "delivered"}
      /\ \A status : /\ Updated(r, status).status = status
                     /\ Recorded(r, status).status \in {r.status, status}
  BY DEF Row, Accepted, Begun, Checkpointed, Answered, Updated, Recorded
<1> QED BY <1>1

\* Reading or writing a row so supersedes nothing.
LEMMA WriteSilent ==
  ASSUME IInv, NEW m \in Messages, NEW r,
         Read \/ (Write(m, r) /\ (r.status = "superseded" => row[m].status = "superseded"))
  PROVE  NoneSuperseded
<1>1. \/ row' = row
      \/ row' = [row EXCEPT ![m] = r] /\ (r.status = "superseded" => row[m].status = "superseded")
  BY DEF Read, Write
<1> QED BY <1>1, Typed DEF NoneSuperseded

LEMMA ReadSilent ==
  ASSUME Read
  PROVE  NoneSuperseded
BY DEF Read, NoneSuperseded

\* What the queue and the turn hold, after a step that adds nothing to them.
LEMMA ContainedShrinks ==
  ASSUME IInv, QueueShrinks, msg(Turn)' \in {msg(Turn), 0}
  PROVE  \A k \in Messages : Contained(k)' => Contained(k)
<1>1. \A k \in Messages : k # 0
  BY LifecycleAssumption
<1> QED BY <1>1 DEF Contained, QueueShrinks

LEMMA QueueSame ==
  ASSUME IInv, queue' = queue
  PROVE  QueueShrinks
BY DEF QueueShrinks, IInv, TypeOK, Unique

\* A step that leaves the queue, the cancellation and what is owned alone.
LEMMA StaysServes ==
  ASSUME IInv, NEW t \in Admitters, NEW p, Steps(t, p), task[t].at \in Inside,
         p \notin Unentered, owned' = owned, NoneSuperseded,
         UNCHANGED <<queue, stop, shared>>
  PROVE  Serves(t)
<1>1. t \in Tasks /\ t # Turn /\ Turn \in Tasks
  BY InsideWorks DEF Tasks
<1>2. /\ \A u \in Tasks \ {t} : task'[u] = task[u]
      /\ task'[t].at = p /\ msg(t)' = msg(t) /\ msg(Turn)' = msg(Turn)
  BY <1>1 DEF Steps, msg
<1>3. \A k \in Messages : Contained(k)' => Contained(k)
  BY <1>2, QueueSame, ContainedShrinks
<1>4. task[Turn].at = "acting" => msg(Turn) \in Messages
  BY <1>1, InsideWorks DEF TurnOnly
<1> QED BY <1>2, <1>3, <1>4 DEF Serves, Claims, NoneSuperseded

\* A step with which a task gives its message up.
LEMMA RestServes ==
  ASSUME IInv, NEW t \in Admitters, Rests(t), NoneSuperseded,
         UNCHANGED <<queue, stop>>, shared \subseteq shared',
         \/ owned' = owned
         \/ /\ owned' = owned \ {msg(t)}
            /\ task[t].at \in Inside \/ msg(t) \notin owned \/ msg(t) \in shared'
  PROVE  Serves(t)
<1>1. t \in Tasks /\ t # Turn /\ Turn \in Tasks
  BY InsideWorks DEF Tasks
<1>2. /\ \A u \in Tasks \ {t} : task'[u] = task[u]
      /\ task'[t].at \in Resting /\ msg(Turn)' = msg(Turn)
  BY <1>1 DEF Rests, msg
<1>3. task'[t].at \notin Inside /\ task'[t].at \notin Unentered
  BY <1>2 DEF Resting, Inside, Admission, Failure, Unentered
<1>4. \A k \in Messages : Contained(k)' => Contained(k)
  BY <1>2, QueueSame, ContainedShrinks
<1>5. task[Turn].at = "acting" => msg(Turn) \in Messages
  BY <1>1, InsideWorks DEF TurnOnly
<1> QED BY <1>2, <1>3, <1>4, <1>5 DEF Serves, Claims, NoneSuperseded

\* The finally block gives up a message of the task alone.
LEMMA DisownServes ==
  ASSUME IInv, NEW t \in Admitters, Disown(t), NoneSuperseded,
         UNCHANGED <<queue, stop>>, shared \subseteq shared',
         task[t].at \in Inside \/ msg(t) \notin owned \/ msg(t) \in shared'
  PROVE  Serves(t)
<1>1. Rests(t)
  BY InsideWorks, Typed, StopsRests DEF Disown
<1> QED BY <1>1, RestServes DEF Disown

\* A message enters on_message: it was free.
LEMMA ReceiveServes ==
  ASSUME IInv, NEW t \in Admitters, NEW m \in Messages, Receive(t, m), m \notin owned,
         shared' = shared
  PROVE  Serves(t)
<1>1. t \in Tasks /\ t # Turn /\ Turn \in Tasks
  BY InsideWorks DEF Tasks
<1>2. /\ \A u \in Tasks \ {t} : task'[u] = task[u]
      /\ task'[t].at = "accepted" /\ msg(t)' = m /\ msg(Turn)' = msg(Turn)
  <2> DEFINE x == [Idle EXCEPT !.at = "accepted", !.msg = m]
  <2>1. x.at = "accepted" /\ x.msg = m
    BY DEF Idle
  <2>2. task' = [task EXCEPT ![t] = x]
    BY DEF Receive
  <2> HIDE DEF x
  <2> QED BY <1>1, <2>1, <2>2, Typed DEF msg
<1>3. \A k \in Messages : Contained(k)' => Contained(k)
  BY <1>2, QueueSame, ContainedShrinks DEF Receive
<1>4. NoneSuperseded
  <2>1. row' = [row EXCEPT ![m] = Accepted(row[m])]
    BY DEF Receive
  <2>2. Accepted(row[m]).status = "superseded" => row[m].status = "superseded"
    BY Typed, TransactionsSilent
  <2> QED BY <2>1, <2>2, Typed DEF NoneSuperseded
<1>5. task[Turn].at = "acting" => msg(Turn) \in Messages
  BY <1>1, InsideWorks DEF TurnOnly
<1> QED BY <1>2, <1>3, <1>4, <1>5 DEF Serves, Claims, NoneSuperseded, Receive, Unentered

\* Where a step of on_message goes that only reads or writes its own row.
Onward == Inside \ Unentered

LEMMA OnwardLocations ==
  /\ Failure \cup {"known", "dispatching", "dispatched", "cleared", "queuing", "unanswered",
                   "counting", "refused"} \subseteq Onward
  /\ Onward \subseteq Locations /\ Inside \subseteq Locations
BY DEF Onward, Inside, Unentered, Admission, Failure, Locations

\* A step of on_message that reads or writes its own row.
LEMMA GoesOnward ==
  ASSUME IInv, NEW t \in Admitters, task[t].at \in Inside, NEW p \in Onward,
         \/ Go(t, p)
         \/ \E why \in Whys : \/ task' = [task EXCEPT ![t].at = p, ![t].why = why]
                             \/ task' = [task EXCEPT ![t].at = p, ![t].why = why, ![t].todo = 0]
         \/ \E n \in Nat : task' = [task EXCEPT ![t].at = p, ![t].todo = n],
         NoneSuperseded, UNCHANGED <<owned, queue, stop, shared>>
  PROVE  Serves(t)
<1>1. Steps(t, p)
  BY Typed, GoSteps, FailsSteps, InsideWorks, OnwardLocations
<1> QED BY <1>1, StaysServes DEF Onward

\* A record of another outcome.
LEMMA RecordServes ==
  ASSUME IInv, NEW t \in Admitters, NEW p \in Inside,
         NEW status \in (Pending \cup Terminal) \ {"superseded"}, Record(t, p, status)
  PROVE  Serves(t)
<1>1. /\ task[t].at \in Inside /\ Write(msg(t), Recorded(row[msg(t)], status))
      /\ Go(t, "leaving") /\ UNCHANGED <<owned, queue, stop, shared>>
  BY DEF Record, At, history
<1>2. msg(t) \in Messages /\ row[msg(t)] \in Row
  BY <1>1, InsideWorks, Typed
<1>3. NoneSuperseded
  BY <1>1, <1>2, TransactionsSilent, WriteSilent
<1> QED BY <1>1, <1>3, GoesOnward, OnwardLocations DEF Failure

\* The last read of on_message.
LEMMA LastLookServes ==
  ASSUME IInv, NEW t \in Admitters, task[t].at \in Inside, LastLook(t), Read,
         UNCHANGED <<owned, queue, stop, shared>>
  PROVE  Serves(t)
<1>1. Go(t, "unanswered") \/ Go(t, "leaving")
  BY DEF LastLook
<1> QED BY <1>1, ReadSilent, GoesOnward, OnwardLocations DEF Failure

\* The receipt is reset only while the queue does not hold the message.
LEMMA ResetReceiptServes ==
  ASSUME IInv, NEW t \in Admitters, ResetReceipt(t)
  PROVE  Serves(t)
<1> DEFINE m == msg(t)
<1>1. task[t].at = "known" /\ UNCHANGED <<queue, stop, shared>>
  BY DEF ResetReceipt, At, history
<1>2. task[t].at \in Inside /\ m \in Messages /\ row[m] \in Row
  BY <1>1, InsideWorks, Typed DEF Inside, Admission
<1>3. CASE Disown(t) /\ Read
  BY <1>1, <1>2, <1>3, ReadSilent, DisownServes
<1>4. CASE /\ ~Contained(m) /\ Write(m, Updated(row[m], "received"))
           /\ Go(t, "receiving") /\ owned' = owned
  <2>1. NoneSuperseded
    BY <1>2, <1>4, TransactionsSilent, WriteSilent DEF Pending
  <2>2. t \in Tasks /\ t # Turn /\ Turn \in Tasks
    BY InsideWorks DEF Tasks
  <2>3. Steps(t, "receiving")
    BY <1>4, <2>2, Typed, GoSteps DEF Locations, Admission
  <2>4. /\ \A u \in Tasks \ {t} : task'[u] = task[u]
        /\ task'[t].at = "receiving" /\ msg(t)' = m /\ msg(Turn)' = msg(Turn)
    BY <2>2, <2>3 DEF Steps, msg
  <2>5. \A k \in Messages : Contained(k)' => Contained(k)
    BY <1>1, <2>4, QueueSame, ContainedShrinks
  <2>6. task[Turn].at = "acting" => msg(Turn) \in Messages
    BY <2>2, InsideWorks DEF TurnOnly
  <2> QED BY <1>1, <1>2, <1>4, <2>1, <2>4, <2>5, <2>6 DEF Serves, Claims, NoneSuperseded
<1> QED BY <1>3, <1>4 DEF ResetReceipt

\* The entries of an author that a callback supersedes are none of the turn's.
LEMMA QueuedElsewhere ==
  ASSUME IInv, NEW m
  PROVE  msg(Turn) \notin QueuedBy(m)
BY DEF IInv, TypeOK, QueuedBy, QueuedAt, msg

\* Superseding writes to these rows only.
LEMMA SupersedingWithin ==
  ASSUME IInv, NEW S, Superseding(S), NEW k \in Messages, k \notin S
  PROVE  row'[k] = row[k]
BY Typed DEF Superseding

\* An interrupt that supersedes a turn asks for its cancellation.
LEMMA AdmitServes ==
  ASSUME IInv, Silent, NEW t \in Admitters, Admit(t)
  PROVE  Serves(t)
<1> DEFINE m == msg(t)
<1>1. /\ task[t].at = "receiving" /\ Go(t, "preparing") /\ UNCHANGED <<owned, shared>>
  BY DEF Admit, At, history
<1>2. t \in Tasks /\ t # Turn /\ Turn \in Tasks
  BY InsideWorks DEF Tasks
<1>3. Steps(t, "preparing")
  BY <1>1, <1>2, Typed, GoSteps DEF Locations, Admission
<1>4. /\ \A u \in Tasks \ {t} : task'[u] = task[u]
      /\ task'[t].at = "preparing" /\ msg(t)' = m /\ msg(Turn)' = msg(Turn)
  BY <1>2, <1>3 DEF Steps, msg
<1>5. task[t].at \in Inside \ {"queuing"} /\ task[t].at \in Unentered
  BY <1>1 DEF Inside, Admission, Unentered
<1>6. task[Turn].at = "acting" => msg(Turn) \in Messages
  BY <1>2, InsideWorks DEF TurnOnly
<1>7. CASE Interrupt(m)
  <2>1. \A k \in Messages : Contained(k)' => Contained(k)
    BY <1>4, <1>7, DropAuthorShrinks, ContainedShrinks DEF Interrupt
  <2>2. stop' = stop \/ (stop = "none" /\ stop' = "asked")
    BY <1>7 DEF Interrupt
  <2>3. ASSUME task[Turn].at = "acting", row'[msg(Turn)].status = "superseded",
               row[msg(Turn)].status # "superseded"
        PROVE  stop' = "asked"
    <3>1. SameAuthor(msg(Turn), m)
      BY <1>6, <1>7, <2>3, QueuedElsewhere, SupersedingWithin DEF Interrupt
    <3>2. stop # "raised"
      BY <2>3 DEF Silent, Unwound, Winding
    <3>3. TurnAlive /\ stop \in {"none", "asked"}
      BY <2>3, <3>2 DEF TurnAlive, IInv, TypeOK
    <3> QED BY <1>7, <3>1, <3>3 DEF Interrupt
  <2> QED BY <1>1, <1>4, <1>5, <2>1, <2>2, <2>3 DEF Serves, Claims, Unentered, Inside, Admission
<1>8. CASE Read /\ UNCHANGED <<queue, stop>>
  <2>1. \A k \in Messages : Contained(k)' => Contained(k)
    BY <1>4, <1>8, QueueSame, ContainedShrinks
  <2> QED BY <1>1, <1>4, <1>5, <1>6, <1>8, <2>1, ReadSilent
          DEF Serves, Claims, NoneSuperseded, Unentered, Inside, Admission
<1> QED BY <1>7, <1>8 DEF Admit

\* A dispatch that records its own message superseded leaves the turn's alone.
LEMMA DispatchServes ==
  ASSUME IInv, Silent, NEW t \in Admitters, Dispatch(t)
  PROVE  Serves(t)
<1> DEFINE m == msg(t)
<1>1. task[t].at = "preparing" /\ UNCHANGED <<owned, stop, shared>>
  BY DEF Dispatch, At, history
<1>2. t \in Tasks /\ t # Turn /\ Turn \in Tasks
  BY InsideWorks DEF Tasks
<1>3. task[t].at \in Inside /\ m \in Messages
  BY <1>1, <1>2, InsideWorks DEF Inside, Admission
<1>4. \E p \in {"dispatching", "dispatched"} : Steps(t, p)
  <2>1. queue \in Seq(Messages) /\ QueuedAt(m) \subseteq DOMAIN queue
    BY DEF IInv, TypeOK, QueuedAt
  <2>2. Cardinality(QueuedAt(m)) \in Nat
    BY <2>1, Indices, FS_Subset, FS_CardinalityType
  <2> DEFINE n == 1 + Cardinality(QueuedAt(m))
  <2>3. n \in Nat
    BY <2>2
  <2>4. \/ Go(t, "dispatched")
        \/ \E i \in {1, n} : task' = [task EXCEPT ![t].at = "dispatching", ![t].todo = i]
    BY DEF Dispatch
  <2> HIDE DEF n
  <2> QED BY <1>2, <2>3, <2>4, Typed, GoSteps, OnwardLocations DEF Locations, Admission
<1>5. /\ \A u \in Tasks \ {t} : task'[u] = task[u]
      /\ task'[t].at \in {"dispatching", "dispatched"} /\ msg(t)' = m /\ msg(Turn)' = msg(Turn)
  BY <1>2, <1>4 DEF Steps, msg
<1>6. QueueShrinks
  BY QueueSame, DropAuthorShrinks DEF Dispatch
<1>7. \A k \in Messages : Contained(k)' => Contained(k)
  BY <1>5, <1>6, ContainedShrinks
<1>8. ASSUME task[Turn].at = "acting", row'[msg(Turn)].status = "superseded"
      PROVE  row[msg(Turn)].status = "superseded" \/ msg(Turn) \in shared
  <2>1. msg(Turn) \in Messages
    BY <1>2, <1>8, InsideWorks DEF TurnOnly
  <2>2. CASE Write(m, Recorded(row[m], "superseded"))
    <3>1. CASE m = msg(Turn)
      <4>1. Contained(m)
        BY <3>1 DEF Contained
      <4> QED BY <1>1, <3>1, <4>1 DEF Silent, Entering, Unentered
    <3>2. CASE m # msg(Turn)
      BY <1>8, <2>1, <2>2, <3>2, Typed DEF Write
    <3> QED BY <3>1, <3>2
  <2>3. CASE Superseding(QueuedBy(m))
    BY <1>8, <2>1, <2>3, QueuedElsewhere, SupersedingWithin
  <2>4. CASE Read
    BY <1>8, <2>4 DEF Read
  <2> QED BY <2>2, <2>3, <2>4 DEF Dispatch
<1> QED BY <1>1, <1>3, <1>5, <1>7, <1>8 DEF Serves, Claims, Unentered, Inside, Admission

\* The queue takes a message of the task that enqueues it.
LEMMA EnqueueServes ==
  ASSUME IInv, NEW t \in Admitters, Enqueue(t)
  PROVE  Serves(t)
<1> DEFINE m == msg(t)
<1>1. task[t].at = "queuing" /\ UNCHANGED <<owned, stop, shared>> /\ LastLook(t) /\ Read
  BY DEF Enqueue, At, history
<1>2. t \in Tasks /\ t # Turn /\ Turn \in Tasks /\ task[t].at \in Inside
  BY <1>1, InsideWorks DEF Tasks
<1>3. PICK p \in {"unanswered", "leaving"} : Go(t, p)
  BY <1>1 DEF LastLook
<1>4. Steps(t, p) /\ p \notin Unentered
  BY <1>2, <1>3, Typed, GoSteps DEF Locations, Admission, Failure, Unentered
<1>5. /\ \A u \in Tasks \ {t} : task'[u] = task[u]
      /\ task'[t].at = p /\ msg(t)' = m /\ msg(Turn)' = msg(Turn)
  BY <1>2, <1>4 DEF Steps, msg
<1>6. \A k \in Messages : Contained(k)' => Contained(k) \/ k = m
  <2>1. CASE queue' = queue
    BY <1>5, <2>1, QueueSame, ContainedShrinks
  <2>2. CASE queue' = Append(queue, m)
    <3>1. \A i \in DOMAIN queue' : queue'[i] = m \/ \E j \in DOMAIN queue : queue'[i] = queue[j]
      <4>1. queue \in Seq(Messages) /\ m \in Messages
        BY <1>2, InsideWorks DEF IInv, TypeOK
      <4> QED BY <2>2, <4>1
    <3> QED BY <1>5, <3>1 DEF Contained
  <2> QED BY <2>1, <2>2 DEF Enqueue
<1>7. task[Turn].at = "acting" => msg(Turn) \in Messages
  BY <1>2, InsideWorks DEF TurnOnly
<1> QED BY <1>1, <1>2, <1>4, <1>5, <1>6, <1>7, ReadSilent DEF Serves, Claims, NoneSuperseded

\* The failed fetch of a message that the retry loop does not own any more.
LEMMA FetchFailedServes ==
  ASSUME IInv, NEW why \in Whys, NEW others, FetchFailed(why, others),
         UNCHANGED <<queue, stop, shared>>,
         \/ others = owned
         \/ others = owned \ {msg(Retry)} /\ task[Retry].at \in Inside
  PROVE  Serves(Retry)
<1>1. Retry \in Admitters /\ Retry \in Tasks /\ Retry # Turn /\ Turn \in Tasks
  BY InsideWorks DEF Admitters, Tasks
<1>2. row' = row /\ owned' = others
  BY DEF FetchFailed
<1>3. NoneSuperseded
  BY <1>2 DEF NoneSuperseded
<1>4. CASE Stops(Retry)
  <2>1. Rests(Retry)
    BY <1>1, <1>4, Typed, StopsRests
  <2> QED BY <1>1, <1>2, <1>3, <2>1, RestServes
<1>5. CASE \E p \in {"claiming", "quitting"} :
             task' = [task EXCEPT ![Retry].at = p, ![Retry].why = why]
  <2>1. PICK p \in {"claiming", "quitting"} : Steps(Retry, p)
    BY <1>1, <1>5, Typed, GoSteps DEF Locations, RetryOnly
  <2>2. /\ \A u \in Tasks \ {Retry} : task'[u] = task[u]
        /\ task'[Retry].at = p /\ msg(Turn)' = msg(Turn)
    BY <1>1, <2>1 DEF Steps, msg
  <2>3. p \notin Inside /\ p \notin Unentered
    BY DEF Inside, Admission, Failure, Unentered
  <2>4. \A k \in Messages : Contained(k)' => Contained(k)
    BY <2>2, QueueSame, ContainedShrinks
  <2>5. task[Turn].at = "acting" => msg(Turn) \in Messages
    BY <1>1, InsideWorks DEF TurnOnly
  <2> QED BY <1>2, <1>3, <2>2, <2>3, <2>4, <2>5 DEF Serves, Claims, NoneSuperseded
<1> QED BY <1>4, <1>5 DEF FetchFailed

\* The steps of on_message.
LEMMA AdmittingServes ==
  ASSUME IInv, Silent, NEW t \in Admitters, Admitting(t)
  PROVE  Serves(t)
<1> DEFINE m == msg(t)
<1>1. task[t].at \in Inside => m \in Messages /\ row[m] \in Row
  <2>1. t \in Tasks
    BY InsideWorks
  <2> QED BY <2>1, InsideWorks, Typed
<1>2. CASE ReadReceipt(t)
  <2>1. /\ task[t].at \in Inside /\ Read /\ UNCHANGED <<owned, queue, stop, shared>>
        /\ Go(t, "leaving") \/ Go(t, "known")
    BY <1>2 DEF ReadReceipt, At, Inside, Admission, history
  <2> QED BY <2>1, ReadSilent, GoesOnward, OnwardLocations DEF Failure
<1>3. CASE Reject(t) \/ Dispatched(t)
  <2>1. task[t].at \in Inside /\ LastLook(t) /\ Read /\ UNCHANGED <<owned, queue, stop, shared>>
    BY <1>3 DEF Reject, Dispatched, At, Inside, Admission, history
  <2> QED BY <2>1, LastLookServes
<1>4. CASE CheckReceipt(t)
  <2>1. task[t].at = "dispatching" /\ Read /\ UNCHANGED <<owned, queue, stop, shared>>
    BY <1>4 DEF CheckReceipt, At, history
  <2>2. task[t].at \in Inside /\ t \in Tasks
    BY <2>1, InsideWorks DEF Inside, Admission
  <2>3. CASE task[t].todo > 1 /\ task' = [task EXCEPT ![t].todo = @ - 1]
    <3> DEFINE n == task[t].todo - 1
    <3>1. n \in Nat
      BY <2>2, <2>3, Typed DEF TaskState
    <3>2. task' = [task EXCEPT ![t].todo = n]
      BY <2>3
    <3> HIDE DEF n
    <3>3. task[t] = [task[t] EXCEPT !.at = "dispatching"]
      BY <2>1, <2>2, Typed DEF TaskState
    <3>4. task' = [task EXCEPT ![t].at = "dispatching", ![t].todo = n]
      <4>1. task' = [task EXCEPT ![t] = [task[t] EXCEPT !.todo = n]]
        BY <3>2
      <4>2. task' = [task EXCEPT ![t] = [[task[t] EXCEPT !.at = "dispatching"] EXCEPT !.todo = n]]
        BY <3>3, <4>1
      <4> QED BY <4>2
    <3> QED BY <2>1, <2>2, <3>1, <3>4, ReadSilent, GoesOnward, OnwardLocations
  <2>4. CASE \E p \in {"dispatched", "cleared"} : task' = [task EXCEPT ![t].at = p, ![t].todo = 0]
    BY <2>1, <2>2, <2>4, ReadSilent, GoesOnward, OnwardLocations
  <2> QED BY <1>4, <2>3, <2>4 DEF CheckReceipt
<1>5. CASE MarkQueued(t)
  <2>1. task[t].at \in Inside /\ UNCHANGED <<owned, queue, stop, shared>>
    BY <1>5 DEF MarkQueued, At, Inside, Admission, history
  <2>2. CASE LastLook(t) /\ Read
    BY <2>1, <2>2, LastLookServes
  <2>3. CASE Write(m, Updated(row[m], "queued")) /\ Go(t, "queuing")
    <3>1. NoneSuperseded
      BY <1>1, <2>1, <2>3, TransactionsSilent, WriteSilent DEF Pending
    <3> QED BY <2>1, <2>3, <3>1, GoesOnward, OnwardLocations
  <2> QED BY <1>5, <2>2, <2>3 DEF MarkQueued
<1>6. CASE Suppress(t)
  BY <1>6, RecordServes DEF Suppress, Terminal, Inside, Admission
<1>7. ASSUME NEW why \in {"retryable", "fatal"}, FailAdmission(t, why)
      PROVE  Serves(t)
  <2>1. /\ task[t].at \in Inside /\ Read /\ UNCHANGED <<owned, queue, stop, shared>>
        /\ \E p \in {"counting", "judging"} :
             task' = [task EXCEPT ![t].at = p, ![t].why = why, ![t].todo = 0]
    BY <1>7 DEF FailAdmission, Dispatching, Inside, Admission, history
  <2>2. why \in Whys /\ {"counting", "judging"} \subseteq Onward
    BY OnwardLocations DEF Whys, Failure
  <2> QED BY <2>1, <2>2, ReadSilent, GoesOnward
<1>8. CASE CountAttempt(t)
  <2>1. /\ task[t].at \in Inside /\ UNCHANGED <<owned, queue, stop, shared>>
        /\ \/ Write(m, Begun(row[m])) /\ Go(t, "judging")
           \/ Read /\ Go(t, "refused")
    BY <1>8 DEF CountAttempt, At, Inside, Admission, history
  <2>2. NoneSuperseded
    BY <1>1, <2>1, TransactionsSilent, WriteSilent
  <2> QED BY <2>1, <2>2, GoesOnward, OnwardLocations DEF Failure
<1>9. CASE Refused(t)
  <2>1. task[t].at \in Inside /\ UNCHANGED <<queue, stop, shared>>
    BY <1>9 DEF Refused, At, Inside, Admission, history
  <2>2. CASE t = Retry /\ FetchFailed("retryable", owned \ {m})
    BY <2>1, <2>2, FetchFailedServes DEF Whys
  <2>3. CASE Disown(t) /\ Read
    BY <2>1, <2>3, ReadSilent, DisownServes
  <2> QED BY <1>9, <2>2, <2>3 DEF Refused
<1> QED BY <1>2, <1>3, <1>4, <1>5, <1>6, <1>7, <1>8, <1>9, ResetReceiptServes, AdmitServes,
           DispatchServes, EnqueueServes DEF Admitting

\* The failure policy, in on_message and in the retry loop.
LEMMA FailingServes ==
  ASSUME IInv, NEW t \in Admitters, Failing(t)
  PROVE  Serves(t)
<1> DEFINE m == msg(t)
<1>1. t \in Tasks /\ t # Turn /\ (task[t].at \in Inside => m \in Messages /\ row[m] \in Row)
  <2>1. t \in Tasks /\ t # Turn
    BY InsideWorks
  <2> QED BY <2>1, InsideWorks, Typed
<1>2. CASE Judge(t)
  <2>1. /\ task[t].at \in Inside /\ Read /\ UNCHANGED <<owned, queue, stop, shared>>
        /\ \E p \in Verdicts(row[m], task[t].why) :
             task' = [task EXCEPT ![t].at = p, ![t].why = "none"]
    BY <1>1, <1>2 DEF Judge, JudgeFor, At, Inside, Failure, history
  <2>2. Verdicts(row[m], task[t].why) \subseteq Onward
    BY OnwardLocations DEF Verdicts, Failure
  <2>3. "none" \in Whys
    BY DEF Whys
  <2> QED BY <2>1, <2>2, <2>3, ReadSilent, GoesOnward
<1>3. CASE Defer(t) \/ Condemn(t) \/ NoticeLost(t)
  BY <1>3, RecordServes DEF Defer, Condemn, NoticeLost, Pending, Terminal, Inside, Failure
<1>4. CASE Notify(t)
  <2>1. /\ task[t].at \in Inside /\ UNCHANGED <<owned, queue, stop, shared>>
        /\ \/ Go(t, "aborted") /\ Read
           \/ Go(t, "sending") /\ Write(m, Checkpointed(row[m]))
    BY <1>4 DEF Notify, Checkpoint, At, Inside, Failure, history
  <2>2. NoneSuperseded
    BY <1>1, <2>1, TransactionsSilent, WriteSilent
  <2> QED BY <2>1, <2>2, GoesOnward, OnwardLocations DEF Failure
<1>5. CASE Post(t) \/ Confirm(t)
  <2>1. /\ task[t].at \in Inside /\ UNCHANGED <<owned, queue, stop, shared>> /\ Read
        /\ \E p \in {"posting", "leaving", "condemning"} : Go(t, p)
    BY <1>5 DEF Post, Confirm, At, Inside, Failure, history
  <2> QED BY <2>1, ReadSilent, GoesOnward, OnwardLocations DEF Failure
<1>6. CASE NoticeSent(t)
  <2>1. /\ task[t].at \in Inside /\ UNCHANGED <<owned, queue, stop, shared>>
        /\ Go(t, "noticed") /\ Write(m, Answered(row[m]))
    BY <1>6 DEF NoticeSent, At, Inside, Failure, history
  <2>2. NoneSuperseded
    BY <1>1, <2>1, TransactionsSilent, WriteSilent
  <2> QED BY <2>1, <2>2, GoesOnward, OnwardLocations DEF Failure
<1>7. CASE Aborted(t)
  <2>1. /\ task[t].at \in Inside /\ UNCHANGED <<queue, stop, shared>> /\ Read
        /\ owned' = owned \ {m}
        /\ task' = [task EXCEPT ![t] = [Idle EXCEPT !.at = IF t = Retry THEN "dead" ELSE "idle"]]
    BY <1>1, <1>7 DEF Aborted, At, Inside, Failure, history
  <2> DEFINE x == [Idle EXCEPT !.at = IF t = Retry THEN "dead" ELSE "idle"]
  <2>2. x \in TaskState /\ x.at \in Resting /\ x.msg = 0
    BY DEF Idle, TaskState, Locations, RetryOnly, Whys, Resting
  <2>3. task' = [task EXCEPT ![t] = x]
    BY <2>1
  <2> HIDE DEF x
  <2>4. Rests(t)
    BY <1>1, <2>2, <2>3, Typed DEF Rests
  <2> QED BY <2>1, <2>4, ReadSilent, RestServes
<1>8. CASE Leave(t)
  <2>1. task[t].at \in Inside /\ UNCHANGED <<queue, stop, shared>> /\ Read /\ Disown(t)
    BY <1>1, <1>8 DEF Leave, At, Inside, Failure, history
  <2> QED BY <2>1, ReadSilent, DisownServes
<1> QED BY <1>2, <1>3, <1>4, <1>5, <1>6, <1>7, <1>8 DEF Failing

\* The choice of a row, its fetch, and the failure of that fetch.
LEMMA RetryingServes ==
  ASSUME IInv, Retrying \/ \E m \in Messages : Scan(m)
  PROVE  Serves(Retry)
<1> DEFINE m == msg(Retry)
<1>1. Retry \in Admitters /\ Retry \in Tasks /\ Retry # Turn /\ Turn \in Tasks
  BY InsideWorks DEF Admitters, Tasks
<1>2. task[Retry].at \notin Resting => m \in Messages /\ row[m] \in Row
  BY <1>1, Typed
<1>3. task[Turn].at = "acting" => msg(Turn) \in Messages
  BY <1>1, InsideWorks DEF TurnOnly
\* Steps outside of on_message.
<1>4. ASSUME NEW p \in {"reading", "fetching"},
             \A u \in Tasks \ {Retry} : task'[u] = task[u], task'[Retry].at = p,
             row' = row, UNCHANGED <<owned, queue, stop, shared>>
      PROVE  Serves(Retry)
  <2>1. p \notin Inside /\ p \notin Unentered /\ msg(Turn)' = msg(Turn)
    BY <1>1, <1>4 DEF Inside, Admission, Failure, Unentered, msg
  <2>2. \A k \in Messages : Contained(k)' => Contained(k)
    BY <1>4, <2>1, QueueSame, ContainedShrinks
  <2> QED BY <1>4, <2>1, <2>2 DEF Serves, Claims
<1>5. ASSUME NEW k \in Messages, Scan(k)
      PROVE  Serves(Retry)
  <2> DEFINE x == [Idle EXCEPT !.at = "reading", !.msg = k]
  <2>1. x.at = "reading"
    BY DEF Idle
  <2>2. task' = [task EXCEPT ![Retry] = x] /\ row' = row /\ UNCHANGED <<owned, queue, stop, shared>>
    BY <1>5 DEF Scan, history
  <2> HIDE DEF x
  <2>3. (\A u \in Tasks \ {Retry} : task'[u] = task[u]) /\ task'[Retry].at = "reading"
    BY <1>1, <2>1, <2>2, Typed
  <2> QED BY <1>4, <2>2, <2>3
<1>6. CASE PickUp
  <2>1. row' = row /\ UNCHANGED <<owned, queue, stop, shared>>
    BY <1>6 DEF PickUp, history
  <2>2. CASE Stops(Retry)
    <3>1. Rests(Retry) /\ NoneSuperseded
      BY <1>1, <2>1, <2>2, Typed, StopsRests DEF NoneSuperseded
    <3> QED BY <1>1, <2>1, <3>1, RestServes
  <2>3. CASE Go(Retry, "fetching")
    <3>1. Steps(Retry, "fetching")
      BY <1>1, <2>3, Typed, GoSteps DEF Locations, RetryOnly
    <3> QED BY <1>4, <2>1, <3>1 DEF Steps
  <2> QED BY <1>6, <2>2, <2>3 DEF PickUp
<1>7. CASE Fetched
  <2>1. task[Retry].at \notin Resting /\ shared' = shared
    BY <1>7 DEF Fetched, At, Resting, history
  <2>2. CASE Stops(Retry) /\ UNCHANGED <<row, owned, queue, stop>>
    <3>1. Rests(Retry) /\ NoneSuperseded
      BY <1>1, <2>2, Typed, StopsRests DEF NoneSuperseded
    <3> QED BY <1>1, <2>1, <2>2, <3>1, RestServes
  <2>3. CASE m \notin owned /\ Receive(Retry, m)
    BY <1>1, <1>2, <2>1, <2>3, ReceiveServes
  <2> QED BY <1>7, <2>2, <2>3 DEF Fetched
<1>8. CASE Quit
  <2>1. Read /\ UNCHANGED <<owned, queue, stop, shared>> /\ Rests(Retry)
    BY <1>1, <1>8, Typed, StopsRests DEF Quit, history
  <2> QED BY <1>1, <2>1, ReadSilent, RestServes
<1>9. CASE Claim
  <2>1. /\ task[Retry].at \notin Resting
        /\ shared' = shared \cup ({m} \cap owned) /\ owned' = owned \cup {m}
        /\ UNCHANGED <<queue, stop>>
        /\ Write(m, Recorded(row[m], "failed")) \/ Write(m, Begun(row[m])) \/ Read
        /\ Go(Retry, "leaving") \/ Go(Retry, "judging")
    BY <1>9 DEF Claim, At, Resting
  <2>2. NoneSuperseded
    BY <1>2, <2>1, TransactionsSilent, WriteSilent DEF Terminal
  <2>3. PICK p \in {"leaving", "judging"} : Steps(Retry, p)
    BY <1>1, <2>1, Typed, GoSteps DEF Locations, Failure
  <2>4. /\ \A u \in Tasks \ {Retry} : task'[u] = task[u]
        /\ task'[Retry].at = p /\ msg(Retry)' = m /\ msg(Turn)' = msg(Turn)
    BY <1>1, <2>3 DEF Steps, msg
  <2>5. \A k \in Messages : Contained(k)' => Contained(k)
    BY <2>1, <2>4, QueueSame, ContainedShrinks
  <2> QED BY <1>3, <2>1, <2>2, <2>4, <2>5 DEF Serves, Claims, NoneSuperseded, Unentered
<1>10. ASSUME NEW why \in {"retryable", "gone"}, FetchFails(why)
       PROVE  Serves(Retry)
  BY <1>10, FetchFailedServes DEF FetchFails, history, Whys
<1> QED BY <1>5, <1>6, <1>7, <1>8, <1>9, <1>10 DEF Retrying

\* A step of the turn that goes on elsewhere than to an effect.
LEMMA TurnWorks ==
  ASSUME IInv, Silent, NEW p, Steps(Turn, p),
         UNCHANGED <<owned, queue, shared>>,
         stop' = "raised" => p \in Winding,
         p = "acting" => row'[msg(Turn)].status # "superseded"
  PROVE  Works
<1>1. Turn \in Tasks
  BY DEF Tasks
<1>2. (\A u \in Tasks \ {Turn} : task'[u] = task[u]) /\ task'[Turn].at = p /\ msg(Turn)' = msg(Turn)
  BY DEF Steps, msg
<1>3. \A k \in Messages : Contained(k)' => Contained(k)
  BY <1>2, QueueSame, ContainedShrinks
<1> QED BY <1>2, <1>3 DEF Works

\* The pump takes the turn's next message from the queue.
LEMMA NextTurnWorks ==
  ASSUME IInv, NextTurn
  PROVE  Works
<1>1. Turn \in Tasks /\ UNCHANGED <<owned, shared>> /\ stop' = "none"
  BY DEF NextTurn, history, Tasks
<1>2. queue \in Seq(Messages)
  BY DEF IInv, TypeOK
<1>3. CASE Stops(Turn) /\ queue' = queue
  <2>1. Rests(Turn)
    BY <1>1, <1>3, Typed, StopsRests
  <2>2. (\A u \in Tasks \ {Turn} : task'[u] = task[u]) /\ task'[Turn].at # "acting" /\ msg(Turn)' = 0
    BY <2>1 DEF Rests, Resting, msg
  <2>3. \A k \in Messages : Contained(k)' => Contained(k)
    BY <1>3, <2>2, QueueSame, ContainedShrinks
  <2> QED BY <1>1, <2>2, <2>3 DEF Works
<1>4. CASE /\ queue # <<>> /\ queue' = Tail(queue)
           /\ task' = [task EXCEPT ![Turn] = [Idle EXCEPT !.at = "created", !.msg = Head(queue)]]
  <2> DEFINE h == Head(queue)
             x == [Idle EXCEPT !.at = "created", !.msg = h]
  <2>1. x.at = "created" /\ x.msg = h
    BY DEF Idle
  <2>2. task' = [task EXCEPT ![Turn] = x]
    BY <1>4
  <2>3. 1 \in DOMAIN queue /\ queue[1] = h
    BY <1>2, <1>4
  <2>4. \A i \in DOMAIN queue' : \E j \in DOMAIN queue : queue'[i] = queue[j]
    <3>1. /\ Len(queue) \in Nat /\ Len(queue) >= 1 /\ DOMAIN queue = 1 .. Len(queue)
          /\ DOMAIN queue' = 1 .. Len(queue) - 1
          /\ \A i \in 1 .. Len(queue) - 1 : queue'[i] = queue[i + 1]
      BY <1>2, <1>4, HeadTailProperties, LenProperties
    <3>2. \A i \in 1 .. Len(queue) - 1 : i + 1 \in 1 .. Len(queue)
      BY <3>1
    <3> QED BY <3>1, <3>2
  <2> HIDE DEF h, x
  <2>5. (\A u \in Tasks \ {Turn} : task'[u] = task[u]) /\ task'[Turn].at = "created" /\ msg(Turn)' = h
    BY <1>1, <2>1, <2>2, Typed DEF msg
  <2>6. \A k \in Messages : Contained(k)' => Contained(k)
    BY <2>3, <2>4, <2>5 DEF Contained
  <2> QED BY <1>1, <2>5, <2>6 DEF Works
<1> QED BY <1>3, <1>4 DEF NextTurn

\* Where Failing leads a turn, from where.
LEMMA FailingWorks ==
  ASSUME IInv, Silent, Failing(Turn)
  PROVE  Works
<1> DEFINE m == msg(Turn)
<1>1. Turn \in Tasks /\ Failure \subseteq Locations /\ "done" \in Locations
  BY DEF Tasks, Locations
<1>2. UNCHANGED <<owned, queue, stop, shared>>
  BY DEF Failing, Judge, Defer, Condemn, Notify, Post, NoticeSent, NoticeLost, Confirm, Aborted,
         Leave, Record, history
<1>3. \/ task[Turn].at \notin Winding /\ \E p \in Failure \cup {"done"} : Steps(Turn, p)
      \/ Steps(Turn, "leaving") \/ Steps(Turn, "done")
  <2>1. CASE Judge(Turn)
    <3>1. PICK p \in Verdicts(row[m], task[Turn].why) :
            task' = [task EXCEPT ![Turn].at = p, ![Turn].why = task[Turn].why]
      BY <2>1 DEF Judge, JudgeFor
    <3>2. p \in Failure /\ task[Turn].why \in Whys
      BY <1>1, Typed DEF Verdicts, Failure, TaskState
    <3> QED BY <1>1, <2>1, <3>1, <3>2, Typed, GoSteps DEF Judge, At, Winding
  <2>2. CASE Defer(Turn) \/ Condemn(Turn) \/ NoticeLost(Turn) \/ Leave(Turn)
    <3>1. Go(Turn, "leaving") \/ Go(Turn, "done")
      BY <2>2 DEF Defer, Condemn, NoticeLost, Leave, Record
    <3> QED BY <1>1, <3>1, Typed, GoSteps DEF Failure
  <2>3. CASE Notify(Turn) \/ Post(Turn) \/ NoticeSent(Turn) \/ Confirm(Turn)
    <3>1. \E p \in Failure : Go(Turn, p)
      BY <2>3 DEF Notify, Checkpoint, Post, NoticeSent, Confirm, Failure
    <3>2. task[Turn].at \notin Winding
      BY <2>3 DEF Notify, Post, NoticeSent, Confirm, At, Winding
    <3> QED BY <1>1, <3>1, <3>2, Typed, GoSteps
  <2>4. CASE Aborted(Turn)
    <3>1. \/ Go(Turn, "done")
          \/ \E p \in Failure : task' = [task EXCEPT ![Turn].at = p, ![Turn].why = "cancelled"]
      BY <2>4 DEF Aborted, Unwind, Failure
    <3>2. task[Turn].at \notin Winding /\ "cancelled" \in Whys
      BY <2>4 DEF Aborted, At, Winding, Whys
    <3> QED BY <1>1, <3>1, <3>2, Typed, GoSteps
  <2> QED BY <2>1, <2>2, <2>3, <2>4 DEF Failing
<1>4. "acting" \notin Failure \cup {"done", "leaving"} /\ {"done", "leaving"} \subseteq Winding
  BY DEF Failure, Winding
<1> QED BY <1>2, <1>3, <1>4, TurnWorks DEF Silent, Unwound

\* A turn at work was not cancelled, and goes on to an effect behind the
\* checkpoint only.
LEMMA TurningWorks ==
  ASSUME IInv, Silent, Turning \/ EndsWork
  PROVE  Works
<1> DEFINE m == msg(Turn)
<1>1. Turn \in Tasks /\ TurnOnly \cup Failure \cup {"done"} \subseteq Locations
  BY DEF Tasks, Locations
\* Steps of a turn that was not cancelled.
<1>2. ASSUME NEW p, Steps(Turn, p), task[Turn].at \notin Winding,
             UNCHANGED <<owned, queue, stop, shared>>,
             p = "acting" => row'[m].status # "superseded"
      PROVE  Works
  BY <1>2, TurnWorks DEF Silent, Unwound
<1>3. CASE NeverStarts
  <2>1. /\ Go(Turn, "done") /\ task[Turn].at \notin Winding
        /\ UNCHANGED <<owned, queue, stop, shared>>
    BY <1>3 DEF NeverStarts, Winding, history
  <2> QED BY <1>1, <1>2, <2>1, Typed, GoSteps
<1>4. CASE Begin
  <2>1. PICK p \in {"leaving", "condemning", "judging", "starting"}, why \in {"budget", "none"} :
          task' = [task EXCEPT ![Turn].at = p, ![Turn].why = why]
    BY <1>4 DEF Begin, BeginFor
  <2>2. why \in Whys /\ p \in TurnOnly \cup Failure /\ p # "acting"
    BY DEF Whys, TurnOnly, Failure
  <2>3. task[Turn].at \notin Winding /\ UNCHANGED <<owned, queue, stop, shared>>
    BY <1>4 DEF Begin, At, Winding, history
  <2> QED BY <1>1, <1>2, <2>1, <2>2, <2>3, Typed, GoSteps
<1>5. CASE Prepare \/ Refuse \/ Perform \/ ToolDone \/ ReplySent \/ ReplyRecorded
  <2>1. PICK p \in (TurnOnly \cup Failure) \ {"acting"} : Go(Turn, p)
    BY <1>5 DEF Prepare, Refuse, Record, Perform, ToolDone, ReplySent, ReplyRecorded, TurnOnly,
                Failure
  <2>2. task[Turn].at \notin Winding /\ UNCHANGED <<owned, queue, stop, shared>>
    BY <1>5 DEF Prepare, Refuse, Record, Perform, ToolDone, ReplySent, ReplyRecorded, At, Winding,
                history
  <2> QED BY <1>1, <1>2, <2>1, <2>2, Typed, GoSteps
<1>6. CASE MarkEffect
  <2>1. task[Turn].at \in TurnOnly \ Winding /\ UNCHANGED <<owned, queue, stop, shared>>
    BY <1>6 DEF MarkEffect, Thinking, At, Winding, TurnOnly, history
  <2>2. m \in Messages /\ row[m] \in Row
    <3>1. task[Turn].at \notin Resting
      BY <2>1 DEF TurnOnly, Resting
    <3> QED BY <1>1, <3>1, Typed
  <2>3. CASE Go(Turn, "aborted")
    <3>1. "aborted" \in Failure
      BY DEF Failure
    <3> QED BY <1>1, <1>2, <2>1, <2>3, <3>1, Typed, GoSteps
  <2>4. CASE row[m].status # "superseded" /\ Go(Turn, "acting") /\ Write(m, Checkpointed(row[m]))
    <3>1. Checkpointed(row[m]).status # "superseded"
      BY <2>2, <2>4, TransactionsSilent
    <3>2. row'[m].status # "superseded"
      BY <2>2, <2>4, <3>1, Typed DEF Write
    <3>3. "acting" \in TurnOnly
      BY DEF TurnOnly
    <3> QED BY <1>1, <1>2, <2>1, <2>4, <3>2, <3>3, Typed, GoSteps
  <2> QED BY <1>6, <2>3, <2>4 DEF MarkEffect, Checkpoint
<1>7. CASE Cancelled
  <2>1. UNCHANGED <<owned, queue, shared>>
    BY <1>7 DEF Cancelled, history
  <2>2. PICK p \in {"done", "condemning", "deferring"} : Steps(Turn, p)
    <3>1. \/ Go(Turn, "done")
          \/ \E p \in {"condemning", "deferring"} :
               task' = [task EXCEPT ![Turn].at = p, ![Turn].why = "cancelled"]
      BY <1>7 DEF Cancelled, Unwind
    <3>2. "cancelled" \in Whys /\ {"condemning", "deferring"} \subseteq Failure
      BY DEF Whys, Failure
    <3> QED BY <1>1, <3>1, <3>2, Typed, GoSteps
  <2> QED BY <2>1, <2>2, TurnWorks DEF Winding
<1>8. CASE EndsWork
  <2>1. task[Turn].at \notin Winding /\ UNCHANGED <<owned, queue, stop, shared>>
    BY <1>8 DEF EndsWork, ReturnTurn, RaiseTurn, Thinking, At, Winding, history
  <2>2. \E p \in Failure, why \in Whys :
          task' = [task EXCEPT ![Turn].at = p, ![Turn].why = why]
    <3>1. CASE ReturnTurn
      BY <3>1 DEF ReturnTurn, Failure, Whys
    <3>2. ASSUME NEW why \in {"retryable", "fatal"}, RaiseTurn(why)
          PROVE  \E p \in Failure : task' = [task EXCEPT ![Turn].at = p, ![Turn].why = why]
      <4>1. Verdicts(row[m], why) \subseteq Failure
        BY DEF Verdicts, Failure
      <4> QED BY <3>2, <4>1 DEF RaiseTurn, JudgeFor
    <3> QED BY <1>8, <3>1, <3>2 DEF EndsWork, Whys
  <2>3. "acting" \notin Failure
    BY DEF Failure
  <2> QED BY <1>1, <1>2, <2>1, <2>2, <2>3, Typed, GoSteps
<1> QED BY <1>3, <1>4, <1>5, <1>6, <1>7, <1>8, NextTurnWorks DEF Turning

\* Every step keeps what keeps superseded requests silent.
LEMMA StaysSilent ==
  IInv /\ Silent /\ [Next]_vars => Silent'
<1> SUFFICES ASSUME IInv, Silent, [Next]_vars PROVE Silent'
  OBVIOUS
<1>1. ASSUME NEW h \in Handlers, NEW m \in Messages, Deliver(h, m) PROVE Silent'
  <2>1. Serves(h)
    BY <1>1, ReceiveServes DEF Deliver, Admitters
  <2> QED BY <2>1, ServesKeeps DEF Admitters
<1>2. ASSUME NEW t \in Admitters, Admitting(t) PROVE Silent'
  BY <1>2, AdmittingServes, ServesKeeps
<1>3. ASSUME NEW t \in Admitters, Failing(t) PROVE Silent'
  BY <1>3, FailingServes, ServesKeeps
<1>4. CASE Failing(Turn)
  BY <1>4, FailingWorks, WorksKeeps
<1>5. CASE Turning \/ EndsWork
  BY <1>5, TurningWorks, WorksKeeps
<1>6. CASE Retrying \/ \E m \in Messages : Scan(m)
  BY <1>6, RetryingServes, ServesKeeps DEF Admitters
<1>7. CASE Restart
  <2>1. Idle.at = "idle" /\ Turn \in Tasks /\ Admitters \subseteq Tasks
    BY DEF Idle, Tasks, Admitters
  <2>2. (\A t \in Tasks : task'[t].at = "idle") /\ stop' = "none"
    BY <1>7, <2>1 DEF Restart
  <2> QED BY <2>1, <2>2 DEF Silent, OneOwner, Entering, Unwound, Overtaken, Inside, Admission, Failure,
                            Unentered
<1>8. CASE UNCHANGED vars
  BY <1>8 DEF vars, volatile, history, Silent, OneOwner, Entering, Unwound, Overtaken, msg, Contained
<1> QED BY <1>1, <1>2, <1>3, <1>4, <1>5, <1>6, <1>7, <1>8 DEF Next, Admitters, Tasks

\* The process starts without tasks.
LEMMA SilentInitially ==
  Init => Silent
<1> SUFFICES ASSUME Init PROVE Silent
  OBVIOUS
<1>1. Idle.at = "idle" /\ Turn \in Tasks /\ Admitters \subseteq Tasks
  BY DEF Idle, Tasks, Admitters
<1>2. (\A t \in Tasks : task[t].at = "idle") /\ stop = "none"
  BY <1>1 DEF Init, Fresh
<1> QED BY <1>1, <1>2 DEF Silent, OneOwner, Entering, Unwound, Overtaken, Inside, Admission, Failure,
                          Unentered

LEMMA SilentHolds == Spec => [](IInv /\ Silent)
<1>1. Init => IInv /\ Silent
  BY Initially, SilentInitially
<1>2. IInv /\ Silent /\ [Next]_vars => (IInv /\ Silent)'
  BY Inductive, StaysSilent
<1> QED BY <1>1, <1>2, PTL DEF Spec

\* Only a turn that nobody asked to stop starts an effect (Perform).
LEMMA PerformsUnasked ==
  ASSUME IInv, Silent, Next, task[Turn].at = "acting", task'[Turn].at = "performing"
  PROVE  stop # "asked"
<1>1. Turn \in Tasks
  BY DEF Tasks
<1>2. ASSUME NEW t \in Admitters, Serves(t) PROVE FALSE
  BY <1>1, <1>2, InsideWorks DEF Serves
<1>3. ~Restart
  BY <1>1 DEF Restart, Idle
<1>4. ~Failing(Turn)
  BY DEF Failing, Judge, Defer, Condemn, Notify, Post, NoticeSent, NoticeLost, Confirm, Aborted,
         Leave, Record, At
<1>5. ~EndsWork
  BY DEF EndsWork, ReturnTurn, RaiseTurn, Thinking, At
<1>6. Turning => Perform \/ Cancelled
  BY DEF Turning, NextTurn, NeverStarts, Begin, Prepare, Refuse, Record, MarkEffect, Thinking,
         ToolDone, ReplySent, ReplyRecorded, At
<1>7. ~Cancelled
  <2>1. ASSUME NEW p \in {"done", "condemning", "deferring"}
        PROVE  p \in Locations /\ ~Steps(Turn, p)
    BY DEF Steps, Locations, Failure
  <2>2. ~Go(Turn, "done") /\ "cancelled" \in Whys
    BY <1>1, <2>1, Typed, GoSteps DEF Whys
  <2>3. ~Unwind
    <3>1. \A p \in {"condemning", "deferring"} :
            task' # [task EXCEPT ![Turn].at = p, ![Turn].why = "cancelled"]
      BY <1>1, <2>1, <2>2, Typed, GoSteps
    <3> QED BY <3>1 DEF Unwind
  <2> QED BY <2>2, <2>3 DEF Cancelled
<1>8. \A h \in Handlers, m \in Messages : ~Deliver(h, m)
  BY <1>2, ReceiveServes DEF Deliver, Admitters
<1>9. Perform
  BY <1>2, <1>3, <1>4, <1>5, <1>6, <1>7, <1>8, AdmittingServes, FailingServes, RetryingServes
     DEF Next, Admitters, Tasks
<1> QED BY <1>9 DEF Perform, At

\* A message that the retry loop did not share has one task, which owns it
\* (_inbound_processing), whatever is redelivered, fetched or fails meanwhile.
THEOREM OwnedByOne == Spec => []OneOwner
<1>1. IInv /\ Silent => OneOwner
  BY DEF Silent
<1> QED BY <1>1, SilentHolds, PTL

\* A turn starts no effect once its request is superseded, although the
\* checkpoint is behind it: nobody but the turn works on a message that the
\* retry loop did not share, so what superseded it also cancels the turn
\* (_interrupt_same_user, _mark_request_effect).
THEOREM SupersededStaysSilent == Spec => SupersededSilent
<1>1. IInv /\ Silent /\ [Next]_vars =>
        [task[Turn].at = "acting" /\ task'[Turn].at = "performing"
           => row[msg(Turn)].status # "superseded" \/ msg(Turn) \in shared]_vars
  <2> SUFFICES ASSUME IInv, Silent, Next, task[Turn].at = "acting", task'[Turn].at = "performing"
               PROVE  row[msg(Turn)].status # "superseded" \/ msg(Turn) \in shared
    OBVIOUS
  <2> QED BY PerformsUnasked DEF Silent, Overtaken
<1> QED BY <1>1, SilentHolds, PTL DEF Spec, SupersededSilent

===============================================================================
