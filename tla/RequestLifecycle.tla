--------------------------- MODULE RequestLifecycle ---------------------------
(***************************************************************************)
(* The life of an addressed request in one channel: admission              *)
(* (messages.py, on_message), dispatch to the reply queue, the turn, the   *)
(* failure policy and same-user interrupts (requests.py), the retry loop   *)
(* (recovery.py), and a crash of the process with its restart.             *)
(*                                                                         *)
(* An action is what a task runs from one await to the next.  A journal    *)
(* transaction takes effect when it is submitted, for one worker runs them *)
(* in that order; its submitter goes on later, and tasks that wait for the *)
(* journal go on in the order of their submissions (fifo).  What a         *)
(* transaction returned is remembered in the task's next location, so a    *)
(* decision is taken on the row as it was read.  HTTP calls, model calls   *)
(* and memory writes end at any time.                                      *)
(*                                                                         *)
(* A message is its Discord id, which grows in the order of sending.  The  *)
(* queue is the abstract one of TurnQueue without limits.  Left out:       *)
(* /maxwell requests, soft chatter, edits, quota notices and the drain.    *)
(***************************************************************************)
EXTENDS RequestJournal, QueueFilter

CONSTANTS
  Messages,      \* message ids
  Author,        \* the author of each message
  Handlers,      \* concurrent on_message tasks of the gateway
  Turn,          \* the reply task of the channel
  Retry,         \* the task of _inbound_retry_loop
  MaxAttempts,   \* inbound_retry_attempts
  ErrorReplies,  \* error_replies
  Deliveries,    \* bound: how often the gateway delivers each message
  MaxCrashes     \* bound: crashes of the process

ASSUME LifecycleAssumption ==
  /\ Messages \subseteq Nat \ {0}
  /\ DOMAIN Author = Messages
  /\ Turn \notin Handlers /\ Retry \notin Handlers /\ Turn # Retry
  /\ MaxAttempts \in Nat \ {0}
  /\ ErrorReplies \in BOOLEAN
  /\ Deliveries \in [Messages -> Nat]
  /\ MaxCrashes \in Nat

VARIABLES
  row,      \* the journal
  fifo,     \* tasks waiting for the journal, in the order they will resume
  task,     \* where each task is, for which message, and why it fails
  owned,    \* _inbound_processing
  queue,    \* waiting entries of the reply queue
  stop,     \* cancellation of the turn: "asked" by cancel_once, then "raised"
  latest,   \* _same_user_latest of the channel
  marked,   \* _same_user_interrupts
  acted,    \* the running turn started an effect
  touched,  \* the row the retry loop looked up was written since
  given,    \* deliveries so far
  crashes,  \* crashes so far
  acts,     \* how many turns of each message started an effect
  shared    \* ghost: messages the retry loop claimed while another task owned them

volatile == <<fifo, task, owned, queue, stop, latest, marked, acted, touched>>
history == <<given, crashes, acts, shared>>
vars == <<row, volatile, history>>

Tasks == Handlers \cup {Turn, Retry}

\* Locations of a turn between its first step and its end.
TurnOnly == {"starting", "deciding", "working", "acting", "performing", "recording"}

\* Locations of on_message.
Admission == {"accepted", "known", "receiving", "preparing", "dispatching",
              "dispatched", "cleared", "queuing", "unanswered", "counting", "refused"}

\* Locations of _request_failure and of the records that end a task's work.
Failure == {"judging", "deferring", "condemning", "notifying", "sending", "posting",
            "noticed", "aborted", "leaving"}

\* Locations of the retry loop before and after on_message.
RetryOnly == {"reading", "fetching", "quitting", "claiming", "dead"}

Locations == {"idle", "created", "done"} \cup TurnOnly \cup Admission \cup Failure \cup RetryOnly

\* Why a task fails: an exception, a turn without a reply, too many attempts,
\* a message that cannot be fetched any more, a cancellation.
Whys == {"none", "retryable", "fatal", "silent", "budget", "gone", "cancelled"}

\* todo counts the journal operations left before dispatch reads the row.
Idle == [at |-> "idle", msg |-> 0, why |-> "none", todo |-> 0]

TypeOK ==
  /\ row \in [Messages -> Row]
  /\ fifo \in Seq(Tasks)
  /\ task \in [Tasks -> [at : Locations, msg : Messages \cup {0}, why : Whys, todo : Nat]]
  /\ owned \in SUBSET Messages
  /\ queue \in Seq(Messages)
  /\ stop \in {"none", "asked", "raised"}
  /\ latest \in Messages \cup {0}
  /\ marked \in SUBSET Messages
  /\ acted \in BOOLEAN
  /\ touched \in BOOLEAN
  /\ given \in [Messages -> Nat]
  /\ crashes \in Nat
  /\ acts \in [Messages -> Nat]
  /\ shared \in SUBSET Messages
  /\ \A i, j \in DOMAIN fifo : fifo[i] = fifo[j] => i = j
  /\ \A i, j \in DOMAIN queue : queue[i] = queue[j] => i = j
  /\ \A i \in DOMAIN queue : queue[i] # task[Turn].msg

Fresh ==
  /\ fifo = <<>>
  /\ task = [t \in Tasks |-> Idle]
  /\ owned = {}
  /\ queue = <<>>
  /\ stop = "none"
  /\ latest = 0
  /\ marked = {}
  /\ acted = FALSE
  /\ touched = FALSE

Init ==
  /\ row = [m \in Messages |-> NoRow]
  /\ Fresh
  /\ given = [m \in Messages |-> 0]
  /\ crashes = 0
  /\ acts = [m \in Messages |-> 0]
  /\ shared = {}

-----------------------------------------------------------------------------
(* Steps of a task.                                                        *)

msg(t) == task[t].msg

\* t is at p and may go on: not while another answer of the journal is due
\* first, and not past a cancellation that was asked for.
At(t, p) ==
  /\ task[t].at = p
  /\ \A i \in DOMAIN fifo : fifo[i] = t => i = 1
  /\ t = Turn => stop # "asked"

\* fifo without t, which waits in it at most once.
Without(t) ==
  IF \A i \in DOMAIN fifo : fifo[i] # t THEN fifo
  ELSE LET n == CHOOSE i \in DOMAIN fifo : fifo[i] = t
       IN  [i \in 1 .. Len(fifo) - 1 |-> fifo[IF i < n THEN i ELSE i + 1]]

\* t awaits the journal operation it submits in this step, or nothing of it.
Await(t) == fifo' = Append(Without(t), t)
Proceed(t) == fifo' = Without(t)

Go(t, p) == task' = [task EXCEPT ![t].at = p]
Stops(t) == task' = [task EXCEPT ![t] = Idle]

\* The retry loop compares updated_at with the row it looked up.
Watched(m) == task[Retry].at \in {"reading", "fetching"} /\ msg(Retry) = m

Write(m, r) ==
  /\ row' = [row EXCEPT ![m] = r]
  /\ touched' = (touched \/ Watched(m))

Read == UNCHANGED <<row, touched>>

TurnAlive == task[Turn].at \notin {"idle", "done"}

\* _active_request_messages is set: the reply task took its first step.
TurnBegun == TurnAlive /\ task[Turn].at # "created"

\* ReplyQueue.contains: the entry is released when the pump resumes.
Contained(m) == m \in {queue[i] : i \in DOMAIN queue} \/ msg(Turn) = m

SameAuthor(m, k) == Author[m] = Author[k]

QueuedAt(m) == {i \in DOMAIN queue : SameAuthor(queue[i], m)}

QueuedBy(m) == {queue[i] : i \in QueuedAt(m)}

\* drop_author; its callback records each entry as superseded.
DropAuthor(m) == queue' \in Kept(queue, DOMAIN queue \ QueuedAt(m))

Superseding(S) ==
  /\ row' = [k \in Messages |-> IF k \in S THEN Recorded(row[k], "superseded") ELSE row[k]]
  /\ touched' = (touched \/ \E k \in S : Watched(k))

-----------------------------------------------------------------------------
(* on_message, run by a gateway task or by the retry loop.                 *)

Receive(t, m) ==
  /\ owned' = owned \cup {m}
  /\ row' = [row EXCEPT ![m] = Accepted(@)]
  /\ task' = [task EXCEPT ![t] = [Idle EXCEPT !.at = "accepted", !.msg = m]]
  /\ Await(t)
  /\ UNCHANGED <<queue, stop, latest, marked, acted>>

\* The first deliveries come in the order of the ids.  A delivery of an
\* owned message returns at once.
Deliver(h, m) ==
  /\ task[h].at = "idle"
  /\ given[m] < Deliveries[m]
  /\ \A k \in Messages : k < m => given[k] > 0
  /\ m \notin owned
  /\ Receive(h, m)
  /\ UNCHANGED touched
  /\ given' = [given EXCEPT ![m] = @ + 1]
  /\ UNCHANGED <<crashes, acts, shared>>

ReadReceipt(t) ==
  /\ At(t, "accepted")
  /\ Go(t, IF Closed(row[msg(t)]) THEN "leaving" ELSE "known")
  /\ Await(t)
  /\ Read
  /\ UNCHANGED <<owned, queue, stop, latest, marked, acted, history>>

\* Mutant: the finally block forgets the message it owns.
DisownNever(t) ==
  /\ Stops(t)
  /\ Proceed(t)
  /\ UNCHANGED owned

\* The finally block of on_message and of _pending_fetch_failed.
Disown(t) ==
  /\ owned' = owned \ {msg(t)}
  /\ Stops(t)
  /\ Proceed(t)

\* The row is reset as it was read in the step before.
ResetReceipt(t) ==
  /\ At(t, "known")
  /\ IF Contained(msg(t))
     THEN Disown(t) /\ Read
     ELSE /\ Write(msg(t), Updated(row[msg(t)], "received"))
          /\ Go(t, "receiving")
          /\ Await(t)
          /\ UNCHANGED owned
  /\ UNCHANGED <<queue, stop, latest, marked, acted, history>>

\* _should_interrupt_inflight.
Interrupts(m) ==
  IF TurnAlive /\ SameAuthor(msg(Turn), m)
  THEN ~(TurnBegun /\ msg(Turn) = m)
  ELSE QueuedBy(m) # {}

\* Mutant: the running turn is recorded as superseded and not cancelled.
InterruptRecording(m) ==
  /\ latest' = m
  /\ marked' = marked \cup {m}
  /\ Superseding(QueuedBy(m) \cup {k \in {msg(Turn)} : TurnBegun /\ SameAuthor(k, m)})
  /\ DropAuthor(m)
  /\ UNCHANGED stop

\* _note_same_user_latest, _interrupt_same_user, _mark_same_user_interrupt.
Interrupt(m) ==
  /\ latest' = m
  /\ marked' = marked \cup {m}
  /\ Superseding(QueuedBy(m) \cup {k \in {msg(Turn)} : TurnBegun /\ SameAuthor(k, m)})
  /\ DropAuthor(m)
  /\ stop' = IF TurnAlive /\ SameAuthor(msg(Turn), m) /\ stop = "none" THEN "asked" ELSE stop

Admit(t) ==
  /\ At(t, "receiving")
  /\ IF Interrupts(msg(t)) /\ msg(t) >= latest
     THEN Interrupt(msg(t))
     ELSE Read /\ UNCHANGED <<latest, marked, queue, stop>>
  /\ Go(t, "preparing")
  /\ Proceed(t)
  /\ UNCHANGED <<owned, acted, history>>

\* The end of on_message: a request nothing dispatched is suppressed.
LastLook(t) ==
  /\ Go(t, IF row[msg(t)].status = "received" THEN "unanswered" ELSE "leaving")
  /\ Await(t)

\* Policy turns the message down, before or after the interrupt.
Reject(t) ==
  /\ At(t, "receiving") \/ At(t, "preparing")
  /\ LastLook(t)
  /\ Read
  /\ UNCHANGED <<owned, queue, stop, latest, marked, acted, history>>

\* _dispatch_reply, to the first read of the row.  The entries it drops are recorded
\* together here; the code awaits the record of each before the next.
Dispatch(t) ==
  LET m == msg(t)
      Waits(n) == task' = [task EXCEPT ![t].at = "dispatching", ![t].todo = n]
  IN
  /\ At(t, "preparing")
  /\ \/ /\ m \in marked /\ m < latest
        /\ Write(m, Recorded(row[m], "superseded"))
        /\ Go(t, "dispatched")
        /\ UNCHANGED <<latest, queue>>
     \/ /\ m \in marked /\ m >= latest
        /\ latest' = m
        /\ Superseding(QueuedBy(m))
        /\ DropAuthor(m)
        /\ Waits(1 + Cardinality(QueuedAt(m)))
     \/ /\ m \notin marked
        /\ Waits(1)
        /\ Read /\ UNCHANGED <<latest, queue>>
  /\ Await(t)
  /\ UNCHANGED <<owned, stop, marked, acted, history>>

CheckReceipt(t) ==
  /\ At(t, "dispatching")
  /\ IF task[t].todo > 1
     THEN task' = [task EXCEPT ![t].todo = @ - 1]
     ELSE task' = [task EXCEPT
            ![t].at = IF Closed(row[msg(t)]) THEN "dispatched" ELSE "cleared", ![t].todo = 0]
  /\ Await(t)
  /\ Read
  /\ UNCHANGED <<owned, queue, stop, latest, marked, acted, history>>

Dispatched(t) ==
  /\ At(t, "dispatched")
  /\ LastLook(t)
  /\ Read
  /\ UNCHANGED <<owned, queue, stop, latest, marked, acted, history>>

MarkQueued(t) ==
  /\ At(t, "cleared")
  /\ IF Contained(msg(t))
     THEN LastLook(t) /\ Read
     ELSE /\ Write(msg(t), Updated(row[msg(t)], "queued"))
          /\ Go(t, "queuing")
          /\ Await(t)
  /\ UNCHANGED <<owned, queue, stop, latest, marked, acted, history>>

\* Mutant: the queue takes a message it retains already.
EnqueueAgain(t) ==
  /\ At(t, "queuing")
  /\ queue' = Append(queue, msg(t))
  /\ LastLook(t)
  /\ Read
  /\ UNCHANGED <<owned, stop, latest, marked, acted, history>>

Enqueue(t) ==
  /\ At(t, "queuing")
  /\ queue' = IF Contained(msg(t)) THEN queue ELSE Append(queue, msg(t))
  /\ LastLook(t)
  /\ Read
  /\ UNCHANGED <<owned, stop, latest, marked, acted, history>>

\* A record, and then nothing is left to do.
Record(t, p, status) ==
  /\ At(t, p)
  /\ Write(msg(t), Recorded(row[msg(t)], status))
  /\ Go(t, "leaving")
  /\ Await(t)
  /\ UNCHANGED <<owned, queue, stop, latest, marked, acted, history>>

Suppress(t) == Record(t, "unanswered", "suppressed")

\* The turn is done; on_message and the retry loop give the message up.
Leave(t) ==
  /\ At(t, "leaving")
  /\ IF t = Turn
     THEN Go(t, "done") /\ Proceed(t) /\ UNCHANGED owned
     ELSE Disown(t)
  /\ Read
  /\ UNCHANGED <<queue, stop, latest, marked, acted, history>>

-----------------------------------------------------------------------------
(* Failures.                                                               *)

\* Where on_message's timeout may cut off _dispatch_reply: any of its awaits, whose
\* journal operation stays submitted.
Dispatching == {"dispatching", "dispatched", "cleared", "queuing"}

\* on_message's handler of an exception counts an attempt first.
FailAdmission(t, why) ==
  /\ task[t].at \in {"preparing"} \cup {p \in Dispatching : why = "retryable"}
  /\ task' = [task EXCEPT ![t].at = IF Retryable(row[msg(t)]) THEN "counting" ELSE "judging",
                          ![t].why = why, ![t].todo = 0]
  /\ Await(t)
  /\ Read
  /\ UNCHANGED <<owned, queue, stop, latest, marked, acted, history>>

\* What _request_failure does on the row it reads.  A turn that ended with
\* its tools done and nothing sent may still tell the user so.
Verdicts(r, why) ==
  IF Closed(r) THEN {"leaving"}
  ELSE IF why \in {"retryable", "silent"} /\ ~r.effects /\ r.attempts < MaxAttempts
  THEN {"deferring"}
  ELSE IF r.effects
  THEN {"condemning"} \cup {p \in {"notifying"} : why = "silent" /\ acted}
  ELSE IF ErrorReplies THEN {"notifying"} ELSE {"condemning"}

JudgeFor(t, why) ==
  /\ \E p \in Verdicts(row[msg(t)], why) : task' = [task EXCEPT ![t].at = p, ![t].why = IF t = Turn THEN why ELSE "none"]
  /\ Await(t)
  /\ Read

Judge(t) ==
  /\ At(t, "judging")
  /\ JudgeFor(t, task[t].why)
  /\ UNCHANGED <<owned, queue, stop, latest, marked, acted, history>>

Defer(t) == Record(t, "deferring", "deferred")

Condemn(t) == Record(t, "condemning", "failed")

\* The checkpoint; it raises CancelledError for a superseded request.
Checkpoint(t, p) ==
  /\ IF row[msg(t)].status = "superseded"
     THEN Go(t, "aborted") /\ Read
     ELSE Go(t, p) /\ Write(msg(t), Checkpointed(row[msg(t)]))
  /\ Await(t)

Notify(t) ==
  /\ At(t, "notifying")
  /\ Checkpoint(t, "sending")
  /\ UNCHANGED <<owned, queue, stop, latest, marked, acted, history>>

\* "I couldn't finish that request", or that its tools are done.
Post(t) ==
  /\ At(t, "sending")
  /\ Go(t, "posting")
  /\ Proceed(t)
  /\ Read
  /\ UNCHANGED <<owned, queue, stop, latest, marked, acted, history>>

NoticeSent(t) ==
  /\ At(t, "posting")
  /\ Write(msg(t), Answered(row[msg(t)]))
  /\ Go(t, "noticed")
  /\ Await(t)
  /\ UNCHANGED <<owned, queue, stop, latest, marked, acted, history>>

NoticeLost(t) == Record(t, "posting", "failed")

Confirm(t) ==
  /\ At(t, "noticed")
  /\ Go(t, IF row[msg(t)].status = "delivered" THEN "leaving" ELSE "condemning")
  /\ Await(t)
  /\ Read
  /\ UNCHANGED <<owned, queue, stop, latest, marked, acted, history>>

-----------------------------------------------------------------------------
(* The turn (_run_reliable_turn) and the pump that starts it.              *)

\* The pump releases the entry of the last turn and starts the next one.
NextTurn ==
  /\ task[Turn].at = "done" \/ (task[Turn].at = "idle" /\ queue # <<>>)
  /\ IF queue = <<>>
     THEN Stops(Turn) /\ UNCHANGED queue
     ELSE /\ task' = [task EXCEPT ![Turn] = [Idle EXCEPT !.at = "created", !.msg = Head(queue)]]
          /\ queue' = Tail(queue)
  /\ stop' = "none"
  /\ acted' = FALSE
  /\ Read
  /\ UNCHANGED <<fifo, owned, latest, marked, history>>

\* A task cancelled before its first step never runs.
NeverStarts ==
  /\ task[Turn].at = "created"
  /\ stop = "asked"
  /\ Go(Turn, "done")
  /\ Read
  /\ UNCHANGED <<fifo, owned, queue, stop, latest, marked, acted, history>>

\* Where begin_turn's snapshot of the row sends the turn.
BeginFor(r) ==
  IF Closed(r) THEN "leaving"
  ELSE IF r.effects THEN "condemning"
  ELSE IF r.attempts >= MaxAttempts THEN "judging"
  ELSE "starting"

Begin ==
  LET m == msg(Turn)
      p == BeginFor(row[m])
  IN
  /\ At(Turn, "created")
  /\ task' = [task EXCEPT ![Turn].at = p, ![Turn].why = IF p = "judging" THEN "budget" ELSE "none"]
  /\ IF p = "starting" THEN Write(m, Begun(row[m])) ELSE Read
  /\ Await(Turn)
  /\ UNCHANGED <<owned, queue, stop, latest, marked, acted, history>>

\* The plan and the provider are loaded.
Prepare ==
  /\ At(Turn, "starting")
  /\ Go(Turn, "deciding")
  /\ Proceed(Turn)
  /\ Read
  /\ UNCHANGED <<owned, queue, stop, latest, marked, acted, history>>

\* The policy changed while the request waited.
Refuse == Record(Turn, "deciding", "suppressed")

\* The model is thinking: nothing awaits the journal.
Thinking == At(Turn, "deciding") \/ At(Turn, "working")

\* Before a tool call or a message.
MarkEffect ==
  /\ Thinking
  /\ Checkpoint(Turn, "acting")
  /\ UNCHANGED <<owned, queue, stop, latest, marked, acted, history>>

\* The tool or the HTTP call starts.
Perform ==
  /\ At(Turn, "acting")
  /\ Go(Turn, "performing")
  /\ Proceed(Turn)
  /\ acted' = TRUE
  /\ acts' = IF acted THEN acts ELSE [acts EXCEPT ![msg(Turn)] = @ + 1]
  /\ Read
  /\ UNCHANGED <<owned, queue, stop, latest, marked, given, crashes, shared>>

ToolDone ==
  /\ At(Turn, "performing")
  /\ Go(Turn, "working")
  /\ Proceed(Turn)
  /\ Read
  /\ UNCHANGED <<owned, queue, stop, latest, marked, acted, history>>

ReplySent ==
  /\ At(Turn, "performing")
  /\ Write(msg(Turn), Answered(row[msg(Turn)]))
  /\ Go(Turn, "recording")
  /\ Await(Turn)
  /\ UNCHANGED <<owned, queue, stop, latest, marked, acted, history>>

ReplyRecorded ==
  /\ At(Turn, "recording")
  /\ Go(Turn, "working")
  /\ Proceed(Turn)
  /\ Read
  /\ UNCHANGED <<owned, queue, stop, latest, marked, acted, history>>

\* _handle_message returns; without an outcome the turn has failed.
ReturnTurn ==
  /\ Thinking
  /\ task' = [task EXCEPT ![Turn].at = IF Closed(row[msg(Turn)]) THEN "leaving" ELSE "judging",
                          ![Turn].why = "silent"]
  /\ Await(Turn)
  /\ Read
  /\ UNCHANGED <<owned, queue, stop, latest, marked, acted, history>>

\* _handle_message raises, or the turn's timeout passes.
RaiseTurn(why) ==
  /\ Thinking \/ At(Turn, "performing")
  /\ JudgeFor(Turn, why)
  /\ UNCHANGED <<owned, queue, stop, latest, marked, acted, history>>

\* An await in an except clause: a cancellation there runs no clause again.
InHandler == task[Turn].why \in {"retryable", "fatal", "cancelled"}

\* `except CancelledError`: the row is read, then recorded.
Unwind ==
  /\ task' = [task EXCEPT
        ![Turn].at = IF row[msg(Turn)].effects THEN "condemning" ELSE "deferring",
        ![Turn].why = "cancelled"]
  /\ Await(Turn)

\* cancel_once asked the running turn to stop.
Cancelled ==
  /\ TurnBegun
  /\ stop = "asked"
  /\ stop' = "raised"
  /\ IF InHandler
     THEN Go(Turn, "done") /\ Proceed(Turn)
     ELSE Unwind
  /\ Read
  /\ UNCHANGED <<owned, queue, latest, marked, acted, history>>

\* The checkpoint raised CancelledError.  Nothing catches it in on_message;
\* in the retry loop it ends the loop.
Aborted(t) ==
  /\ At(t, "aborted")
  /\ IF t = Turn
     THEN /\ IF InHandler THEN Go(t, "done") /\ Proceed(t) ELSE Unwind
          /\ UNCHANGED owned
     ELSE /\ owned' = owned \ {msg(t)}
          /\ task' = [task EXCEPT ![t] = [Idle EXCEPT !.at = IF t = Retry THEN "dead" ELSE "idle"]]
          /\ Proceed(t)
  /\ Read
  /\ UNCHANGED <<queue, stop, latest, marked, acted, history>>

-----------------------------------------------------------------------------
(* The retry loop, one row of its sweep at a time.                         *)

\* The row is due: its back-off passed since it was written.
Scan(m) ==
  /\ task[Retry].at = "idle"
  /\ Retryable(row[m])
  /\ task' = [task EXCEPT ![Retry] = [Idle EXCEPT !.at = "reading", !.msg = m]]
  /\ touched' = FALSE
  /\ Await(Retry)
  /\ UNCHANGED <<row, owned, queue, stop, latest, marked, acted, history>>

PickUp ==
  /\ At(Retry, "reading")
  /\ IF Contained(msg(Retry)) \/ msg(Retry) \in owned
     THEN Stops(Retry)
     ELSE Go(Retry, "fetching")
  /\ Proceed(Retry)
  /\ touched' = (touched /\ task'[Retry].at = "fetching")
  /\ UNCHANGED <<row, owned, queue, stop, latest, marked, acted, history>>

\* Mutant: nobody looks whether the message was delivered during the fetch.
FetchedUnchecked ==
  /\ At(Retry, "fetching")
  /\ Receive(Retry, msg(Retry))
  /\ touched' = FALSE
  /\ UNCHANGED history

\* The message arrived; on_message(message).
Fetched ==
  /\ At(Retry, "fetching")
  /\ IF msg(Retry) \in owned
     THEN Stops(Retry) /\ UNCHANGED <<row, fifo, owned, queue, stop, latest, marked, acted>>
     ELSE Receive(Retry, msg(Retry))
  /\ touched' = FALSE
  /\ UNCHANGED history

\* _pending_fetch_failed, to its read of the row.
FetchFailed(why, others) ==
  LET r == row[msg(Retry)] IN
  /\ IF Contained(msg(Retry)) \/ msg(Retry) \in others
     THEN Stops(Retry) /\ Proceed(Retry)
     ELSE /\ task' = [task EXCEPT
               ![Retry].at = IF Retryable(r) /\ ~touched THEN "claiming" ELSE "quitting",
               ![Retry].why = why]
          /\ Await(Retry)
  /\ owned' = others
  /\ touched' = FALSE
  /\ UNCHANGED row

FetchFails(why) ==
  /\ At(Retry, "fetching")
  /\ FetchFailed(why, owned)
  /\ UNCHANGED <<queue, stop, latest, marked, acted, history>>

Quit ==
  /\ At(Retry, "quitting")
  /\ Stops(Retry)
  /\ Proceed(Retry)
  /\ Read
  /\ UNCHANGED <<owned, queue, stop, latest, marked, acted, history>>

\* The message is owned while the failure is recorded; begin() raises when
\* the row allows no attempt any more, and the loop logs that.
Claim ==
  LET m == msg(Retry) IN
  /\ At(Retry, "claiming")
  /\ IF task[Retry].why = "gone"
     THEN Write(m, Recorded(row[m], "failed")) /\ Go(Retry, "leaving")
     ELSE IF Retryable(row[m])
     THEN Write(m, Begun(row[m])) /\ Go(Retry, "judging")
     ELSE Read /\ Go(Retry, "leaving")
  /\ Await(Retry)
  /\ owned' = owned \cup {m}
  /\ shared' = shared \cup ({m} \cap owned)
  /\ UNCHANGED <<queue, stop, latest, marked, acted, given, crashes, acts>>

\* begin() in on_message's handler, which raises ValueError for a row that
\* allows no attempt any more.
CountAttempt(t) ==
  /\ At(t, "counting")
  /\ IF Retryable(row[msg(t)])
     THEN Write(msg(t), Begun(row[msg(t)])) /\ Go(t, "judging")
     ELSE Read /\ Go(t, "refused")
  /\ Await(t)
  /\ UNCHANGED <<owned, queue, stop, latest, marked, acted, history>>

\* The ValueError leaves on_message; for the retry loop the fetch has failed.
Refused(t) ==
  /\ At(t, "refused")
  /\ IF t = Retry THEN FetchFailed("retryable", owned \ {msg(t)}) ELSE Disown(t) /\ Read
  /\ UNCHANGED <<queue, stop, latest, marked, acted, history>>

-----------------------------------------------------------------------------
\* The process dies; the next one settles what it finds in the journal.
Restart ==
  /\ crashes < MaxCrashes
  /\ crashes' = crashes + 1
  /\ row' = [m \in Messages |-> Restarted(row[m])]
  /\ fifo' = <<>>
  /\ task' = [t \in Tasks |-> Idle]
  /\ owned' = {}
  /\ queue' = <<>>
  /\ stop' = "none"
  /\ latest' = 0
  /\ marked' = {}
  /\ acted' = FALSE
  /\ touched' = FALSE
  /\ shared' = {}
  /\ UNCHANGED <<given, acts>>

\* What on_message does between the receipt and the end.
Admitting(t) ==
  \/ ReadReceipt(t) \/ ResetReceipt(t) \/ Admit(t) \/ Reject(t) \/ Dispatch(t)
  \/ CheckReceipt(t) \/ Dispatched(t) \/ MarkQueued(t) \/ Enqueue(t) \/ Suppress(t)
  \/ \E why \in {"retryable", "fatal"} : FailAdmission(t, why)
  \/ CountAttempt(t) \/ Refused(t)

Failing(t) ==
  \/ Judge(t) \/ Defer(t) \/ Condemn(t) \/ Notify(t) \/ Post(t) \/ NoticeSent(t)
  \/ NoticeLost(t) \/ Confirm(t) \/ Aborted(t) \/ Leave(t)

Turning ==
  \/ NextTurn \/ NeverStarts \/ Begin \/ Prepare \/ Refuse \/ MarkEffect \/ Perform
  \/ ToolDone \/ ReplySent \/ ReplyRecorded \/ Cancelled

EndsWork == ReturnTurn \/ \E why \in {"retryable", "fatal"} : RaiseTurn(why)

Retrying ==
  \/ PickUp \/ Fetched \/ Quit \/ Claim
  \/ \E why \in {"retryable", "gone"} : FetchFails(why)

Next ==
  \/ \E h \in Handlers, m \in Messages : Deliver(h, m)
  \/ \E t \in Handlers \cup {Retry} : Admitting(t)
  \/ \E t \in Tasks : Failing(t)
  \/ Turning
  \/ EndsWork
  \/ \E m \in Messages : Scan(m)
  \/ Retrying
  \/ Restart

\* The event loop runs every task that may go on.  Timeouts end a fetch, an
\* admission and a turn however long it works; a sweep of the retry loop
\* reaches every row that is due.
Fairness ==
  /\ \A t \in Handlers \cup {Retry} : WF_vars(Admitting(t) \/ Failing(t))
  /\ WF_vars(Turning \/ EndsWork \/ Failing(Turn))
  /\ SF_vars(EndsWork)
  /\ WF_vars(Retrying)
  /\ \A m \in Messages : SF_vars(Scan(m))

Spec == Init /\ [][Next]_vars

FairSpec == Spec /\ Fairness

-----------------------------------------------------------------------------
(* Properties.                                                             *)

\* A request's tools and messages are started by at most one of its turns,
\* whatever fails, is retried, is delivered again or crashes in between
\* (RequestJournal: "those requests are never automatically retried").
EffectsOnce == \A m \in Messages : acts[m] <= 1

\* A turn starts no effect once its request is superseded, although it
\* passed the checkpoint before, unless the retry loop claimed the request
\* while another task owned it (_mark_request_effect, _interrupt_same_user).
SupersededSilent ==
  [][task[Turn].at = "acting" /\ task'[Turn].at = "performing"
       => row[msg(Turn)].status # "superseded" \/ msg(Turn) \in shared]_vars

Admitters == Handlers \cup {Retry}

\* Where a task of on_message or of the retry loop owns its message.
Inside == Admission \cup Failure

\* One task at a time admits a message or deals with its failure, and owns it
\* meanwhile (_inbound_processing), however redeliveries, fetches and failures
\* of one message meet; but for the messages the retry loop shared.
OneOwner ==
  \A t \in Admitters : task[t].at \in Inside /\ msg(t) \notin shared =>
    /\ msg(t) \in owned
    /\ \A u \in Admitters : task[u].at \in Inside /\ msg(u) = msg(t) => u = t

\* The CancelledError of a superseded checkpoint never reaches the retry
\* loop, which would end on it (recovery.py, _inbound_retry_loop).
LoopAlive == task[Retry].at # "dead"

\* Every request in the journal is settled, unless the process dies.
Settled == \A m \in Messages : row[m].status \in Pending ~> Closed(row[m])

\* A request is superseded because its author wrote again later
\* (_should_interrupt_inflight: "only when the same user addresses Maxwell
\* again").
SupersededByNewer ==
  [][\A m \in Messages :
       row[m].status # "superseded" /\ row'[m].status = "superseded" =>
         \E k \in Messages : k > m /\ given[k] > 0 /\ SameAuthor(k, m)]_vars

\* A cancelled turn's request has its outcome in the journal, also when the
\* turn had still to begin (docs/ARCHITECTURE.md).
InterruptRecorded == stop = "asked" => Closed(row[msg(Turn)])
===============================================================================
