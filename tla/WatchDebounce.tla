---------------------------- MODULE WatchDebounce ----------------------------
(***************************************************************************)
(* The watch of one channel: lines that are not addressed to Maxwell wait  *)
(* for a quiet moment (bot_parts/watch.py) before one of them gets a turn, *)
(* while addressed messages pass them, interrupt their author's turn       *)
(* (bot_parts/requests.py) and cancel the wait.                            *)
(*                                                                         *)
(* What runs between two awaits is one action.  The reply queue is what    *)
(* ReplyQueue says of it, here with one channel, no limits and one turn at *)
(* a time.  The journal is its status column: it keeps the first outcome   *)
(* that ends a request, and applies writes in the order of the calls.      *)
(* What the watch policy makes of a line is a choice, and so is the length *)
(* of the wait.  The burst of lines a turn is shown is left out.           *)
(***************************************************************************)
EXTENDS QueueFilter

CONSTANTS
  Messages,  \* message ids, in the order Discord gives them out
  Author,    \* the author of each message
  Direct,    \* messages that mention or reply to Maxwell
  None       \* no message

ASSUME WatchAssumption ==
  /\ Messages \subseteq Nat /\ IsFiniteSet(Messages)
  /\ Direct \subseteq Messages
  /\ None \notin Messages

VARIABLES
  at,       \* where on_message is with each message
  marked,   \* _same_user_interrupts
  latest,   \* _same_user_latest of the channel, 0 if unset
  waiting,  \* latest_directed of the channel's _watch_debounce bucket, or None
  timers,   \* _flush_watch_reply tasks that sleep and are not cancelled
  call,     \* where _dispatch_reply is with each message
  queue,    \* the reply queue
  running,  \* the message whose turn runs, or None
  status,   \* the journal's row
  draining, \* _draining
  calls,    \* ghost: calls of _dispatch_reply for each message
  cut       \* ghost: messages whose wait an interrupt or sleep ended

inbound == <<at, marked, latest>>
bucket == <<waiting, timers>>
turns == <<queue, running>>
ghosts == <<calls, cut>>
vars == <<inbound, bucket, call, turns, status, draining, ghosts>>

Stages == {"unsent", "admitted", "handled"}
Closed == {"delivered", "suppressed", "superseded"}
Statuses == {"none", "received", "queued"} \cup Closed

\* _dispatch_reply: in a task that has not begun; past its first checks, for a
\* directed message or for one that waited; returned or not called.
CallStates == {"none", "created", "directed", "soft"}

Entry == [msg : Messages, directed : BOOLEAN]

Init ==
  /\ at = [m \in Messages |-> "unsent"]
  /\ marked = {} /\ latest = 0
  /\ waiting = None /\ timers = 0
  /\ call = [m \in Messages |-> "none"]
  /\ queue = <<>> /\ running = None
  /\ status = [m \in Messages |-> "none"]
  /\ draining = FALSE
  /\ calls = [m \in Messages |-> 0] /\ cut = {}

Same(m, k) == Author[m] = Author[k]

\* _record_request_outcome() for the messages of S: an outcome that ended a
\* request stays.
Recorded(rows, S, outcome) ==
  [k \in Messages |-> IF k \in S /\ rows[k] \notin Closed THEN outcome ELSE rows[k]]

\* _note_same_user_latest()
Newest(m) == m >= latest

\* drop_author(): the queue that is left, as its one possible value, and what
\* it returns
Without(m) == Kept(queue, {i \in DOMAIN queue : ~Same(queue[i].msg, m)})
Dropped(m) == {k \in {queue[i].msg : i \in DOMAIN queue} : Same(k, m)}

\* Mutant: the bucket stays, without its timer.
PoppedTimer == timers' = (IF timers = 0 THEN 0 ELSE timers - 1) /\ UNCHANGED waiting

\* The bucket is popped, its timer over or cancelled.
Popped == waiting' = None /\ timers' = IF timers = 0 THEN 0 ELSE timers - 1

-------------------------------------------------------------------------------
(* Admission: on_message up to the interrupt. *)

\* _should_interrupt_inflight()
Interrupts(m) ==
  /\ m \in Direct
  /\ (running # None /\ Same(running, m)) \/ Dropped(m) # {}

\* _interrupt_same_user(): the turn and the entries of m's author are
\* superseded, and the wait of the channel is cancelled, whoever waits.
Interrupt(m) ==
  LET ended == Dropped(m) \cup {k \in {running} \ {None} : Same(k, m)}
      lost == {waiting} \ {None}
  IN /\ latest' = m /\ marked' = marked \cup {m}
     /\ queue' \in Without(m)
     /\ Popped
     /\ status' = Recorded([status EXCEPT ![m] = "received"], ended \cup lost, "superseded")
     /\ cut' = cut \cup lost

Receive(m) ==
  /\ at[m] = "unsent" /\ \A k \in Messages : k < m => at[k] # "unsent"
  /\ at' = [at EXCEPT ![m] = "admitted"]
  /\ \/ Interrupts(m) /\ Newest(m) /\ Interrupt(m)
     \/ /\ ~(Interrupts(m) /\ Newest(m))
        /\ status' = [status EXCEPT ![m] = "received"]
        /\ UNCHANGED <<latest, marked, queue, bucket, cut>>
  /\ UNCHANGED <<call, running, draining, calls>>

-------------------------------------------------------------------------------
(* The wait: _maybe_live_reply, at the end of on_message. *)

\* _busy_reason(), as far as the channel goes.
Free == running = None /\ queue = <<>>

\* Mutant: whoever waits makes way.
ReleasedNobody(m) == {}

\* _release_other_directed(): the waiting message of another author gets a task
\* that dispatches it; one of the same author makes way for m.
Released(m) == {k \in {waiting} \ {None, m} : ~Same(k, m)}
MakesWay(m) == {waiting} \ ({None, m} \cup Released(m))

\* _dispatch_reply() is called: for released messages in a task of its own.
Called(S, how) ==
  /\ call' = [k \in Messages |-> IF k \in S THEN how[k] ELSE call[k]]
  /\ calls' = [k \in Messages |-> IF k \in S THEN calls[k] + 1 ELSE calls[k]]

\* Mutants: the timer that runs is not cancelled; or it is, and no other starts.
TimerAdded == timers' = timers + 1
TimerStopped == timers' = 0

\* The timer is started, or started again, by every line.  The code makes it shorter
\* when the wait is over 3 seconds old; times are not modelled.
TimerReset == timers' = 1

\* _queue_watch_reply(directed=True): the line earned a turn.
Wait(m) ==
  /\ m \notin Direct /\ Free
  /\ waiting' = m
  /\ TimerReset
  /\ Called(Released(m), [k \in Messages |-> "created"])
  /\ status' = Recorded(Recorded(status, MakesWay(m), "superseded"), {m}, "queued")
  /\ UNCHANGED <<latest, queue>>

\* Any other line stretches the wait of the one that waits (_touch_watch_debounce),
\* unless the cooldown ends its handling before.
Pass(m) ==
  /\ m \notin Direct
  /\ (waiting # None /\ TimerReset /\ UNCHANGED waiting) \/ UNCHANGED bucket
  /\ status' = Recorded(status, {m}, "suppressed")
  /\ UNCHANGED <<latest, call, calls, queue>>

\* A message that addresses Maxwell goes ahead of the wait, and enters
\* _dispatch_reply(), which drops what its author has queued if it interrupted.
GoAhead(m) ==
  LET ended == IF m \in marked THEN Dropped(m) ELSE {}
  IN /\ m \in Direct
     /\ m \in marked => Newest(m)
     /\ latest' = IF m \in marked THEN m ELSE latest
     /\ Popped
     /\ IF draining
          THEN /\ Called(Released(m), [k \in Messages |-> "created"])
               /\ status' = Recorded(Recorded(status, MakesWay(m), "superseded"), {m}, "suppressed")
               /\ UNCHANGED queue
          ELSE /\ Called(Released(m) \cup {m}, [k \in Messages |-> IF k = m THEN "directed" ELSE "created"])
               /\ status' = Recorded(status, MakesWay(m) \cup ended, "superseded")
               /\ queue' \in IF m \in marked THEN Without(m) ELSE {queue}

\* An interrupt that a newer one overtook.
Overtaken(m) ==
  /\ m \in marked /\ ~Newest(m)
  /\ status' = Recorded(status, {m}, "superseded")
  /\ UNCHANGED <<latest, bucket, call, calls, queue>>

Handle(m) ==
  /\ at[m] = "admitted"
  /\ at' = [at EXCEPT ![m] = "handled"]
  /\ Wait(m) \/ Pass(m) \/ GoAhead(m) \/ Overtaken(m)
  /\ UNCHANGED <<marked, running, draining, cut>>

\* _flush_watch_reply(): the timer ends.  A busy channel, or the watch switched
\* off meanwhile, ends the request.
Flush ==
  /\ timers > 0
  /\ Popped
  /\ \/ /\ waiting = None \/ draining
        /\ UNCHANGED <<call, calls, status>>
     \/ /\ waiting # None /\ ~draining
        /\ status' = Recorded(status, {waiting}, "suppressed")
        /\ UNCHANGED <<call, calls>>
     \/ /\ waiting # None /\ ~draining /\ Free
        /\ Called({waiting}, [k \in Messages |-> "soft"])
        /\ UNCHANGED status
  /\ UNCHANGED <<inbound, turns, draining, cut>>

\* _drop_watches_for_sleep()
Sleep ==
  /\ waiting # None
  /\ Popped
  /\ status' = Recorded(status, {waiting}, "superseded")
  /\ cut' = cut \cup {waiting}
  /\ UNCHANGED <<inbound, call, turns, draining, calls>>

-------------------------------------------------------------------------------
(* Dispatch and the turns. *)

\* The task of a released message begins.
Begin(m) ==
  /\ call[m] = "created"
  /\ \/ draining /\ call' = [call EXCEPT ![m] = "none"] /\ status' = Recorded(status, {m}, "suppressed")
     \/ ~draining /\ call' = [call EXCEPT ![m] = "directed"] /\ UNCHANGED status
  /\ UNCHANGED <<inbound, bucket, turns, draining, ghosts>>

\* After the awaits of the journal: a request that has ended is left alone, and a
\* soft line takes the place of the one that waits in the queue.
Submit(m) ==
  /\ call[m] \in {"directed", "soft"}
  /\ call' = [call EXCEPT ![m] = "none"]
  /\ LET e == [msg |-> m, directed |-> call[m] = "directed"]
         soft == {i \in DOMAIN queue : ~queue[i].directed}
     IN \/ status[m] \in Closed /\ UNCHANGED <<queue, status>>
        \/ /\ status[m] \notin Closed
           /\ e.directed \/ soft = {}
           /\ queue' = Append(queue, e)
           /\ status' = [status EXCEPT ![m] = "queued"]
        \/ /\ status[m] \notin Closed /\ ~e.directed
           /\ \E i \in soft :
                /\ queue' = [queue EXCEPT ![i] = e]
                /\ status' = Recorded([status EXCEPT ![m] = "queued"], {queue[i].msg}, "superseded")
  /\ UNCHANGED <<inbound, bucket, running, draining, ghosts>>

TurnStarts ==
  /\ running = None /\ queue # <<>>
  /\ running' = Head(queue).msg
  /\ queue' = Tail(queue)
  /\ UNCHANGED <<inbound, bucket, call, status, draining, ghosts>>

TurnEnds ==
  /\ running # None
  /\ status' = Recorded(status, {running}, "delivered")
  /\ running' = None
  /\ UNCHANGED <<inbound, bucket, call, queue, draining, ghosts>>

Drain ==
  /\ ~draining
  /\ draining' = TRUE
  /\ UNCHANGED <<inbound, bucket, call, turns, status, ghosts>>

-------------------------------------------------------------------------------
Next ==
  \/ \E m \in Messages : Receive(m) \/ Handle(m) \/ Begin(m) \/ Submit(m)
  \/ Flush \/ Sleep \/ TurnStarts \/ TurnEnds \/ Drain

\* The event loop runs every task (a message is in one at a time), the timer ends,
\* and a turn has a deadline.
Fairness ==
  /\ \A m \in Messages : WF_vars(Handle(m) \/ Begin(m) \/ Submit(m))
  /\ WF_vars(Flush) /\ WF_vars(TurnStarts) /\ WF_vars(TurnEnds)

Spec == Init /\ [][Next]_vars /\ Fairness

-------------------------------------------------------------------------------
(* Properties. *)

TypeOK ==
  /\ at \in [Messages -> Stages]
  /\ marked \in SUBSET Direct /\ latest \in Messages \cup {0}
  /\ waiting \in (Messages \ Direct) \cup {None} /\ timers \in {0, 1}
  /\ call \in [Messages -> CallStates]
  /\ queue \in Seq(Entry) /\ running \in Messages \cup {None}
  /\ status \in [Messages -> Statuses]
  /\ draining \in BOOLEAN
  /\ calls \in [Messages -> Nat] /\ cut \in SUBSET Messages

\* "One flush, one request": while a line waits exactly one timer runs for it,
\* however many lines, interrupts and releases reset or cancel it, and none runs
\* otherwise.  A line without a timer would be forgotten by the memory sweep.
OneTimer == timers = IF waiting = None THEN 0 ELSE 1

\* A message is dispatched at most once: a line that was released for another
\* author's message is not flushed again, nor the other way round.
DispatchedOnce == \A m \in Messages : calls[m] <= 1

\* "Keep another person's pending reply": a waiting line is superseded only when
\* a message of its own author comes in, unless it was cut off by an interrupt
\* or by sleep.
OthersKept ==
  [][\A m \in Messages :
       waiting = m /\ status[m] # "superseded" /\ status'[m] = "superseded" /\ m \notin cut' =>
         \E k \in Messages \ {m} : Same(k, m) /\ at[k] = "admitted" /\ at'[k] = "handled"]_vars

\* A line that waits is answered or its request ended, unless the bot drains.
Answered == \A m \in Messages \ Direct : waiting = m ~> status[m] \in Closed \/ draining
===============================================================================
