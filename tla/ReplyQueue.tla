------------------------------ MODULE ReplyQueue ------------------------------
(***************************************************************************)
(* The per-channel reply queue of message_pipeline.py (class ReplyQueue).  *)
(*                                                                         *)
(* The bot is one asyncio event loop.  What runs between two awaits is one *)
(* action: a call of a synchronous method (submit, cancel_channel,         *)
(* drop_author, drop_soft, pause_new), or the part of a task from one      *)
(* await to the next.  The tasks are, per channel, the pump (_pump) and    *)
(* the reply it awaits, and one task that shuts the queue down.            *)
(*                                                                         *)
(* A channel's state object is registered while it has a waiting entry, a  *)
(* running reply or a pump, so the model has no separate registry.  Every  *)
(* submission goes to the channel of its message.  A submission made after *)
(* close() or pause_new() returns "dropped" and changes nothing: it is a   *)
(* stuttering step.                                                        *)
(***************************************************************************)
EXTENDS QueueFilter

CONSTANTS
  Channels,        \* Discord channels
  Messages,        \* inbound messages
  Authors,         \* their authors
  Chan,            \* the channel of each message
  Author,          \* the author of each message
  Protected,       \* messages drop_author's keep() predicate spares
  WatchBurst,      \* message._watch_burst, set before the message is submitted
  MaxDirected,     \* max_directed, 0 for no limit
  MaxOutstanding,  \* max_outstanding, 0 for no limit
  None             \* no running entry

ASSUME ConstantsAssumption ==
  /\ IsFiniteSet(Channels)
  /\ Chan \in [Messages -> Channels]
  /\ Author \in [Messages -> Authors]
  /\ Protected \subseteq Messages
  /\ WatchBurst \in [Messages -> SUBSET Messages]
  /\ MaxDirected \in Nat
  /\ MaxOutstanding \in Nat
  /\ None \notin Messages

VARIABLES
  queue,        \* state.queue of each channel
  running,      \* the message of state.running_entry, or None
  reply,        \* the task state.running
  pump,         \* the task state.pump
  outstanding,  \* _outstanding
  paused,       \* _pause_new
  closing,      \* _closing
  closeTask,    \* the task running _shutdown
  dropped       \* what _note_drop reported in the last step

vars == <<queue, running, reply, pump, outstanding, paused, closing, closeTask, dropped>>

\* A waiting entry (_Pending).  stale says that enqueued_at is more than
\* max_age ago; burst is a set, its cap of 24 lines is never reached, and no turn reads
\* it: the handler is called with the message and its content only.
Entry == [msg : Messages, directed : BOOLEAN, stale : BOOLEAN, burst : SUBSET Messages]

Reasons == {"stale", "superseded", "queue full", "deferred", "channel cleared",
            "same_user_interrupt", "interrupted"}

Report == [msg : Messages, directed : BOOLEAN, why : Reasons]

\* "stopping": cancel_once asked the reply to stop and it is cleaning up.
\* "cancelled" and "ended" are both done(); a reply that raised has ended.
ReplyStates == {"none", "active", "stopping", "ended", "cancelled"}

\* "created": the task exists and has not run yet.  "waiting": suspended on
\* shield(task).  "stopping": it was cancelled and awaits its reply.
PumpStates == {"none", "created", "waiting", "stopping"}

TypeOK ==
  /\ queue \in [Channels -> Seq(Entry)]
  /\ running \in [Channels -> Messages \cup {None}]
  /\ reply \in [Channels -> ReplyStates]
  /\ pump \in [Channels -> PumpStates]
  /\ outstanding \in Nat
  /\ paused \in BOOLEAN
  /\ closing \in BOOLEAN
  /\ closeTask \in {"none", "created", "gathering", "done"}
  /\ dropped \in SUBSET Report

Init ==
  /\ queue = [c \in Channels |-> <<>>]
  /\ running = [c \in Channels |-> None]
  /\ reply = [c \in Channels |-> "none"]
  /\ pump = [c \in Channels |-> "none"]
  /\ outstanding = 0
  /\ paused = FALSE
  /\ closing = FALSE
  /\ closeTask = "none"
  /\ dropped = {}

-----------------------------------------------------------------------------
(* Entries and filters.                                                    *)

SoftAt(q) == {i \in DOMAIN q : ~q[i].directed}

StaleAt(q) == {i \in SoftAt(q) : q[i].stale}

\* The head of every pass: _expire drops the soft entries that are too old.
Fresh(q) == DOMAIN q \ StaleAt(q)

Reports(q, I, why) == {[msg |-> q[i].msg, directed |-> q[i].directed, why |-> why] : i \in I}

Waiting(q) == {q[i].msg : i \in DOMAIN q}

Alive(c) == reply[c] \in {"active", "stopping"}

Done(c) == reply[c] \in {"ended", "cancelled"}

Full(n) == MaxOutstanding > 0 /\ n >= MaxOutstanding

ChannelFull(q) == MaxDirected > 0 /\ Len(q) >= MaxDirected

\* create_task unless a pump is alive; the callers are neither closing nor paused.
EnsurePump(c) == pump' = [pump EXCEPT ![c] = IF @ = "none" THEN "created" ELSE @]

-----------------------------------------------------------------------------
(* submit.  Its outcomes, once _expire left the entries q and out retained. *)

NewEntry(m, d) == [msg |-> m, directed |-> d, stale |-> FALSE, burst |-> WatchBurst[m]]

\* "duplicate": the running turn already answers the message.
SubmitRunning(c, m, q, out, gone) ==
  /\ running[c] = m
  /\ queue' = [queue EXCEPT ![c] = q]
  /\ outstanding' = out
  /\ dropped' = gone
  /\ UNCHANGED pump

\* "duplicate": the message waits already; its entry is refreshed in place.
SubmitWaiting(c, m, d, q, out, gone) ==
  /\ running[c] # m
  /\ \E i \in DOMAIN q :
       /\ q[i].msg = m
       /\ queue' = [queue EXCEPT ![c] = [q EXCEPT ![i] =
            [NewEntry(m, q[i].directed \/ d) EXCEPT
               !.burst = IF q[i].burst # {} THEN q[i].burst ELSE @]]]
  /\ outstanding' = out
  /\ dropped' = gone
  /\ EnsurePump(c)

\* Mutant: the line that is replaced goes unreported.
SubmitCoalescedSilently(c, m, q, out, gone) ==
  /\ running[c] # m /\ m \notin Waiting(q)
  /\ \E i \in SoftAt(q) :
       queue' = [queue EXCEPT ![c] = [q EXCEPT ![i] = NewEntry(m, FALSE)]]
  /\ outstanding' = out
  /\ dropped' = gone
  /\ EnsurePump(c)

\* "coalesced": a soft line takes the place of the one soft line waiting.
SubmitCoalesced(c, m, q, out, gone) ==
  /\ running[c] # m /\ m \notin Waiting(q)
  /\ \E i \in SoftAt(q) :
       LET older == IF q[i].burst = {} THEN {q[i].msg} ELSE q[i].burst
           newer == IF WatchBurst[m] = {} THEN {m} ELSE WatchBurst[m]
       IN /\ queue' = [queue EXCEPT ![c] = [q EXCEPT ![i] =
                         [NewEntry(m, FALSE) EXCEPT !.burst = older \cup newer]]]
          /\ dropped' = gone \cup Reports(q, {i}, "superseded")
  /\ outstanding' = out
  /\ EnsurePump(c)

\* Mutant: a message is compared with the waiting ones only.
UnknownIgnoringRunning(c, m, d, q) ==
  /\ m \notin Waiting(q)
  /\ d \/ SoftAt(q) = {}

\* What is left is neither a duplicate nor a line to coalesce.
Unknown(c, m, d, q) ==
  /\ running[c] # m
  /\ m \notin Waiting(q)
  /\ d \/ SoftAt(q) = {}

\* "started" or "queued".
SubmitAppended(c, m, d, q, out, gone) ==
  /\ Unknown(c, m, d, q)
  /\ ~ChannelFull(q) /\ ~Full(out)
  /\ queue' = [queue EXCEPT ![c] = Append(q, NewEntry(m, d))]
  /\ outstanding' = out + 1
  /\ dropped' = gone
  /\ EnsurePump(c)

\* Mutant: the oldest entry makes room, whatever it is.
SubmitEvictingOldest(c, m, d, q, out, gone) ==
  /\ Unknown(c, m, d, q)
  /\ ChannelFull(q) \/ Full(out)
  /\ q # <<>>
  /\ queue' = [queue EXCEPT ![c] = Append(Tail(q), NewEntry(m, d))]
  /\ dropped' = gone \cup Reports(q, {1}, "queue full")
  /\ outstanding' = out
  /\ EnsurePump(c)

\* The same after _make_room evicted the first soft entry.
SubmitEvicting(c, m, d, q, out, gone) ==
  /\ Unknown(c, m, d, q)
  /\ ChannelFull(q) \/ Full(out)
  /\ ~Full(out - 1)
  /\ \E i \in SoftAt(q) :
       /\ \A j \in SoftAt(q) : i <= j
       /\ \E left \in Kept(q, DOMAIN q \ {i}) :
            queue' = [queue EXCEPT ![c] = Append(left, NewEntry(m, d))]
       /\ dropped' = gone \cup Reports(q, {i}, "queue full")
  /\ outstanding' = out - 1 + 1
  /\ EnsurePump(c)

\* "deferred" for a directed message, "dropped" for a soft one.
SubmitRefused(c, m, d, q, out, gone) ==
  /\ Unknown(c, m, d, q)
  /\ ChannelFull(q) \/ Full(out)
  /\ SoftAt(q) = {}
  /\ queue' = [queue EXCEPT ![c] = q]
  /\ outstanding' = out
  /\ dropped' = gone \cup {[msg |-> m, directed |-> d,
                            why |-> IF d THEN "deferred" ELSE "queue full"]}
  /\ UNCHANGED pump

Submit(m, d) ==
  LET c == Chan[m] IN
  /\ ~closing /\ ~paused
  /\ \E q \in Kept(queue[c], Fresh(queue[c])) :
       LET out == outstanding - Cardinality(StaleAt(queue[c]))
           gone == Reports(queue[c], StaleAt(queue[c]), "stale")
       IN \/ SubmitRunning(c, m, q, out, gone)
          \/ SubmitWaiting(c, m, d, q, out, gone)
          \/ ~d /\ SubmitCoalesced(c, m, q, out, gone)
          \/ SubmitAppended(c, m, d, q, out, gone)
          \/ SubmitEvicting(c, m, d, q, out, gone)
          \/ SubmitRefused(c, m, d, q, out, gone)
  /\ UNCHANGED <<running, reply, paused, closing, closeTask>>

-----------------------------------------------------------------------------
(* The pump.                                                               *)

\* The finally blocks: the turn's entry is released and the pump ends.  It
\* starts another pump if work is left that nothing forbids to run.
Leave(c, q, out, gone) ==
  /\ queue' = [queue EXCEPT ![c] = q]
  /\ running' = [running EXCEPT ![c] = None]
  /\ reply' = [reply EXCEPT ![c] = "none"]
  /\ pump' = [pump EXCEPT ![c] = IF q # <<>> /\ ~closing /\ ~paused THEN "created" ELSE "none"]
  /\ outstanding' = out
  /\ dropped' = gone

\* The head entry leaves the queue and its reply task is created.
StartTurn(c, q, out, gone) ==
  /\ queue' = [queue EXCEPT ![c] = Tail(q)]
  /\ running' = [running EXCEPT ![c] = Head(q).msg]
  /\ reply' = [reply EXCEPT ![c] = "active"]
  /\ pump' = [pump EXCEPT ![c] = "waiting"]
  /\ outstanding' = out
  /\ dropped' = gone

\* One pass of the pump's loop, from its condition to the next await or the
\* end; out is the outstanding count when it begins.
NextTurn(c, out) ==
  \/ /\ queue[c] = <<>> \/ closing \/ paused
     /\ Leave(c, queue[c], out, {})
  \/ /\ queue[c] # <<>> /\ ~closing /\ ~paused
     /\ \E q \in Kept(queue[c], Fresh(queue[c])) :
          LET left == out - Cardinality(StaleAt(queue[c]))
              gone == Reports(queue[c], StaleAt(queue[c]), "stale")
          IN \/ q = <<>> /\ Leave(c, q, left, gone)
             \/ q # <<>> /\ StartTurn(c, q, left, gone)

\* _shutdown cancelled every pump alive when it ran.
PumpsCancelled == closeTask = "gathering"

PumpStarts(c) ==
  /\ pump[c] = "created"
  /\ ~PumpsCancelled
  /\ NextTurn(c, outstanding)
  /\ UNCHANGED <<paused, closing, closeTask>>

\* A task cancelled before its first step never runs.
PumpNeverStarts(c) ==
  /\ pump[c] = "created"
  /\ PumpsCancelled
  /\ pump' = [pump EXCEPT ![c] = "none"]
  /\ dropped' = {}
  /\ UNCHANGED <<queue, running, reply, outstanding, paused, closing, closeTask>>

\* Mutant: a cancelled reply ends the pump as if the pump were cancelled.
PumpResumesNever(c) ==
  /\ pump[c] = "waiting"
  /\ Done(c)
  /\ ~PumpsCancelled
  /\ IF reply[c] = "cancelled"
     THEN /\ running' = [running EXCEPT ![c] = None]
          /\ reply' = [reply EXCEPT ![c] = "none"]
          /\ pump' = [pump EXCEPT ![c] = "none"]
          /\ outstanding' = outstanding - 1
          /\ dropped' = {}
          /\ UNCHANGED queue
     ELSE NextTurn(c, outstanding - 1)
  /\ UNCHANGED <<paused, closing, closeTask>>

\* Mutant: the next turn starts while the cancelled reply still cleans up.
PumpResumesEarly(c) ==
  /\ pump[c] = "waiting"
  /\ Done(c) \/ reply[c] = "stopping"
  /\ ~PumpsCancelled
  /\ NextTurn(c, outstanding - 1)
  /\ UNCHANGED <<paused, closing, closeTask>>

\* The reply is done: the turn is released and the loop goes on, unless the
\* reply was cancelled during close(), which ends the pump.
PumpResumes(c) ==
  /\ pump[c] = "waiting"
  /\ Done(c)
  /\ ~PumpsCancelled
  /\ IF reply[c] = "cancelled" /\ closing
     THEN Leave(c, queue[c], outstanding - 1, {})
     ELSE NextTurn(c, outstanding - 1)
  /\ UNCHANGED <<paused, closing, closeTask>>

\* Mutant: the pump ends at once and leaves its reply running.
PumpCancelledAlone(c) ==
  /\ pump[c] = "waiting"
  /\ PumpsCancelled
  /\ pump' = [pump EXCEPT ![c] = "none"]
  /\ dropped' = {}
  /\ UNCHANGED <<queue, running, reply, outstanding, paused, closing, closeTask>>

\* Mutant: the pump stops its reply and swallows its own cancellation.
PumpCancelledInVain(c) ==
  /\ pump[c] = "waiting"
  /\ PumpsCancelled
  /\ Alive(c)
  /\ reply' = [reply EXCEPT ![c] = "stopping"]
  /\ dropped' = {}
  /\ UNCHANGED <<queue, running, pump, outstanding, paused, closing, closeTask>>

\* The pump's own cancellation arrives: it passes it on to a live reply and
\* awaits that, or ends at once.
PumpCancelled(c) ==
  /\ pump[c] = "waiting"
  /\ PumpsCancelled
  /\ \/ /\ Alive(c)
        /\ reply' = [reply EXCEPT ![c] = "stopping"]
        /\ pump' = [pump EXCEPT ![c] = "stopping"]
        /\ dropped' = {}
        /\ UNCHANGED <<queue, running, outstanding>>
     \/ /\ Done(c)
        /\ Leave(c, queue[c], outstanding - 1, {})
  /\ UNCHANGED <<paused, closing, closeTask>>

PumpStops(c) ==
  /\ pump[c] = "stopping"
  /\ Done(c)
  /\ Leave(c, queue[c], outstanding - 1, {})
  /\ UNCHANGED <<paused, closing, closeTask>>

\* The handler returns, raises, or ends by its cancellation.  A handler that
\* is asked to stop may still return.
ReplyEnds(c) ==
  /\ Alive(c)
  /\ \E how \in IF reply[c] = "stopping" THEN {"ended", "cancelled"} ELSE {"ended"} :
       reply' = [reply EXCEPT ![c] = how]
  /\ dropped' = {}
  /\ UNCHANGED <<queue, running, pump, outstanding, paused, closing, closeTask>>

-----------------------------------------------------------------------------
(* The other calls, and time.                                              *)

\* Mutant: the caller of drop_author releases the slots a second time.
DropRestTwice(c, K, why) ==
  /\ \E q \in Kept(queue[c], K) : queue' = [queue EXCEPT ![c] = q]
  /\ outstanding' = outstanding - 2 * Cardinality(DOMAIN queue[c] \ K)
  /\ dropped' = Reports(queue[c], DOMAIN queue[c] \ K, why)

\* Mutant: what is dropped keeps its slot.
DropRestLeaking(c, K, why) ==
  /\ \E q \in Kept(queue[c], K) : queue' = [queue EXCEPT ![c] = q]
  /\ dropped' = Reports(queue[c], DOMAIN queue[c] \ K, why)
  /\ UNCHANGED outstanding

\* Entries at K stay, the others are dropped and reported with why.
DropRest(c, K, why) ==
  /\ \E q \in Kept(queue[c], K) : queue' = [queue EXCEPT ![c] = q]
  /\ outstanding' = outstanding - Cardinality(DOMAIN queue[c] \ K)
  /\ dropped' = Reports(queue[c], DOMAIN queue[c] \ K, why)

StopReply(c) ==
  reply' = [reply EXCEPT ![c] = IF @ = "active" THEN "stopping" ELSE @]

CancelChannel(c, clear) ==
  /\ DropRest(c, IF clear THEN {} ELSE DOMAIN queue[c], "channel cleared")
  /\ StopReply(c)
  /\ UNCHANGED <<running, pump, paused, closing, closeTask>>

DropAuthor(c, a) ==
  /\ DropRest(c, {i \in DOMAIN queue[c] :
                    Author[queue[c][i].msg] # a \/ queue[c][i].msg \in Protected},
              "same_user_interrupt")
  /\ UNCHANGED <<running, reply, pump, paused, closing, closeTask>>

DropSoft(c) ==
  /\ DropRest(c, DOMAIN queue[c] \ SoftAt(queue[c]), "interrupted")
  /\ UNCHANGED <<running, reply, pump, paused, closing, closeTask>>

\* max_age seconds have passed since the soft entry i was put there.
Age(c, i) ==
  /\ i \in SoftAt(queue[c])
  /\ queue' = [queue EXCEPT ![c][i].stale = TRUE]
  /\ dropped' = {}
  /\ UNCHANGED <<running, reply, pump, outstanding, paused, closing, closeTask>>

PauseNew ==
  /\ paused' = TRUE
  /\ dropped' = {}
  /\ UNCHANGED <<queue, running, reply, pump, outstanding, closing, closeTask>>

\* close() up to its await; a second call finds the task and only awaits it.
Close ==
  /\ closing' = TRUE
  /\ closeTask' = IF closeTask = "none" THEN "created" ELSE closeTask
  /\ dropped' = {}
  /\ UNCHANGED <<queue, running, reply, pump, outstanding, paused>>

\* _shutdown up to its gather: it empties the queues without a report and
\* cancels the pumps, never a reply.
ShutdownBegins ==
  /\ closeTask = "created"
  /\ closeTask' = "gathering"
  /\ outstanding' = outstanding - Cardinality(UNION {{c} \X DOMAIN queue[c] : c \in Channels})
  /\ queue' = [c \in Channels |-> <<>>]
  /\ dropped' = {}
  /\ UNCHANGED <<running, reply, pump, paused, closing>>

\* Every pump is done.
ShutdownEnds ==
  /\ closeTask = "gathering"
  /\ \A c \in Channels : pump[c] = "none"
  /\ closeTask' = "done"
  /\ outstanding' = 0
  /\ dropped' = {}
  /\ UNCHANGED <<queue, running, reply, pump, paused, closing>>

-----------------------------------------------------------------------------
PumpStep(c) ==
  \/ PumpStarts(c)
  \/ PumpNeverStarts(c)
  \/ PumpResumes(c)
  \/ PumpCancelled(c)
  \/ PumpStops(c)

Next ==
  \/ \E m \in Messages, d \in BOOLEAN : Submit(m, d)
  \/ \E c \in Channels : PumpStep(c) \/ ReplyEnds(c) \/ DropSoft(c)
  \/ \E c \in Channels, clear \in BOOLEAN : CancelChannel(c, clear)
  \/ \E c \in Channels, a \in Authors : DropAuthor(c, a)
  \/ \E c \in Channels : \E i \in DOMAIN queue[c] : Age(c, i)
  \/ PauseNew
  \/ Close
  \/ ShutdownBegins
  \/ ShutdownEnds

\* The event loop runs every ready task, and every reply ends: the request
\* and its tools have time limits.  Callers promise nothing.
Fairness ==
  /\ \A c \in Channels : WF_vars(PumpStep(c)) /\ WF_vars(ReplyEnds(c))
  /\ WF_vars(ShutdownBegins)
  /\ WF_vars(ShutdownEnds)

Spec == Init /\ [][Next]_vars /\ Fairness

-----------------------------------------------------------------------------
(* Safety.                                                                 *)

\* The turns the process retains: a waiting entry each, and the running one.
Slots == UNION {{c} \X DOMAIN queue[c] : c \in Channels}

Running == {c \in Channels : running[c] # None}

\* The counter that admission compares with max_outstanding is exact: every
\* path that drops, evicts, expires, clears or finishes a turn releases its
\* slot once, and none leaks one.
OutstandingExact == outstanding = Cardinality(Slots) + Cardinality(Running)

\* Neither limit is ever passed, although one is per channel, the other is
\* shared by all channels, and an eviction makes room for one of them only.
WithinLimits ==
  /\ MaxOutstanding > 0 => outstanding <= MaxOutstanding
  /\ MaxDirected > 0 => \A c \in Channels : Len(queue[c]) <= MaxDirected

\* The slots that admission hands out: counted exactly, and never past a limit.
\* A count that drifts down admits too much, one that drifts up defers for ever.
SlotsAccounted == OutstandingExact /\ WithinLimits

\* A message is retained once: at one place of its channel's queue or as the
\* running turn, whatever is submitted again.  A soft line is waiting at most
\* once per channel.
RetainedOnce ==
  \A c \in Channels :
    /\ Cardinality(SoftAt(queue[c])) <= 1
    /\ running[c] \notin Waiting(queue[c])
    /\ \A i, j \in DOMAIN queue[c] : queue[c][i].msg = queue[c][j].msg => i = j

\* Work that may run has a pump to run it: no submission that lands around
\* the pump's end is left without one.
NoLostWakeup ==
  \A c \in Channels : queue[c] # <<>> /\ ~paused /\ ~closing => pump[c] # "none"

\* A reply task is always awaited by its channel's pump, also while close()
\* cancels it, and none survives the shutdown.
NoOrphanReply ==
  \A c \in Channels :
    /\ reply[c] # "none" <=> pump[c] \in {"waiting", "stopping"}
    /\ reply[c] # "none" <=> running[c] # None
    /\ closeTask = "done" => reply[c] = "none" /\ queue[c] = <<>>

\* A directed entry that leaves the queue starts its turn, or is dropped by a
\* cleared channel, a same-user interrupt or the shutdown.  It never expires
\* and is never evicted or superseded.
DirectedKept ==
  [][\A c \in Channels : \A i \in DOMAIN queue[c] :
       queue[c][i].directed /\ queue[c][i].msg \notin Waiting(queue'[c]) =>
         \/ running[c] # queue[c][i].msg /\ running'[c] = queue[c][i].msg
         \/ \E r \in dropped' : /\ r.msg = queue[c][i].msg
                                /\ r.why \in {"channel cleared", "same_user_interrupt"}
         \/ closeTask' = "gathering"]_vars

\* The callback that records outcomes hears of every entry that leaves
\* without a turn, and only of those (or of one refused): a message that is
\* retained is not reported, but when it is submitted again in the step that
\* expires its old entry.  The shutdown is silent.
DropsReported ==
  [][\A c \in Channels : \A m \in Messages :
       /\ /\ m \in Waiting(queue[c]) \ Waiting(queue'[c])
          /\ running'[c] # m
          /\ closeTask' # "gathering"
          => m \in {r.msg : r \in dropped'}
       /\ m \in {r.msg : r \in {x \in dropped' : x.why # "stale"}} =>
            m \notin Waiting(queue'[c]) \cup {running'[c]}]_vars

-----------------------------------------------------------------------------
(* Liveness.                                                               *)

HeldDirected ==
  {m \in Messages : \E i \in DOMAIN queue[Chan[m]] :
     queue[Chan[m]][i].msg = m /\ queue[Chan[m]][i].directed}

\* An accepted directed message gets its turn or is withdrawn: replies that
\* fail or are cancelled do not take the queue behind them along.
DirectedServed ==
  \A m \in Messages :
    m \in HeldDirected ~> (m \notin HeldDirected \/ paused \/ closing)

\* close() returns, with every reply stopped.
CloseReturns == closing ~> (closeTask = "done" /\ outstanding = 0)

-----------------------------------------------------------------------------
(* The queue keeps the promise of TurnQueue.  A message is being served     *)
(* while its reply task is not done.                                       *)

AheadOf ==
  {p \in HeldDirected \X HeldDirected :
     /\ Chan[p[1]] = Chan[p[2]]
     /\ \E i, j \in DOMAIN queue[Chan[p[1]]] :
          /\ i < j
          /\ queue[Chan[p[1]]][i].msg = p[1]
          /\ queue[Chan[p[1]]][j].msg = p[2]}

Promise == INSTANCE TurnQueue WITH
  held <- HeldDirected,
  ahead <- AheadOf,
  serving <- [c \in Channels |-> IF Alive(c) THEN running[c] ELSE None],
  open <- ~paused /\ ~closing

\* Directed turns are served one at a time per channel, in the order in which
\* they wait, whatever is dropped, refreshed or cancelled around them, and none
\* begins or is accepted after pause_new() or close().
PromiseKept == Promise!Spec
=============================================================================
