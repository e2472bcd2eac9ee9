------------------------------- MODULE TaskJobs -------------------------------
(***************************************************************************)
(* Detached worker jobs: class TaskJobs of task_jobs.py over the durable   *)
(* table of task_job_store.py.                                             *)
(*                                                                         *)
(* A chat turn submits a job; the job's task runs the workers, records the *)
(* outcome and posts one result; the owner, the watchdog, privacy deletion *)
(* or shutdown cancels it.  What runs between two awaits is one action.  A *)
(* store call runs in a thread: the awaited call and the step it wakes are *)
(* one action, and a call whose caller is cancelled first may still run at *)
(* any later time (late), because cancelling the await does not stop the   *)
(* thread.                                                                 *)
(*                                                                         *)
(* A job id is drawn by one submission and never again.  The reports, the  *)
(* files, the effects mark and the eviction beyond 256 jobs in memory are  *)
(* left out; a failing store write is modelled for the creation only.      *)
(***************************************************************************)
EXTENDS Naturals, FiniteSets

CONSTANTS
  Jobs,       \* job ids
  Sources,    \* source messages
  Users,
  Src,        \* the source message of each job id
  Owner,      \* the author of each source message
  Size,       \* the number of tasks each source message delegates, 1 or 2
  MaxActive,  \* task_workers_max_active
  MaxTurns,   \* bound on the chat turns of one source message
  MaxCrashes, \* bound on restarts
  Nobody,     \* no caller awaits the job in cancel()
  Outside     \* the caller is no chat turn (/tasks, /cancel, privacy deletion)

ASSUME JobsAssumption ==
  /\ IsFiniteSet(Jobs)
  /\ Src \in [Jobs -> Sources]
  /\ Owner \in [Sources -> Users]
  /\ Size \in [Sources -> 1..2]
  /\ MaxActive \in Nat
  /\ MaxTurns \in Nat
  /\ MaxCrashes \in Nat
  /\ Nobody \notin Sources /\ Outside \notin Sources /\ Nobody # Outside

VARIABLES
  rowState,     \* table jobs: state, or "absent"
  rowDelivery,  \* table jobs: delivery
  call,         \* the submit() call that drew the id
  task,         \* job.task
  state,        \* job.row["state"], while the task is alive
  delivery,     \* job.row["delivery"], while the task is alive
  stop,         \* job.stop_reason
  kill,         \* tasks with a CancelledError still to be thrown
  known,        \* TaskJobs.jobs
  reserved,     \* TaskJobs._users
  active,       \* TaskJobs._active
  closed,       \* TaskJobs.closed: how far close() is, and the tasks it awaits
  waiter,       \* the turn that awaits the job in cancel()
  late,         \* store calls of abandoned awaits
  turn,         \* source messages whose chat turn is active
  turns,        \* turns started per source message
  eligible,     \* users that Premium, the switches and their privacy setting allow
  erased,       \* users whose deletion is recorded (deleted_at)
  wiped,        \* users whose rows were deleted
  crashes,      \* restarts so far
  ran,          \* ghost: jobs whose workers were started
  posted,       \* ghost: results of each job that reached the chat
  pruned,       \* ghost: source messages that lost a row to prune()
  stranded      \* ghost: jobs a late write called live, or whose cancel() was abandoned

rows == <<rowState, rowDelivery>>
job == <<task, state, delivery, stop, kill, known>>
admission == <<call, reserved, active>>
env == <<turn, turns, eligible, erased, wiped, crashes>>
ghosts == <<ran, posted, pruned, stranded>>
vars == <<rows, job, admission, closed, waiter, late, env, ghosts>>

Live == {"queued", "running", "cancelling"}
Reasons == {"cancelled", "stopped", "interrupted"}
\* "completed" stands for incomplete and failed too, "suppressed" for expired.
States == Live \cup {"completed"} \cup Reasons
Deliveries == {"pending", "attempting", "sent", "failed", "suppressed", "unknown"}

\* The task: before its first step, in the first try of _run (starting,
\* working), in the second (finishing to noting), in its CancelledError handler
\* (stopping), after the release (parting), over.  A task cancelled before
\* its first step is stillborn.
Running == {"starting", "working"}
Settling == {"finishing", "waiting", "claiming", "sending", "noting"}
Holding == {"new", "stopping"} \cup Running \cup Settling
Alive == Holding \cup {"parting"}
TaskStates == Alive \cup {"none", "stillborn", "over"}

\* close() waits for the tasks that are under way when it is called.
Closings == [at : {"open", "closing", "closed"}, awaits : SUBSET Jobs]
Open == [at |-> "open", awaits |-> {}]

Calls == {"idle", "creating", "undoing", "interrupting", "returned"}

\* A store call: creation, a claim of the delivery, or an update.
Write == [col : {"create", "state"}, val : States] \cup [col : {"claim", "delivery"}, val : Deliveries]

UserOf(j) == Owner[Src[j]]
Present(j) == rowState[j] # "absent"
SameSource(j) == {k \in Jobs : Src[k] = Src[j]}

\* A submission holds its reservation until it returns or hands it to the task.
Submitting(j) == call[j] \in {"creating", "undoing", "interrupting"}

\* allowed(): what every step of a worker is checked against.
Permitted(j) ==
  /\ closed.at = "open"
  /\ stop[j] = ""
  /\ UserOf(j) \in eligible
  /\ Present(j)

Init ==
  /\ rowState = [j \in Jobs |-> "absent"]
  /\ rowDelivery = [j \in Jobs |-> "pending"]
  /\ call = [j \in Jobs |-> "idle"]
  /\ task = [j \in Jobs |-> "none"]
  /\ state = [j \in Jobs |-> "queued"]
  /\ delivery = [j \in Jobs |-> "pending"]
  /\ stop = [j \in Jobs |-> ""]
  /\ kill = {} /\ known = {} /\ reserved = {} /\ active = 0
  /\ closed = Open
  /\ waiter = [j \in Jobs |-> Nobody]
  /\ late = [j \in Jobs |-> {}]
  /\ turn = {} /\ turns = [s \in Sources |-> 0]
  /\ eligible = Users /\ erased = {} /\ wiped = {}
  /\ crashes = 0
  /\ ran = {} /\ posted = [j \in Jobs |-> 0] /\ pruned = {} /\ stranded = {}

-------------------------------------------------------------------------------
(* The store. *)

\* UPDATE jobs SET state=? WHERE id=?
WriteState(j, s) ==
  rowState' = IF Present(j) THEN [rowState EXCEPT ![j] = s] ELSE rowState

WriteDelivery(j, d) ==
  rowDelivery' = IF Present(j) THEN [rowDelivery EXCEPT ![j] = d] ELSE rowDelivery

\* Mutants: create() without the unique source message, or without the check
\* of the deletion.
InsertableTwice(j) == UserOf(j) \notin erased
InsertableErased(j) == \A k \in SameSource(j) : ~Present(k)

\* create() inserts unless the request predates a deletion or the source
\* message has a row.
Insertable(j) ==
  /\ UserOf(j) \notin erased
  /\ \A k \in SameSource(j) : ~Present(k)

Insert(j) ==
  /\ rowState' = [rowState EXCEPT ![j] = "queued"]
  /\ rowDelivery' = [rowDelivery EXCEPT ![j] = "pending"]

\* claim_delivery()
Claimable(j) == Present(j) /\ rowDelivery[j] = "pending"

\* The await of store call w of job j is cancelled: the call may run any time
\* later, or never.
Abandon(j, w) == late' = [late EXCEPT ![j] = @ \cup {w}]

\* An abandoned call runs.
LateWrite(j) ==
  \E w \in late[j] :
    /\ late' = [late EXCEPT ![j] = @ \ {w}]
    /\ \/ w.col = "state" /\ WriteState(j, w.val) /\ UNCHANGED rowDelivery
       \/ w.col = "delivery" /\ WriteDelivery(j, w.val) /\ UNCHANGED rowState
       \/ w.col = "claim" /\ Claimable(j) /\ WriteDelivery(j, w.val) /\ UNCHANGED rowState
       \/ w.col = "claim" /\ ~Claimable(j) /\ UNCHANGED rows
       \/ w.col = "create" /\ Insertable(j) /\ Insert(j)
       \/ w.col = "create" /\ ~Insertable(j) /\ UNCHANGED rows
    /\ stranded' = IF w.val \in Live THEN stranded \cup {j} ELSE stranded
    /\ UNCHANGED <<job, admission, closed, waiter, env, ran, posted, pruned>>

\* prune(): a terminal row is a day old.  By then tick() has forgotten every
\* job that finished.
Prune(j) ==
  /\ Present(j) /\ rowState[j] \notin Live
  /\ task[j] \in {"none", "stillborn", "over"}
  /\ j \in known => task[j] = "stillborn"
  /\ rowState' = [rowState EXCEPT ![j] = "absent"]
  /\ pruned' = pruned \cup {Src[j]}
  /\ UNCHANGED <<rowDelivery, job, admission, closed, waiter, late, env, ran, posted, stranded>>

-------------------------------------------------------------------------------
(* Submission, in a chat turn of the source message. *)

TurnStarts(s) ==
  /\ s \notin turn /\ turns[s] < MaxTurns
  /\ turn' = turn \cup {s}
  /\ turns' = [turns EXCEPT ![s] = @ + 1]
  /\ UNCHANGED <<rows, job, admission, closed, waiter, late, eligible, erased, wiped, crashes, ghosts>>

TurnEnds(s) ==
  /\ s \in turn
  /\ \A j \in Jobs : (Src[j] = s => ~Submitting(j)) /\ waiter[j] # s
  /\ turn' = turn \ {s}
  /\ UNCHANGED <<rows, job, admission, closed, waiter, late, turns, eligible, erased, wiped, crashes, ghosts>>

\* submit() up to the creation of the row.  With a job of the source message in
\* memory it only returns that job's view.
Submit(j) ==
  /\ call[j] = "idle" /\ task[j] = "none" /\ Src[j] \in turn
  /\ closed.at = "open" /\ UserOf(j) \in eligible
  /\ known \cap SameSource(j) = {}
  /\ UserOf(j) \notin reserved
  /\ active + Size[Src[j]] <= MaxActive
  /\ call' = [call EXCEPT ![j] = "creating"]
  /\ reserved' = reserved \cup {UserOf(j)}
  /\ active' = active + Size[Src[j]]
  /\ UNCHANGED <<rows, job, closed, waiter, late, env, ghosts>>

\* Mutant: the slots are given back twice.
ReleaseTwice(j) ==
  /\ reserved' = reserved \ {UserOf(j)}
  /\ active' = active - 2 * Size[Src[j]]

\* release(), and the reservation given back by submit() itself.
Release(j) ==
  /\ reserved' = reserved \ {UserOf(j)}
  /\ active' = active - Size[Src[j]]

\* The row exists: the job is registered and its task created.
Accept(j) ==
  /\ call[j] = "creating" /\ Insertable(j)
  /\ Insert(j)
  /\ call' = [call EXCEPT ![j] = "returned"]
  /\ task' = [task EXCEPT ![j] = "new"]
  /\ known' = known \cup {j}
  /\ UNCHANGED <<state, delivery, stop, kill, reserved, active, closed, waiter, late, env, ghosts>>

\* Mutant: submit() ends without giving its reservation back.
GiveBackNothing(j) ==
  /\ call' = [call EXCEPT ![j] = "returned"]
  /\ UNCHANGED <<reserved, active>>
  /\ UNCHANGED <<job, closed, waiter, env, ghosts>>

\* submit() ends without a job.
GiveBack(j) ==
  /\ call' = [call EXCEPT ![j] = "returned"]
  /\ Release(j)
  /\ UNCHANGED <<job, closed, waiter, env, ghosts>>

\* create() finds the row of an earlier submission, or raises.
Refused(j) == call[j] \in {"creating", "undoing"} /\ GiveBack(j) /\ UNCHANGED <<rows, late>>

\* The turn is cancelled while submit() awaits the creation: submit() waits for
\* the row, to mark it interrupted.
SubmitCancelled(j) ==
  /\ call[j] = "creating"
  /\ call' = [call EXCEPT ![j] = "undoing"]
  /\ UNCHANGED <<rows, job, reserved, active, closed, waiter, late, env, ghosts>>

Undo(j) ==
  /\ call[j] = "undoing"
  /\ IF Insertable(j) THEN Insert(j)
                      ELSE (\E k \in SameSource(j) : Present(k)) /\ UNCHANGED rows
  /\ call' = [call EXCEPT ![j] = "interrupting"]
  /\ UNCHANGED <<job, reserved, active, closed, waiter, late, env, ghosts>>

\* Mutant: the cancelled submission leaves the row it created.
UndoWriteNothing(j) ==
  /\ call[j] = "interrupting"
  /\ UNCHANGED rowState
  /\ GiveBack(j) /\ UNCHANGED <<rowDelivery, late>>

\* The row create() returned, its own or the earlier one, becomes interrupted.
UndoWrite(j) ==
  /\ call[j] = "interrupting"
  /\ \/ \E k \in SameSource(j) : Present(k) /\ WriteState(k, "interrupted")
     \/ (\A k \in SameSource(j) : ~Present(k)) /\ UNCHANGED rowState
  /\ GiveBack(j) /\ UNCHANGED <<rowDelivery, late>>

\* The turn is cancelled a second time, and submit() stops waiting.
UndoCancelled(j) ==
  /\ \/ call[j] = "undoing" /\ Abandon(j, [col |-> "create", val |-> "queued"])
     \/ /\ call[j] = "interrupting"
        /\ \E k \in SameSource(j) : Present(k) /\ Abandon(k, [col |-> "state", val |-> "interrupted"])
  /\ GiveBack(j) /\ UNCHANGED rows

-------------------------------------------------------------------------------
(* The task: _run. *)

\* The first try is over with state s, and the second begins with its update.
Conclude(j, s) ==
  /\ state' = [state EXCEPT ![j] = s]
  /\ task' = [task EXCEPT ![j] = "finishing"]

\* What a CancelledError leaves as the state.
StopState(j) == IF stop[j] = "" THEN "cancelled" ELSE stop[j]

Steps(j, p) == task[j] = p /\ j \notin kill

\* The first step: the verdict of allowed(), which may also raise.
Begin(j) ==
  /\ Steps(j, "new")
  /\ \/ Permitted(j) /\ state' = [state EXCEPT ![j] = "running"] /\ task' = [task EXCEPT ![j] = "starting"]
     \/ ~Permitted(j) /\ Conclude(j, StopState(j))
     \/ Conclude(j, "completed")
  /\ UNCHANGED <<rows, delivery, stop, kill, known, admission, closed, waiter, late, env, ghosts>>

\* The row says running and the workers start; without a row the job stops.
Started(j) ==
  /\ Steps(j, "starting")
  /\ \/ /\ Present(j)
        /\ WriteState(j, "running")
        /\ task' = [task EXCEPT ![j] = "working"]
        /\ ran' = ran \cup {j}
        /\ UNCHANGED state
     \/ ~Present(j) /\ Conclude(j, StopState(j)) /\ UNCHANGED <<rowState, ran>>
  /\ UNCHANGED <<rowDelivery, delivery, stop, kill, known, admission, closed, waiter, late, env,
                 posted, pruned, stranded>>

\* engine.run() returns or fails, or a step of a worker is refused.
Worked(j) ==
  /\ Steps(j, "working")
  /\ \/ Conclude(j, "completed")
     \/ ~Permitted(j) /\ Conclude(j, StopState(j))
  /\ UNCHANGED <<rows, delivery, stop, kill, known, admission, closed, waiter, late, env, ghosts>>

\* Mutant: the second try ends without release().
PartKeeping(j) ==
  /\ task' = [task EXCEPT ![j] = "parting"]
  /\ UNCHANGED admission

\* The finally of the second try releases the reservation.
Part(j) ==
  /\ task' = [task EXCEPT ![j] = "parting"]
  /\ Release(j)
  /\ UNCHANGED call

\* The outcome is in the row; a result is due unless the job was stopped.
Due(j) == Present(j) /\ stop[j] = "" /\ state[j] \notin Reasons

Finished(j) ==
  /\ Steps(j, "finishing")
  /\ WriteState(j, state[j])
  /\ \/ Due(j) /\ task' = [task EXCEPT ![j] = "waiting"] /\ UNCHANGED admission
     \/ ~Due(j) /\ Part(j)
  /\ UNCHANGED <<rowDelivery, state, delivery, stop, kill, known, closed, waiter, late, env, ghosts>>

\* wait_for_origin(): the turn that asked answers first.  Then deliver() checks
\* the job once more, and claims the delivery before it sends.
OriginAnswered(j) ==
  /\ Steps(j, "waiting") /\ Src[j] \notin turn
  /\ \/ Permitted(j) /\ task' = [task EXCEPT ![j] = "claiming"] /\ UNCHANGED delivery
     \/ /\ ~Permitted(j)
        /\ delivery' = [delivery EXCEPT ![j] = "suppressed"]
        /\ task' = [task EXCEPT ![j] = "noting"]
  /\ UNCHANGED <<rows, state, stop, kill, known, admission, closed, waiter, late, env, ghosts>>

Claimed(j) ==
  /\ Steps(j, "claiming")
  /\ \/ /\ Claimable(j)
        /\ WriteDelivery(j, "attempting")
        /\ delivery' = [delivery EXCEPT ![j] = "attempting"]
        /\ task' = [task EXCEPT ![j] = "sending"]
        /\ UNCHANGED admission
     \/ ~Claimable(j) /\ Part(j) /\ UNCHANGED <<rowDelivery, delivery>>
  /\ UNCHANGED <<rowState, state, stop, kill, known, closed, waiter, late, env, ghosts>>

\* The request to post reaches Discord, or does not.
MayPost(j) == posted' \in {posted, [posted EXCEPT ![j] = @ + 1]}

\* Mutants: a failed send is tried again; a failed send is called sent.
SentRetrying(j) ==
  /\ Steps(j, "sending")
  /\ \/ /\ posted' = [posted EXCEPT ![j] = @ + 1]
        /\ delivery' = [delivery EXCEPT ![j] = "sent"] /\ task' = [task EXCEPT ![j] = "noting"]
     \/ MayPost(j) /\ posted[j] < 2 /\ UNCHANGED <<delivery, task>>
  /\ UNCHANGED <<rows, state, stop, kill, known, admission, closed, waiter, late, env, ran, pruned, stranded>>

SentHopeful(j) ==
  /\ Steps(j, "sending")
  /\ MayPost(j) /\ delivery' = [delivery EXCEPT ![j] = "sent"]
  /\ task' = [task EXCEPT ![j] = "noting"]
  /\ UNCHANGED <<rows, state, stop, kill, known, admission, closed, waiter, late, env, ran, pruned, stranded>>

\* A send that fails may have posted all the same; an expired interaction and
\* an empty text post nothing.
Sent(j) ==
  /\ Steps(j, "sending")
  /\ \/ posted' = [posted EXCEPT ![j] = @ + 1] /\ delivery' = [delivery EXCEPT ![j] = "sent"]
     \/ MayPost(j) /\ delivery' = [delivery EXCEPT ![j] = "failed"]
     \/ UNCHANGED posted /\ delivery' = [delivery EXCEPT ![j] = "suppressed"]
  /\ task' = [task EXCEPT ![j] = "noting"]
  /\ UNCHANGED <<rows, state, stop, kill, known, admission, closed, waiter, late, env, ran, pruned, stranded>>

Noted(j) ==
  /\ Steps(j, "noting")
  /\ WriteDelivery(j, delivery[j])
  /\ Part(j)
  /\ UNCHANGED <<rowState, state, delivery, stop, kill, known, closed, waiter, late, env, ghosts>>

\* The store call the task awaits.
Awaited(j) ==
  [col |-> CASE task[j] = "claiming" -> "claim" [] task[j] = "noting" -> "delivery" [] OTHER -> "state",
   val |-> CASE task[j] = "claiming" -> "attempting"
             [] task[j] = "noting" -> delivery[j]
             [] task[j] = "starting" -> "running"
             [] OTHER -> state[j]]

AbandonAwaited(j) ==
  IF task[j] \in {"starting", "finishing", "claiming", "noting", "stopping"}
    THEN Abandon(j, Awaited(j)) ELSE UNCHANGED late

\* deliver() exceeds its 120 seconds or its check raises: the failure is noted
\* in memory only.
DeliveryFails(j) ==
  /\ Steps(j, task[j])
  /\ \/ task[j] \in {"claiming", "sending", "noting"}
     \/ task[j] = "waiting" /\ Src[j] \notin turn
  /\ AbandonAwaited(j)
  /\ IF task[j] = "sending" THEN MayPost(j) ELSE UNCHANGED posted
  /\ delivery' = [delivery EXCEPT ![j] = "failed"]
  /\ Part(j)
  /\ UNCHANGED <<rows, state, stop, kill, known, closed, waiter, env, ran, pruned, stranded>>

\* The handler of a CancelledError in the second try has updated the row.
Stopped(j) ==
  /\ Steps(j, "stopping")
  /\ WriteState(j, state[j])
  /\ Part(j)
  /\ UNCHANGED <<rowDelivery, state, delivery, stop, kill, known, closed, waiter, late, env, ghosts>>

\* The task is done.  What a finished job shows is left out.
Over(j, p) ==
  /\ task' = [task EXCEPT ![j] = p]
  /\ state' = [state EXCEPT ![j] = "queued"]
  /\ delivery' = [delivery EXCEPT ![j] = "pending"]

\* A job whose row is gone is forgotten.
Ended(j) ==
  /\ Steps(j, "parting")
  /\ Over(j, "over")
  /\ known' = IF Present(j) THEN known ELSE known \ {j}
  /\ UNCHANGED <<rows, stop, kill, admission, closed, waiter, late, env, ghosts>>

\* The CancelledError is thrown: into a first step that never runs, into the
\* first try, into the second, or into the handler and what follows it.
Interrupted(j) ==
  /\ j \in kill
  /\ kill' = kill \ {j}
  /\ \/ task[j] = "new" /\ Over(j, "stillborn") /\ Release(j) /\ UNCHANGED <<call, late, posted>>
     \/ task[j] \in Running /\ Conclude(j, StopState(j)) /\ AbandonAwaited(j)
        /\ UNCHANGED <<delivery, admission, posted>>
     \/ /\ task[j] \in Settling
        /\ AbandonAwaited(j)
        /\ IF task[j] = "sending" THEN MayPost(j) ELSE UNCHANGED posted
        /\ task' = [task EXCEPT ![j] = "stopping"]
        /\ state' = [state EXCEPT ![j] = StopState(j)]
        /\ UNCHANGED <<delivery, admission>>
     \/ task[j] = "stopping" /\ AbandonAwaited(j) /\ Over(j, "over") /\ Release(j)
        /\ UNCHANGED <<call, posted>>
     \/ task[j] = "parting" /\ Over(j, "over") /\ UNCHANGED <<admission, late, posted>>
  /\ UNCHANGED <<rows, stop, known, closed, waiter, env, ran, pruned, stranded>>

-------------------------------------------------------------------------------
(* Cancellation. *)

\* job.stop_reason is set once, with the only cancel() of the task that goes
\* with it.
Stop(j, reason) ==
  /\ stop' = [stop EXCEPT ![j] = reason]
  /\ kill' = kill \cup {j}

\* Mutants: cancel() takes a job that has finished for a live one; cancel()
\* sets the reason and does not cancel the task.
CancelFinished(j, c) ==
  /\ c = Outside \/ (c \in turn /\ Owner[c] = UserOf(j))
  /\ j \in known /\ Present(j) /\ task[j] \in Alive /\ waiter[j] = Nobody
  /\ IF stop[j] = ""
       THEN Stop(j, "cancelled") /\ state' = [state EXCEPT ![j] = "cancelling"]
       ELSE UNCHANGED <<stop, kill, state>>
  /\ waiter' = [waiter EXCEPT ![j] = c]
  /\ UNCHANGED <<rows, task, delivery, known, admission, closed, late, env, ghosts>>

CancelUnheard(j, c) ==
  /\ c = Outside \/ (c \in turn /\ Owner[c] = UserOf(j))
  /\ j \in known /\ Present(j) /\ task[j] \in Alive /\ waiter[j] = Nobody
  /\ UserOf(j) \notin eligible
  /\ stop' = [stop EXCEPT ![j] = IF @ = "" THEN "stopped" ELSE @]
  /\ waiter' = [waiter EXCEPT ![j] = c]
  /\ UNCHANGED <<rows, task, state, delivery, kill, known, admission, closed, late, env, ghosts>>

\* cancel(), called for the owner in a chat turn or outside one; privacy deletion
\* calls it with reason "stopped", once it has switched the user's storage off.
Cancel(j, c) ==
  /\ c = Outside \/ (c \in turn /\ Owner[c] = UserOf(j))
  /\ j \in known /\ Present(j) /\ task[j] \in Alive /\ waiter[j] = Nobody
  /\ \E reason \in {"cancelled", "stopped"} :
       /\ IF reason = "cancelled" THEN state[j] \in Live ELSE UserOf(j) \notin eligible
       /\ IF stop[j] = ""
            THEN Stop(j, reason) /\ state' = [state EXCEPT ![j] = "cancelling"]
            ELSE UNCHANGED <<stop, kill, state>>
  /\ waiter' = [waiter EXCEPT ![j] = c]
  /\ UNCHANGED <<rows, task, delivery, known, admission, closed, late, env, ghosts>>

\* The task is done; cancel() writes the reason over whatever the row says.
CancelReturns(j) ==
  /\ waiter[j] # Nobody /\ task[j] \notin Alive
  /\ waiter' = [waiter EXCEPT ![j] = Nobody]
  /\ WriteState(j, stop[j])
  /\ UNCHANGED <<rowDelivery, task, state, delivery, stop, kill, known, admission, closed, late, env, ghosts>>

\* The caller of cancel() is cancelled: gather() cancels the task once more.
CallerCancelled(j) ==
  /\ waiter[j] # Nobody
  /\ waiter' = [waiter EXCEPT ![j] = Nobody]
  /\ kill' = IF task[j] \in Alive THEN kill \cup {j} ELSE kill
  /\ stranded' = stranded \cup {j}
  /\ UNCHANGED <<rows, task, state, delivery, stop, known, admission, closed, late, env,
                 ran, posted, pruned>>

\* _watch(): every two seconds while the workers or the delivery run.
Watch(j) ==
  /\ j \in ran /\ task[j] \in {"working"} \cup Settling
  /\ stop[j] = "" /\ ~Permitted(j)
  /\ Stop(j, "stopped")
  /\ UNCHANGED <<rows, task, state, delivery, known, admission, closed, waiter, late, env, ghosts>>

\* refresh_user(): jobs of the user without a row are stopped and forgotten.
RefreshUser(u) ==
  LET gone == {j \in known : UserOf(j) = u /\ ~Present(j)}
      halted == {j \in gone : task[j] \in Alive /\ stop[j] = ""}
  IN /\ gone # {}
     /\ stop' = [j \in Jobs |-> IF j \in halted THEN "stopped" ELSE stop[j]]
     /\ kill' = kill \cup halted
     /\ known' = known \ gone
     /\ UNCHANGED <<rows, task, state, delivery, admission, closed, waiter, late, env, ghosts>>

\* tick() and inspect() forget a job that finished an hour ago or has no row.
Forget(j) ==
  /\ j \in known /\ task[j] = "over"
  /\ known' = known \ {j}
  /\ UNCHANGED <<rows, task, state, delivery, stop, kill, admission, closed, waiter, late, env, ghosts>>

\* close(): every task is cancelled and awaited, then the reasons are written and
\* all jobs are forgotten.
Close ==
  LET halted == {j \in known : task[j] \in Alive /\ stop[j] = ""}
  IN /\ closed.at = "open"
     /\ closed' = [at |-> "closing", awaits |-> {j \in known : task[j] \in Alive}]
     /\ stop' = [j \in Jobs |-> IF j \in halted THEN "interrupted" ELSE stop[j]]
     /\ kill' = kill \cup halted
     /\ UNCHANGED <<rows, task, state, delivery, known, admission, waiter, late, env, ghosts>>

\* A job that was accepted meanwhile is not waited for.
CloseReturns ==
  /\ closed.at = "closing" /\ \A j \in closed.awaits : task[j] \notin Alive
  /\ closed' = [closed EXCEPT !.at = "closed"]
  /\ rowState' = [j \in Jobs |-> IF j \in known /\ stop[j] # "" /\ Present(j) THEN stop[j] ELSE rowState[j]]
  /\ known' = {}
  /\ UNCHANGED <<rowDelivery, task, state, delivery, stop, kill, admission, waiter, late, env, ghosts>>

-------------------------------------------------------------------------------
(* The environment. *)

\* Premium, a switch or the privacy setting of u changes.
Revoke(u) ==
  /\ u \in eligible
  /\ eligible' = eligible \ {u}
  /\ UNCHANGED <<rows, job, admission, closed, waiter, late, turn, turns, erased, wiped, crashes, ghosts>>

\* Full deletion, in the bot or in the dashboard's process: the suppression is
\* recorded first, then the rows go, and what cancel() awaited is forgotten.
Erase(u) ==
  /\ u \notin erased
  /\ erased' = erased \cup {u}
  /\ eligible' = eligible \ {u}
  /\ UNCHANGED <<rows, job, admission, closed, waiter, late, turn, turns, wiped, crashes, ghosts>>

Wipe(u) ==
  /\ u \in erased \ wiped
  /\ wiped' = wiped \cup {u}
  /\ rowState' = [j \in Jobs |-> IF UserOf(j) = u THEN "absent" ELSE rowState[j]]
  /\ known' \in {known, {j \in known : UserOf(j) # u}}
  /\ UNCHANGED <<rowDelivery, task, state, delivery, stop, kill, admission, closed, waiter, late,
                 turn, turns, eligible, erased, crashes, ghosts>>

\* The process dies and TaskJobs is built anew: the store recovers, the threads
\* and everything in memory are gone.  An id that was drawn is not drawn again.
Crash ==
  /\ crashes < MaxCrashes
  /\ crashes' = crashes + 1
  /\ rowState' = [j \in Jobs |-> IF rowState[j] \in Live THEN "interrupted" ELSE rowState[j]]
  /\ rowDelivery' = [j \in Jobs |-> IF rowDelivery[j] = "attempting" THEN "unknown" ELSE rowDelivery[j]]
  /\ call' = [j \in Jobs |-> IF call[j] = "idle" THEN "idle" ELSE "returned"]
  /\ task' = [j \in Jobs |-> "none"]
  /\ state' = [j \in Jobs |-> "queued"]
  /\ delivery' = [j \in Jobs |-> "pending"]
  /\ stop' = [j \in Jobs |-> ""]
  /\ kill' = {} /\ known' = {} /\ reserved' = {} /\ active' = 0
  /\ closed' = Open
  /\ waiter' = [j \in Jobs |-> Nobody]
  /\ late' = [j \in Jobs |-> {}]
  /\ turn' = {}
  /\ UNCHANGED <<turns, eligible, erased, wiped, ghosts>>

-------------------------------------------------------------------------------
SubmitStep(j) ==
  \/ Accept(j) \/ Refused(j) \/ SubmitCancelled(j) \/ Undo(j) \/ UndoWrite(j) \/ UndoCancelled(j)

\* The steps of the task that need nobody else.
TaskStep(j) ==
  \/ Begin(j) \/ Started(j) \/ Worked(j) \/ Finished(j) \/ OriginAnswered(j) \/ Claimed(j)
  \/ Sent(j) \/ Noted(j) \/ Stopped(j) \/ Ended(j)
  \/ DeliveryFails(j) \/ Interrupted(j)

Next ==
  \/ \E j \in Jobs : \/ Submit(j) \/ SubmitStep(j) \/ TaskStep(j)
                     \/ \E c \in Sources \cup {Outside} : Cancel(j, c)
                     \/ CancelReturns(j) \/ CallerCancelled(j)
                     \/ Watch(j) \/ Forget(j) \/ LateWrite(j) \/ Prune(j)
  \/ \E s \in Sources : TurnStarts(s) \/ TurnEnds(s)
  \/ \E u \in Users : RefreshUser(u) \/ Revoke(u) \/ Erase(u) \/ Wipe(u)
  \/ Close \/ CloseReturns \/ Crash

\* The event loop runs every task that can run; worker deadlines end
\* engine.run(), and a turn has a deadline of its own.
Fairness ==
  /\ \A j \in Jobs : WF_vars(SubmitStep(j)) /\ WF_vars(TaskStep(j)) /\ WF_vars(CancelReturns(j))
  /\ \A s \in Sources : WF_vars(TurnEnds(s))

Spec == Init /\ [][Next]_vars /\ Fairness

-------------------------------------------------------------------------------
(* Properties. *)

TypeOK ==
  /\ rowState \in [Jobs -> States \cup {"absent"}]
  /\ rowDelivery \in [Jobs -> Deliveries]
  /\ call \in [Jobs -> Calls]
  /\ task \in [Jobs -> TaskStates]
  /\ state \in [Jobs -> States]
  /\ delivery \in [Jobs -> Deliveries]
  /\ stop \in [Jobs -> Reasons \cup {""}]
  /\ kill \in SUBSET Jobs /\ known \in SUBSET Jobs
  /\ reserved \in SUBSET Users /\ active \in Nat
  /\ closed \in Closings
  /\ waiter \in [Jobs -> Sources \cup {Nobody, Outside}]
  /\ late \in [Jobs -> SUBSET Write]
  /\ turn \in SUBSET Sources /\ turns \in [Sources -> Nat]
  /\ eligible \in SUBSET Users /\ erased \in SUBSET Users /\ wiped \in SUBSET Users
  /\ crashes \in Nat
  /\ ran \in SUBSET Jobs /\ posted \in [Jobs -> Nat]
  /\ pruned \in SUBSET Sources /\ stranded \in SUBSET Jobs

Holders == {j \in Jobs : Submitting(j) \/ task[j] \in Holding}
Slots(H) == {x \in H \X (1..2) : x[2] <= Size[Src[x[1]]]}

\* Each submission and each unfinished job holds its user's reservation and its
\* worker slots exactly once, whatever cancels it: nothing leaks, nothing is
\* given back twice, and a user has one job at a time.
ReservationsExact ==
  /\ reserved = {UserOf(j) : j \in Holders}
  /\ active = Cardinality(Slots(Holders))
  /\ \A j, k \in Holders : UserOf(j) = UserOf(k) => j = k

\* A source message starts workers at most once, over repeated turns, cancelled
\* submissions and restarts, as long as prune() has not dropped its row:
\* "never replay interrupted work automatically".
OneRun ==
  \A j, k \in ran : Src[j] = Src[k] /\ Src[j] \notin pruned => j = k

\* A source message produces at most one completion notification, over restarts,
\* failed sends and repeated submissions.
OneResult ==
  /\ \A j \in Jobs : posted[j] <= 1
  /\ \A j, k \in Jobs : /\ posted[j] = 1 /\ posted[k] = 1
                         /\ Src[j] = Src[k] /\ Src[j] \notin pruned => j = k

\* A job its owner cancelled has posted nothing and never will.
CancelledSilent ==
  \A j \in Jobs : stop[j] = "cancelled" \/ rowState[j] = "cancelled" => posted[j] = 0

\* What the table says of the delivery is never contradicted by the chat: it is
\* not called sent unless it was posted, and a posted result is sent, failed,
\* unknown or still being attempted, also after a restart.
LedgerHonest ==
  \A j \in Jobs : Present(j) =>
    /\ rowDelivery[j] = "sent" => posted[j] = 1
    /\ posted[j] = 1 => rowDelivery[j] \in {"attempting", "sent", "failed", "unknown"}

\* A deleted user's rows stay deleted, whatever submission or thread was under
\* way: "prevents old writes from recreating rows".
ErasedStaysErased == \A j \in Jobs : UserOf(j) \in wiped => ~Present(j)

\* Nothing works on the job any more.
Quiet(j) ==
  /\ ~Submitting(j) /\ task[j] \notin Alive /\ waiter[j] = Nobody
  /\ ~(closed.at = "closing" /\ j \in known \cap closed.awaits)

\* A job that nothing works on is not left live in the table, unless one of its
\* writes or its cancel() was abandoned.
SettledUnlessAbandoned ==
  \A j \in Jobs : Quiet(j) /\ rowState[j] \in Live => late[j] # {} \/ j \in stranded

\* A user's reservation is given back, so that the next job can be submitted.
ReservationFreed == \A u \in Users : u \in reserved ~> u \notin reserved

\* cancel() returns, also when the turn that calls it is the one the job waits
\* for.
CancelEnds == \A j \in Jobs : waiter[j] # Nobody ~> waiter[j] = Nobody
===============================================================================
