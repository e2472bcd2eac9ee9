# A verification of Maxwell's request path and background work

Maxwell is a Discord bot: one asyncio process that receives messages, decides
which of them ask for an answer, runs one model turn at a time per channel with
tools that act on the world, and records every request in a SQLite journal.
Around that path run background tasks: detached workers, schedules, the wait of
a watched channel, and the plugins that bring most of its tools.
This directory holds TLA+ models of the parts where ordering,
failure and cancellation decide whether a user is answered once, never or twice,
or whether a job runs once, never or twice. TLC checks the models on small
instances, and TLAPS proves the main invariants for all values of their
constants.

## 1. Inventory

Paths are relative to `src/`.

| Component | State | Operations | What is hard | What makes it correct |
|---|---|---|---|---|
| **Reply queue** `message_pipeline.py` 107-539 | per channel: waiting entries, running entry, reply task, pump task; `_outstanding`, pause and close flags | submit, cancel_channel, drop_author, drop_soft, pause_new, close; pump, reply and shutdown tasks | two tasks per channel cancelled in two ways; eight paths that give a slot back; limits of two kinds | exact slot count, limits, one turn at a time in order, no lost wakeup, no orphan task, no directed message dropped |
| **Request journal** `message_pipeline.py` 542-949 | a row per message: status, effects_started, attempts | accept, update, begin, pending, recover, suppress_stale, each a transaction of one FIFO worker | the answer of a transaction is used later than it was made | what is committed is never taken back |
| **Inbound admission** `bot_parts/messages.py` | `_inbound_processing` | on_message: own, journal, policy, interrupt, dispatch, give up | gateway redelivery, failures between awaits | one owner per message, no message queued twice |
| **Request lifecycle** `bot_parts/requests.py` | `_active_*` maps, `_same_user_latest`, `_same_user_interrupts`, the turn's effects | turn, effect checkpoint, delivery record, failure policy, dispatch, interrupt | cancellation at every await, checkpoint before effect, retry | effects at most once, every request settled, superseded turns silent |
| **Retry and recovery** `bot_parts/recovery.py`, `core.py` | sweep cursor, recovery cursors | retry loop over pending rows, failed fetch, settlement at startup | races with redelivery | no row left behind, none answered twice |
| **Watch debounce** `bot_parts/watch.py` | bucket and timer per channel | queue, touch, flush, release, cancel, sleep | timer against addressed messages, interrupts, other authors | one timer per waiting line, one dispatch per message, nobody loses his place to others |
| **Detached task jobs** `plugins/maxwell_extras/task_jobs.py`, `task_job_store.py` | jobs table (state, delivery); per job: task, stop reason; reservations, worker slots | submit, run, deliver, cancel, watchdog, deletion, close, recover | cancellation at every await, store threads that outlive their await, repeated turns, restarts | workers start once and a result is posted once per message, nothing leaks, a cancelled job is silent |
| **Schedules** `plugins/schedules/` | table of rows; first try per row | the owner's commands; tick, fire, record, retry_later | the owner edits a row while it fires; restarts, job timeout | an occurrence starts one job, in time; the owner's commands stay |
| **Watermarks, dedup** `message_pipeline.py` 56-104, 952-1055 | mark per channel | note, save, load | save against note | marks are monotone |
| **Concurrency primitives** `concurrency_safety.py` | locks per key, semaphores | acquire, release | cancellation | mutual exclusion |
| **Message quota** `message_quota.py` | charges in a rolling window | charge | racing charges at the limit | the limit holds |
| **Drain and restart** `runtime_lifecycle.py`, `bot.py` | in-flight counters, idle event | begin, end, drain, shut down | work admitted while draining, time limit | nothing new starts, the drain ends |
| **Plugin manager** `maxwell_core/plugins/manager.py` | loaded plugins, pending setups and teardowns, published tools, jobs and tasks | load, complete setups, reload, teardown, uninstall, dispatch, spawn | failure and cancellation in the middle of an operation, events that arrive during it | dispatch reaches what is set up and nothing else, dependencies are respected, each load is torn down once |
| **Tool calls, AI slots** `bot_parts/tool_calls.py`, `ai.py`, `providers.py` | batch, deadlines, fallback order | run a batch, retry, fall back | partial failure of a batch | order kept, effects known |

How they interact: the gateway calls `on_message`; it journals the receipt,
applies policy, may interrupt the author's older request (records and cancels
it), and hands the message to the reply queue, or to the watch of the channel
if it is not addressed to Maxwell. The queue's pump starts `_run_reliable_turn`
as a task. A turn checkpoints the row before each effect; one of its tools
submits a detached job, another changes schedules. The schedule runner submits
jobs too. The queue reports dropped entries back by a callback that writes to
the journal. The retry loop reads pending rows, fetches their messages and calls
`on_message` again. At startup whatever the last process left is settled.

The rest (games, music, sites, shell, dashboard, memory text, media, ...) is
listed in `PROJECT.json` with the reason why it is not modelled.

## 2. Plan

1. *Done.* `ReplyQueue` with the abstract `TurnQueue`; proofs.
2. *Done.* `RequestJournal` and `RequestLifecycle` (admission, turn, failures,
   interrupts, retry, crash); proofs of the effect guarantee.
3. *Done.* `TaskJobs` with threads, restarts and deletion; proofs.
4. *Done.* `Schedules`, with edits, cut-off ticks and restarts; proofs.
5. *Done.* `WatchDebounce` with interrupts and the queue behind it; proofs.
6. *Done.* `PluginLifecycle` with failures and cancellation; proofs.

Open: `RequestLifecycle` over several channels of `ReplyQueue`. Every safety
and action property of the passing runs is proved (section 7).

## 3. Modules

| Module | Models |
|---|---|
| `QueueFilter` | `[entry for entry in queue if ...]`: what is left when entries are removed in order |
| `TurnQueue` | abstract: what the reply queue promises for directed messages |
| `ReplyQueue` | the class, its pumps, reply tasks and shutdown |
| `RequestJournal` | rows, and transactions as functions from row to row |
| `RequestLifecycle` | on_message, dispatch, turn, failures, interrupts, retry loop, restart, in one channel |
| `TaskJobs` | the jobs table, submission, a job's task, delivery, cancellation, deletion, restart |
| `Schedules` | the schedules table, the runner, the owner's commands, faults |
| `WatchDebounce` | the wait of a watched channel, interrupts, dispatch and turns |
| `PluginLifecycle` | loading, setups, reload, teardown, cancellation and dispatch of plugins |
| `MC...` | instances for TLC |
| `QueueFilterProofs`, `ReplyQueueProofs`, `ReplyPromiseProofs`, `RequestLifecycleProofs`, `TaskJobsProofs`, `SchedulesProofs`, `WatchDebounceProofs`, `PluginLifecycleProofs` | theorems and proofs |

In all of them an action is what runs between two awaits, with every call it
makes. `PROJECT.json` maps each definition to its lines.

### ReplyQueue

`queue`, `running`, `reply` and
`pump` are the fields of `_ChannelState`; a channel without any of them is not
registered, so there is no separate registry. `PumpStarts`, `PumpResumes`,
`PumpCancelled` and `PumpNeverStarts` are the parts of `_pump` around its one
await (`shield(task)`), `EnsurePump` is its restart from the other methods.
`ReplyEnds` is external to the queue: a reply returns, raises or is cancelled
at any time, and one asked to stop may take long.

Abstractions: age is the flag `stale`, set by `Age` at any time for soft lines;
the burst is a set, its cap of 24 lines is never reached; `Protected` are the
messages `drop_author`'s `keep` predicate spares (`/maxwell` runs). Submissions
after `close()` or `pause_new()` return "dropped" and are stuttering steps.
A missing handler and a pump that finds another pump cannot be reached once
`bind` has run, and are left out. `drop_soft` and `cancel_channel` with a
cleared queue have no caller in the bot today; they are modelled as operations
of the class. The shutdown empties the queue without reporting anything.

### RequestLifecycle

The tasks are gateway tasks (`Handlers`), the reply task (`Turn`) and the retry
loop (`Retry`); `task[t].at` is the await where a task is suspended.

- **Journal.** One worker runs the transactions in the order of their
  submission, so a transaction takes effect when it is submitted and its
  submitter goes on later. Waiting tasks go on in that order (`fifo`). What a
  read returned is kept in the next location ("deferring" or "condemning", say),
  so a decision taken on a row that has changed since is in the model.
- **Everything else that is awaited** (HTTP, model, memory) ends at any time.
- **Interrupts.** `Interrupt` is the synchronous part of `_interrupt_same_user`
  with the marks; `stop = "asked"` is the cancellation the event loop has still
  to deliver. It is raised at the await where the turn is (`Cancelled`), unless
  the task has not run at all (`NeverStarts`).
- **Admission.** Its timeout may cut off any await of `_dispatch_reply`
  (`Dispatching`); the transaction that was awaited still takes effect. The
  records of the entries that a newer message drops are submitted together; the
  code awaits each before the next (section 6).
- **Failures.** `Verdicts` is the decision of `_request_failure`. The notice to
  the user is a checkpoint, an HTTP call and a delivery record.
- **Retry loop.** One row of a sweep at a time; the back-off is the freedom when
  to take a row. `touched` stands for the comparison of `updated_at`.
- **Restart.** The memory is lost, the journal is settled by `recover()` and
  `suppress_stale()`; messages delivered to the new process are new deliveries.

Left out: other channels, soft chatter, `/maxwell` interactions, quota notices,
edits, policy details (a choice: `Reject`, `Refuse`), limits of the queue
(0 in the default configuration), pruning of the journal, the drain.
`PROJECT.json` maps each definition to its lines.

### TaskJobs

A row of the table is `rowState`, `rowDelivery` and its presence; a job in
memory is its task and the copy of the row the task works with (`state`,
`delivery`), its `stop` reason and whether a CancelledError waits for it
(`kill`). `call` is the `submit()` that drew the id. `task[j]` is where `_run`
is suspended: before its first step (`new`), in its first try (`starting`,
`working`), in the second (`finishing` to `noting`), in its CancelledError
handler (`stopping`), after the release (`parting`).

- **Store calls run in threads.** The call and the step it wakes are one action.
  An await that is cancelled does not stop its thread: the call goes to `late`
  and `LateWrite` runs it at any later time, or never.
- **Cancellation.** `Cancel` is called by the owner, in a chat turn or outside
  one, and by privacy deletion; `Watch`, `RefreshUser` and `Close` are the other
  three. `Interrupted` throws the error at the await where the task is.
  `SubmitCancelled`, `UndoCancelled` and `CallerCancelled` cancel the chat turn
  that awaits `submit()` or `cancel()`.
- **Shutdown.** `close()` awaits the tasks it knew when it was called
  (`closed.awaits`), and a job whose first step comes later is not among them.
- **The chat turn.** A message may have several (`MaxTurns`): the request
  lifecycle repeats turns. The job's result waits for the turn to answer
  (`OriginAnswered`).
- **Restart.** Memory and threads are lost, `recover()` settles the rows.

The ghosts `ran` and `posted` are what the world saw. `pruned` exempts messages
whose row was deleted a day later, `stranded` the jobs that a late write called
live again or whose `cancel()` was abandoned: these stay live until a restart.

### Schedules

`table` holds the rows; a tick lists the due ones, the earliest first and no more
than `DueLimit` (`Listable`), and fires them as they were then. A command of the
owner is one action; the code reads the row in one store call and writes it in
another (section 6). `Fire` is `fire()` up to `submit()`, whose outcome is `Submitted`; both
choose the store call (`record()` or `retry_later()`) that `Written` runs.
`first` is `_first_try`, the time a run was put off for the first time.
Faults are a failing call (the tick tries the row again later), a tick cut off
at any await by the job timeout of the plugin manager, whose store call may
still land (`late`), and a restart. Time is counted in units, and a cron
expression is a shift of the multiples of `Period`. `due` (the occurrence that a
row's next run stands for) and `ver` (the last command) are ghosts of a row.

Exemptions are ghosts too: `doubt` holds the schedules a start of which went
unrecorded (the process died, the store failed, the write came late), or whose
new time an unguarded `retry_later()` replaced; `forgot` those whose first try
was lost.

### WatchDebounce

One channel. `waiting` and `timers` are its bucket and its `_flush_watch_reply`
tasks. `Receive` is `on_message` up to the interrupt; `Handle` is the policy and
what follows it: the line is queued for the quiet moment (`Wait`), stretches the
wait of another (`Pass`), goes ahead because it is addressed to Maxwell
(`GoAhead`), or has been overtaken. `Begin` and `Submit` are `_dispatch_reply`
around its awaits, for a released message in a task of its own. `TimerReset`
starts the timer again for every line; that the code shortens it after 3 s is a
matter of times, which the model has not. The queue is
what `ReplyQueue` promises for one channel without limits, its filters are those
of `QueueFilter`. `cut` exempts the lines an interrupt or sleep ended.

### PluginLifecycle

`_lifecycle_lock` lets one of three operations run at a time: the completion of
the setups at startup, a reload, a teardown. `op` is the operation, the await it
is at (`at`), the tasks a `gather` waits for (`join`), the plugins still to be
closed (`todo`) and the plugin whose hook or setup runs (`cur`). Everything else
goes on in between: `Dispatch` and `Spawn` start tasks (a plugin is enabled for
everyone or for nobody; `Toggle` changes it at any time, which covers what the code
asks per user or server), `Toggle` and `Uninstall`
are commands of the owner, `Drain` begins the shutdown.

- **Loading.** `Load` is `load_plugins()`, which awaits nothing: it chooses a fate
  for each plugin, and `Possible` says which choices the dependencies allow. A
  plugin whose setup is asynchronous, or that depends on one, is `pending`.
- **Setups.** `SetupBlocked`, `SetupBegins`, `SetupAtOnce` and `SetupEnds` are the
  loop of `_complete_pending_setups`. A failed one is rolled back (`Rollback`), and
  its hook goes to `unclosed`, which the next drain empties.
- **Teardown.** `TeardownOf`, `JobsStopped`, `TasksJoined`, `Flushed`, `CloseNext`,
  `ClosedHook` and `TornDown` follow `_teardown_plugins` from await to await.
- **Cancellation.** `Cancel` raises at any of these awaits; `DropAll` is the outer
  `finally`, `CancelSetup` the handler that rolls back all that is pending.

What a plugin registers (listeners, job specs, tools, hooks, services) is one flag.
`brought`, `closed` and `lost` are ghosts of a plugin's load: its code ran, its
hook was called, it was dropped without a hook (uninstalled, or a cancelled
teardown). `stray` are cancelled tasks that nobody awaits. The synchronous
`reload_plugins()` is left out: nothing in the bot calls it.

## 4. Runs

| Run | Instance | Shows |
|---|---|---|
| `reply_queue` | 2 channels, 4 messages, 2 authors, max_directed 2, max_outstanding 3 | `TypeOK`, `SlotsAccounted`, `RetainedOnce`, `NoLostWakeup`, `NoOrphanReply`, `DirectedKept`, `DropsReported`, `PromiseKept` (implements `TurnQueue`), `DirectedServed`, `CloseReturns` |
| `lifecycle_effects` | 2 messages of one author, the first delivered twice, 2 gateway tasks, 2 attempts, error replies, no crash | `TypeOK`, `EffectsOnce`, `OneOwner`, `SupersededSilent` |
| `lifecycle_settled` | 2 messages, 1 gateway task, 2 attempts, error replies, 1 crash | `Settled` |
| `lifecycle_older` | 2 messages delivered once, 1 gateway task | *violation* of `SupersededByNewer` |
| `lifecycle_unrecorded` | the same | *violation* of `InterruptRecorded` |
| `lifecycle_loop` | 2 gateway tasks, message 1 delivered twice | *violation* of `LoopAlive` |
| `task_jobs` | 2 ids for one message of one user, 2 turns, 1 crash | `TypeOK`, `ReservationsExact`, `OneRun`, `OneResult`, `CancelledSilent`, `LedgerHonest`, `ErasedStaysErased`, `SettledUnlessAbandoned` |
| `task_jobs_live` | 1 id, 2 turns, 1 crash | `ReservationFreed`, `CancelEnds` |
| `schedules` | 3 schedules, 2 rows a tick, 3 commands, 1 fault | `TypeOK`, `OncePerDue`, `GraceKept`, `FailuresPause`, `EditKept`, `DueServed` |
| `schedules_missed` | the same, no fault | *violation* of `MissedOnlyLate` |
| `watch_room` | 5 messages of 2 authors, 2 of them to Maxwell | `TypeOK`, `OneTimer`, `DispatchedOnce`, `OthersKept`, `Answered` |
| `plugin_host` | 3 plugins: an asynchronous one, one that needs it, one that can be uninstalled; 2 operations, 1 cancellation | `TypeOK`, `NothingHalfLoaded`, `InOrder`, `ClosedOnce` |

Why the bounds suffice.

- *Reply queue.* Three messages in a channel are one running, one waiting and
  one arriving, which is what every branch of the queue tells apart; the fourth
  shares only the process-wide limit. Both limits are reached, and by different
  submissions. A limit of 0 (the default) is the same code with its two guards
  off, so it adds no behaviour.
- *Lifecycle.* Two messages of one author make every interrupt (of a waiting, a
  created, a running and a failing turn); two attempts give one retry and one
  exhausted budget; a second delivery meets the first attempt in admission, in
  the queue, running or settled. Two gateway tasks are needed to admit both
  messages at once. A crash is in the liveness run; `EffectsOnce` is proved for
  any number of crashes. `lifecycle_effects` uses the symmetry of the gateway
  tasks: no definition tells one from another, and it checks no liveness.
- *Task jobs.* Jobs meet through their message, their user and the slots. Two ids
  of one message meet through all three, in two turns with a restart anywhere;
  a third could only repeat what the second does. Two ids are explored with
  either a shutdown or a withdrawn permission (constraint `Apart`),
  `task_jobs_live` has both with one id, and the proofs have neither bound.
- *Schedules.* `Grace` 1, retries after 1 and 2, two failures allowed, period 3:
  within 4 units an occurrence can be in time, put off, just too late, missed
  and followed by the next one. Three commands are enough to create a row and
  to change it twice during one firing. Rows share the order in a tick and its
  limit: with two schedules one is behind the other, when a fault cuts the tick off
  too; with three due at once a tick of two leaves one out. These cases are
  explored beside each other (constraint `Apart`): all commands on one schedule,
  two schedules with the fault, three without one. The properties but `DueServed`
  are proved without these bounds.
- *Watch.* Five messages are two rounds of lines of both authors and one more,
  so that a wait is set, stretched, released, replaced and interrupted, with a
  turn running and another queued.

- *Plugins.* Two plugins and a dependency make every order of setup, rollback and
  teardown; the third is independent, so that one plugin fails or goes while the
  others stay. Two operations are a reload or teardown after a complete or broken
  one; one cancellation hits each await of either, and what it leaves behind is
  met by the second. The proofs have none of these bounds.

`CHECK_DEADLOCK FALSE` where inputs are bounded: with all deliveries, turns,
commands or messages used up and everything settled, the process waits for more.
The bounds named in the modules are `Deliveries` and `MaxCrashes`
(RequestLifecycle), `MaxTurns` and `MaxCrashes` (TaskJobs), `Horizon`,
`MaxEdits` and `MaxFaults` (Schedules), `MaxOps` and `MaxCancels`
(PluginLifecycle); attempts are bounded by the
code's own limit, plus the races of section 6.

## 5. Fairness

*Reply queue.* `WF` of each channel's pump, of the end of a reply and of the
two steps of the shutdown: the event loop runs what is ready, and a turn ends
because `_run_reliable_turn` bounds it (`asyncio.timeout`, requests.py:532).

*Lifecycle* (`Fairness`, only in `lifecycle_settled`). `WF` of each task: the
event loop resumes it, HTTP calls of the retry loop and of notices have limits
of 10 s, and the admission has one (messages.py:122). `SF` of `EndsWork`: a turn
that works, calls tools and works again is interrupted by its timeout however
often its other steps are enabled. `SF` of `Scan(m)` for each message: a sweep
visits every pending row in the order of creation and bounds itself by a
snapshot (recovery.py:206-261), so a row that is due again and again is taken
in the end although the loop is busy with others in between. Deliveries,
interrupts and crashes have no fairness.

*Task jobs.* `WF` of each job's task (workers have a deadline, the delivery one
of 120 s), of each submission, of the return of `cancel()`, and of the end of a
turn. A turn can only end once what it awaits has returned. Late writes have
none.

*Schedules.* `WF` of the runner as a whole: it is one task, called again and
again, and the job timeout ends what hangs. Commands, faults and the clock have
none. `DueServed` rests on faults coming to an end (`MaxFaults`): a row that hangs
at every tick starves those behind it (section 6).

*Watch.* `WF` of the task of each message, of the timer and of the turns. A line
that stretches the wait restarts the timer. The code shortens the timer to 0.2 s
once the wait is over 3 s old, against starvation (watch.py:490-496), but every
line still starts it again; the model has no times. As its messages are finitely
many, `Answered` says nothing of a stream of lines that never pauses.

## 6. What the runs found

1. **An older message supersedes a newer one** (`lifecycle_older`). A deferred
   request is admitted again by the retry loop while a newer request of its
   author waits or runs, and interrupts it: `_note_same_user_latest` knows only
   earlier interrupts. It also holds one id per channel for all authors.
2. **An interrupt of a turn that has not begun is not recorded**
   (`lifecycle_unrecorded`). The task is cancelled before its first step, its
   row stays "queued", and the retry loop answers a request that was replaced.
3. **The retry loop ends** (`lifecycle_loop`). A failed fetch is awaited while
   the message is redelivered, queued and superseded: the checkpoint of the
   failure notice raises `CancelledError`, which no `except Exception` sees and
   the loop re-raises. No request is retried until the next restart.
4. **A run called missed when it is due** (`schedules_missed`). A run is put off,
   its owner moves the schedule, and the next firing still measures from the
   first try of the old time.

Seen by reading, without a run:

- `_interrupt_same_user` cancels the wait of the whole channel, so the line of
  another user may be superseded, while its docstring says that other users keep
  their place (requests.py:905). `OthersKept` exempts such lines (`cut`).
- `uninstall_plugin` calls no teardown hook and leaves plugins that depend on the
  uninstalled one running. A rollback or an uninstallation cancels background
  tasks without awaiting them, so they may still run while the hook does; so may
  event handlers that were dispatched while the teardown was under way.
- A reload that waits for the lock while the shutdown tears the plugins down loads
  them again afterwards.
- `ReplyQueue` gathers the lines that a soft entry supersedes in `entry.burst`,
  which the handler never reads, while the docstring says the turn still sees
  the exchange (message_pipeline.py:143).
- `_pending_fetch_failed` looks at `_inbound_processing` before it awaits the row
  and not after, while the comment there says that it claims the message only
  after rechecking its receipt and then retains it (recovery.py:275). A
  redelivery leaves the row as it was, so both own the message, and the first to
  end releases it for the other. The attempts may then pass their limit by one,
  and a user may be told "please try again" while the request is being answered.
  With a third message of the author, the forgotten admission may record the
  request superseded while its turn, which nobody cancels, starts an effect.
  `OneOwner` and `SupersededSilent` exempt such messages (the ghost `shared`);
  their effects still happen once: that is a theorem below.
- `update("received")` and `update("queued")` after an awaited read may reopen a
  row that was settled in between.
- The shutdown drops waiting entries without the callback that records drops.
- `end_inflight()` from inside the last running task leaves the idle event
  cleared, so the drain may wait for its full limit with nothing left to do.
- A chat turn cancelled twice in `submit()`, or a store thread that lands late,
  may leave a job's row live until the next restart.
- `retry_later()` writes without comparing and may put an old time back over one
  the owner has just set. `record()` compares times: a command that sets the very
  time the row was listed with is overwritten like no command at all.
- A tick cut off by the job timeout puts nothing off: the exception is
  `CancelledError`, which `except Exception` in `tick()` lets pass. A row whose
  call hangs at every tick is the earliest each time, and no other is fired while
  this lasts (runner.py:111-119): for the grace of an hour, after which the row is
  called missed and those behind it may be too, or longer if the Premium check
  hangs, which comes first.
- `_dispatch_reply` records the entries it drops one by one (requests.py:706-711).
  Until its record an entry is journaled "queued" and is in no queue, so a
  redelivery or the retry loop may admit it again, and its turn may then be under
  way when the record comes. The model records them together. With the two
  messages of the runs one entry at most is dropped, so they lose nothing; what
  `SupersededStaysSilent` says of three messages or more rests on it.

## 7. What is proved

All theorems hold for any values of the constants that satisfy the named
assumptions (`ConstantsAssumption`, `LifecycleAssumption`, `JobsAssumption`,
`SchedulesAssumption`, `WatchAssumption`, `PluginsAssumption`), which TLC
evaluates in the runs.

**ReplyQueueProofs.** `IInv` is the conjunction of `TypeOK`,
`OutstandingExact`, `Ownership` (reply, pump and running entry exist together),
`NoLostWakeup`, `Neatness` (a message is retained once, one soft line at most)
and `WithinLimits`. `TypeOK` is not inductive by itself: that `outstanding`
stays a natural number needs the exact count, the count of a finished turn needs
`Ownership`, and the limits need the count. Each action has a lemma. The lemmas
on queues (`QueueFilterProofs`: what `Kept` holds, keeps distinct and counts)
are cited wherever a queue is filtered. Theorems: `TypeCorrect`,
`AccountingExact` (`SlotsAccounted`: the count and the limits), `WakeupNeverLost`, `RepliesOwned`,
`Deduplicated`. They assume `IsFiniteSet(Channels)`, for the count.

**ReplyPromiseProofs.** The reply queue implements `TurnQueue`, step by step. A
queue is compared by the set of its directed messages (`Directs`) and by the order
of any two (`SameOrder`), not by a sequence: what a filter keeps, an append adds and
a replacement exchanges has a lemma for each of the two (`KeptOrder` and its
neighbours), and a step of the promise follows from them (`PromiseStep`). The same
lemmas per action give the two action properties. The inductive invariant is that
of `ReplyQueueProofs`. Theorems: `PromiseHolds` (the refinement),
`DirectedNeverLost`, `DropsAlwaysReported`.

**RequestLifecycleProofs.** `EffectsOnce` needs to know why a second turn does
not act. `IInv` adds to it and to `TypeOK`:
- `Committed`: a request for which a turn acted has its checkpoint;
- `CheckedOut`: so has the turn that is about to act;
- `Untouched`: a turn at work that has not acted is the first that may, because
  it began on a row without checkpoint and `Committed` speaks of all others;
- `Occupied` and `QueueJournaled`: tasks and entries belong to journaled
  messages, without which a checkpoint would be a no-op;
- `TurnLives`: only the retry loop can be dead.

No transaction takes a checkpoint back (`TransactionsGrow`); this is all the
proof needs of the journal, so the reopened rows and the two owners of section 6
do not matter to it. Most steps move one task and touch nothing else, which
`MovesKeep` and `StepKeeps` prove once. Interrupts, dispatch, enqueueing, begin
and perform have proofs of their own. Theorems: `TypeCorrect` (no request is
queued twice or behind its own turn), `EffectsAtMostOnce`, `EffectsCommitted`.

A second invariant, `Silent`, is about superseded requests.
- `OneOwner`: a message that is not `shared` has one task of on_message or of the
  retry loop, and that task owns it;
- `Entering`: so while it is admitted it is neither queued nor running, until its
  own task queues it. Dispatch may record its own message superseded without
  cancelling anything, and it is this that keeps it away from the running turn;
- `Unwound`: a cancelled turn only records its outcome and ends;
- `Overtaken`: a turn that is about to act and whose row is superseded is about to
  be cancelled.

`Serves` says once what a step of on_message or of the retry loop may do to all
four, `Works` what a step of the turn may do; each action is shown to be one of
the two. Theorems: `OwnedByOne` and `SupersededStaysSilent`, an action property.
Without the exemption both are false, and the attempt to prove them is what showed
it: a superseded turn that acts takes three messages, one more than
`lifecycle_effects` has.

**TaskJobsProofs.** `IInv` is `Shape`, `History` and `Records`.
- `Shape`: `TypeOK`, `ReservationsExact`, `Callers` (a task exists only once its
  `submit()` has returned, so a job is counted for one of the two, never both)
  and `Reasoned` (whoever is awaited in `cancel()` or about to be cancelled has a
  stop reason). That `active` stays a natural number needs the exact count. The
  count is the cardinality of the slots of the holders: one lemma says what
  happens to it when a holder comes, another when one goes, each by the library's
  facts on finite sets, and every action cites one of the two or that the holders
  stay.
- `History`: a message has one row at most (`Single`), a deleted user none
  (`Erasures`), a job that ran keeps its row or the row went for a reason
  (`RanOnce`, with `Lasting`), and a result sent or on its way holds the claim
  (`Posting`, with `Delivering`). The properties alone are not inductive: only
  the row of the first run keeps a second submission from inserting one.

- `Records` speaks of one job at a time. `Silent`: a cancellation in memory, in the
  table or in an abandoned call finds a job that will not post. `Faithful`: the
  delivery in the table, and the one about to be written, agree with the chat.
  `Belated`: what an abandoned store call would write is still true whenever it
  runs. `Settled`: a live row has an excuse or something that is still to update it.

Each action has a lemma for `Shape`. Most of them leave rows and results alone,
which `Steady` states once for `History`, and leave every job but one untouched,
which `Untouched` states for `Records`. Theorems: `TypeCorrect`,
`NothingLeaks`, `NeverReplayed`, `OneNotification`, `DeletionHolds`,
`CancelledPostsNothing`, `LedgerTrue`, `NothingLeftLive`.

**SchedulesProofs.** Summaries come first: what the owner's commands leave
(`Fresh`), what `fire()` (`Fired`) and `submit()` (`Answered`) may leave, and what a
store call makes of a row (`Follows`). `IInv` has five parts beside them.
- `Shape`: the types, the rows in flight (those listed and not dealt with, of
  different schedules and due) and the store calls made for them (`Good`).
- `Bounded`: `Row` bounds the failures by `MaxFailures + 2 * MaxFaults`, which needs
  an exact account: a fault that has not landed as a late call is worth two
  failures, one for the call and one for the call of a row that moved.
- `Followed`: a row in flight equals the row of the table, or its owner set a new
  time, with no failures, after the tick read its clock; or a late call was at it.
  `record()` compares times only, and this is why that comparison is enough.
- `Once`: the occurrence of a row that is on lies after the last one that was
  started, unless its start is just being recorded.
- `Timed`: the first try of a row is not later than its occurrence, and it is
  remembered until the row is given up or started.

`SchedulesAssumption` asks for `MaxFailures` above 1 (the code has 5): with 1, a row
edited while its failure is recorded would stay on with that failure. Theorems:
`TypeCorrect`, `StartsOnce`, `StartsInGrace`, `FailuresStop`, `OwnerWins`.

**WatchDebounceProofs.** `IInv` adds to `TypeOK`, `OneTimer` and
`DispatchedOnce` that a line waits only when it has been handled (`Settled`) and
not been dispatched (`Waits`), and that what was not dispatched is in no task,
queue or turn (`Undispatched`). Without them a release and a flush of the same
line could not be told apart. `OthersKept` is an action property; that its
record changes only for a message of the same author follows from who is in the
queue and who runs. Theorems: `TypeCorrect`, `TimerExact`, `OneDispatch`,
`OthersKeepTheirPlace`.

**PluginLifecycleProofs.** `IInv` is `TypeOK` and four parts.
- `History` is about loads: nothing belongs to a future load (`Bound`), what runs
  its setup is loaded (`Setting`), a loaded plugin has run and is neither to be
  torn down nor dropped (`Open`), a pending one has not run yet (`Fresh`), what is
  left to tear down was not torn down (`Left`), and a loaded plugin whose hook was
  called is in a teardown that is past it (`Hooked`). `ClosedOnce` needs all six:
  two places call hooks, and only `Open` and `Left` keep them apart.
- `Progress` is about places: a teardown has every loaded plugin before it or
  behind it, and each load is accounted for.
- `Tables` relates registrations, completed setups and tools: they differ only
  while a teardown closes plugins or for the one plugin whose setup runs.
- `Work` is about tasks: those not cancelled belong to registered plugins of this
  load, and jobs run only between operations.

Each action has a lemma, and most steps only move the operation on
(`OperationMoves`) or leave it where it is (`NothingMoves`). Theorems:
`TypeCorrect`, `NeverHalfLoaded`, `TornDownOnce`.

The order in which hooks are called plays no part in these theorems. `InOrder`
has an invariant of its own, on top of `IInv`:
- `Ordered`: what a loaded plugin needs is set up and still there, unless a
  teardown is past both (`Needed`, with `Layered` for what was loaded late); what
  waits for its hook after a rollback needs nothing that is closed or waits with it
  (`Apart`); setups run only when everything of an earlier load is closed or
  dropped (`Entered`).
- `Over`: of a plugin whose hook is due, jobs are stopped and tasks joined, stage by
  stage (`Stopped`, `Joined`), and what was cancelled without that is in `stray`
  (`Quiet`, `Cut`).

Theorem: `HooksInOrder`.

## 8. What is only model-checked

- Liveness (`DirectedServed`, `CloseReturns`, `Settled`, `ReservationFreed`,
  `CancelEnds`, `DueServed`, `Answered`): the proof system does not
  reach fairness and ENABLED.
- The findings are counterexamples of small instances, which is what they need.

## 9. Not modelled

The models cover the code in which several tasks share state. They map a small
share of the repository's lines, and most of the others have no state a model
checker could explore: tool schemas and their handlers, HTTP and Discord calls,
prompt and memory text, media conversion, rules of board games, dashboard
endpoints, configuration. `PROJECT.json` gives the reason for each. Closest to
being modelled:

- *Watermarks*: the bot keeps marks but never fetches history beyond them, so no
  request depends on them.
- *Message quota*: one immediate transaction counts and charges, and nothing is
  refunded.
- *Concurrency primitives*: `FairSemaphore` and `ChannelWorkQueues` have no user
  in the bot.
- *Drain*: its limit ends it whatever the counters say.
- *Provider fallback*: model calls have no effect a request could repeat.
- Parts left out of modelled components: journal pruning, soft chatter and
  `/maxwell` interactions in the lifecycle, edits, policy scores, the burst a
  turn is shown, reports and files of jobs, the inside of the worker engine,
  time zones and prompts of schedules.
