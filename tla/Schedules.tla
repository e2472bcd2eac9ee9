------------------------------ MODULE Schedules ------------------------------
(***************************************************************************)
(* Scheduled wake-ups of one owner: the table of plugins/schedules/store.py,*)
(* the runner of runner.py that fires due rows, and the owner's commands of *)
(* tool.py and of the dashboard.                                           *)
(*                                                                         *)
(* The runner works on the rows as they were when its tick listed them, and*)
(* the owner may change them at any await.  A store call runs in a thread  *)
(* and is one action; a tick cut off by the plugin manager's job timeout   *)
(* leaves its last call behind (late).  fire() up to submit() is one       *)
(* action: until then it reads its row, the clock of its tick and settings *)
(* only.  A command reads, checks and writes its row in one action, while  *)
(* the code awaits the store in between.  Time is counted in units; cron   *)
(* expressions are the multiples of Period, shifted.  Names, prompts, time *)
(* zones and targets are left out.                                         *)
(***************************************************************************)
EXTENDS Integers, FiniteSets

CONSTANTS
  Schedules,    \* schedule ids
  Grace,        \* GRACE_SECONDS
  RetryDelay,   \* RETRY_SECONDS
  ChannelDelay, \* CHANNEL_RETRY_SECONDS
  MaxFailures,  \* MAX_FAILURES
  MaxPerUser,   \* max_per_user()
  DueLimit,     \* limit of due(): how many rows a tick lists
  Period,       \* length of a cron period
  Crons,        \* cron expressions: shifts of the multiples of Period
  Horizon,      \* bound on the clock
  MaxEdits,     \* bound on the owner's commands
  MaxFaults     \* bound on failed store calls, cut-off ticks and restarts

ASSUME SchedulesAssumption ==
  /\ Grace \in Nat /\ Horizon \in Nat
  /\ RetryDelay \in Nat \ {0} /\ ChannelDelay \in Nat \ {0}
  /\ MaxFailures \in Nat \ {0, 1} /\ MaxPerUser \in Nat \ {0}
  /\ DueLimit \in Nat \ {0} /\ Period \in Nat \ {0}
  /\ Crons \subseteq 0..Period-1
  /\ MaxEdits \in Nat /\ MaxFaults \in Nat

VARIABLES
  table,   \* the schedules of the table
  now,     \* the clock
  first,   \* ScheduleRunner._first_try
  phase,   \* where tick() is
  tickAt,  \* now, as tick() read it
  listed,  \* the rows tick() has still to fire
  cur,     \* the row fire() works on
  write,   \* the store call the tick awaits
  late,    \* store calls of ticks that were cut off
  edits,   \* commands so far
  faults,  \* faults so far
  ran,     \* ghost: the last occurrence of each schedule that was started
  again,   \* ghost: schedules of which an occurrence was started twice
  doubt,   \* ghost: schedules a start of which went unrecorded, or whose next
           \*        run a late or an unguarded write replaced
  forgot   \* ghost: schedules whose first try was forgotten while they were due, or
           \*        that a late write put off

tick == <<phase, tickAt, listed, cur, write>>
ghosts == <<ran, again, doubt, forgot>>
vars == <<table, now, first, tick, late, edits, faults, ghosts>>

Never == -1
Times == 0..(Horizon + Period + RetryDelay + ChannelDelay)
Moments == Times \cup {Never}

\* A row; due is the occurrence its next run stands for, ver counts the
\* owner's commands.  Both are ghosts.
Row == [id : Schedules, kind : {"cron", "once"}, spec : Times, enabled : BOOLEAN,
        next : Moments, failures : 0..MaxFailures + 2 * MaxFaults, due : Moments, ver : 0..MaxEdits]

Absent == [id |-> "absent"]
Gone == [id |-> "gone"]
Present(s) == table[s] \notin {Absent, Gone}

Phases == {"idle", "rows", "submitting", "writing", "rescuing"}

\* record(), or retry_later(); row is the listed row it is made for.
Write == [op : {"record", "retry"}, row : Row, next : Moments, ran : BOOLEAN,
          failed : BOOLEAN, why : {"missed", "retrying", "other"}]
NoWrite == [op |-> "none"]

\* next_after(): the first cron time after t.
NextAfter(spec, t) == CHOOSE n \in t+1..t+Period : n % Period = spec % Period

\* Mutant: a one-time row keeps its time.
AdvanceAgain(r, t) == IF r.kind = "cron" THEN NextAfter(r.spec, t) ELSE r.spec

\* advance()
Advance(r, t) == IF r.kind = "cron" THEN NextAfter(r.spec, t) ELSE Never

Init ==
  /\ table = [s \in Schedules |-> Absent]
  /\ now = 0
  /\ first = [s \in Schedules |-> Never]
  /\ phase = "idle" /\ tickAt = 0 /\ listed = {} /\ cur = Absent /\ write = NoWrite
  /\ late = {} /\ edits = 0 /\ faults = 0
  /\ ran = [s \in Schedules |-> Never]
  /\ again = {} /\ doubt = {} /\ forgot = {}

-------------------------------------------------------------------------------
(* The owner. *)

\* What plan_cron() and plan_at() allow: a cron expression, or a time to come.
Plans ==
  {[kind |-> "cron", spec |-> p, next |-> NextAfter(p, now)] : p \in Crons}
    \cup {[kind |-> "once", spec |-> t, next |-> t] : t \in now+1..Horizon}

Command == edits < MaxEdits /\ edits' = edits + 1

\* The row of s becomes r; what was started before is another occurrence.
Commanded(s, r) ==
  /\ table' = [table EXCEPT ![s] = r]
  /\ ran' = [ran EXCEPT ![s] = Never]
  /\ UNCHANGED <<now, first, tick, late, faults, again, doubt, forgot>>

Add(s) ==
  /\ Command
  /\ table[s] = Absent
  /\ Cardinality({x \in Schedules : Present(x)}) < MaxPerUser
  /\ \E p \in Plans :
       Commanded(s, [id |-> s, kind |-> p.kind, spec |-> p.spec, enabled |-> TRUE, next |-> p.next,
                     failures |-> 0, due |-> p.next, ver |-> edits])

\* update() with a new time; the dashboard may pause in the same command.
Edit(s) ==
  /\ Command
  /\ Present(s)
  /\ \E p \in Plans, on \in BOOLEAN :
       Commanded(s, [table[s] EXCEPT !.kind = p.kind, !.spec = p.spec, !.next = p.next, !.due = p.next,
                                     !.enabled = on, !.ver = edits,
                                     !.failures = IF on THEN 0 ELSE @])

Pause(s) ==
  /\ Command
  /\ Present(s) /\ table[s].enabled
  /\ Commanded(s, [table[s] EXCEPT !.enabled = FALSE, !.ver = edits])

\* A one-time run in the past is not resumed.
Resume(s) ==
  /\ Command
  /\ Present(s)
  /\ LET n == IF table[s].kind = "cron" THEN NextAfter(table[s].spec, now) ELSE table[s].spec
     IN /\ n > now
        /\ Commanded(s, [table[s] EXCEPT !.enabled = TRUE, !.next = n, !.due = n,
                                         !.failures = 0, !.ver = edits])

\* delete() and, for privacy, delete_user(): the id is not drawn again.
Delete(s) ==
  /\ Command
  /\ Present(s)
  /\ Commanded(s, Gone)

-------------------------------------------------------------------------------
(* The store, for the runner. *)

Due(s) == Present(s) /\ table[s].enabled /\ table[s].next # Never /\ table[s].next <= now

\* Mutants: record() resumes a row without a next run, and one that was paused.
RecordedEnabled(c, w) ==
  LET same == c.next = w.row.next /\ c.enabled
      r == IF same THEN [c EXCEPT !.next = w.next, !.due = IF w.why = "retrying" THEN @ ELSE w.next] ELSE c
  IN [r EXCEPT !.failures = IF w.ran THEN 0 ELSE IF w.failed THEN @ + 1 ELSE @]

RecordedOver(c, w) ==
  LET same == c.next = w.row.next
      r == IF same THEN [c EXCEPT !.next = w.next, !.enabled = w.next # Never,
                                  !.due = IF w.why = "retrying" THEN @ ELSE w.next]
                   ELSE c
  IN [r EXCEPT !.failures = IF w.ran THEN 0 ELSE IF w.failed THEN @ + 1 ELSE @]

\* record(): a row that was paused or moved since it was listed keeps its time.
Recorded(c, w) ==
  LET same == c.next = w.row.next /\ c.enabled
      r == IF same THEN [c EXCEPT !.next = w.next, !.enabled = w.next # Never,
                                  !.due = IF w.why = "retrying" THEN @ ELSE w.next]
                   ELSE c
  IN [r EXCEPT !.failures = IF w.ran THEN 0 ELSE IF w.failed THEN @ + 1 ELSE @]

\* retry_later()
Deferred(c, w) == [c EXCEPT !.next = w.next]

\* Store call w runs.
Apply(w) ==
  LET s == w.row.id
  IN IF ~Present(s) THEN UNCHANGED <<table, doubt>>
     ELSE /\ table' = [table EXCEPT ![s] = IF w.op = "record" THEN Recorded(@, w) ELSE Deferred(@, w)]
          /\ doubt' = IF w.op = "retry" /\ table[s].next # w.row.next THEN doubt \cup {s} ELSE doubt

-------------------------------------------------------------------------------
(* The runner. *)

DueNow == {s \in Schedules : Due(s)}

\* due() lists all that is due, or the DueLimit rows that are due longest.
Listable(L) ==
  /\ L \subseteq DueNow /\ Cardinality(L) <= DueLimit
  /\ L = DueNow \/ Cardinality(L) = DueLimit
  /\ \A s \in L, x \in DueNow \ L : table[s].next <= table[x].next

TickStarts ==
  /\ phase = "idle" /\ DueNow # {}
  /\ phase' = "rows" /\ tickAt' = now
  /\ \E L \in SUBSET DueNow : Listable(L) /\ listed' = {table[s] : s \in L}
  /\ UNCHANGED <<table, now, first, cur, write, late, edits, faults, ghosts>>

\* The tick returns, raises or is cut off.
Stopped == phase' = "idle" /\ tickAt' = 0 /\ listed' = {} /\ cur' = Absent /\ write' = NoWrite

TickEnds ==
  /\ phase = "rows" /\ listed = {}
  /\ Stopped
  /\ UNCHANGED <<table, now, first, late, edits, faults, ghosts>>

Await(w, p) == write' = w /\ phase' = p

\* Mutant: one failure too many.
ExhaustedLate(r) == r.failures >= MaxFailures

\* The failure about to be recorded is the last one allowed.
Exhausted(r) == r.failures + 1 >= MaxFailures

\* _finish() forgets the first try and records the next run.
Finish(r, ranIt, failed, pause, why) ==
  /\ first' = [first EXCEPT ![r.id] = Never]
  /\ Await([op |-> "record", row |-> r, ran |-> ranIt, failed |-> failed, why |-> why,
            next |-> IF pause \/ (failed /\ Exhausted(r)) THEN Never
                     ELSE Advance(r, tickAt)], "writing")

\* Mutant: the row is put off to the time it has.
RetryLaterInPlace(r, delay) ==
  [op |-> "retry", row |-> r, next |-> r.next, ran |-> FALSE, failed |-> FALSE, why |-> "retrying"]

RetryLater(r, delay) ==
  [op |-> "retry", row |-> r, next |-> tickAt + delay, ran |-> FALSE, failed |-> FALSE, why |-> "retrying"]

\* Mutant: only the latest try counts.
SinceRetry(r) == r.next

\* The time of the first try: _first_try.setdefault().
Since(r) == IF first[r.id] = Never THEN r.next ELSE first[r.id]

\* fire() up to submit(), for the row of the list that was due first.
Fire(r) ==
  LET tried == first' = [first EXCEPT ![r.id] = Since(r)]
      onTime == tickAt - Since(r) <= Grace
  IN /\ phase = "rows" /\ r \in listed /\ \A q \in listed : r.next <= q.next
     /\ cur' = r /\ listed' = listed \ {r}
     /\ \/ Finish(r, FALSE, FALSE, TRUE, "other")                     \* no Premium
        \/ ~onTime /\ Finish(r, FALSE, FALSE, FALSE, "missed")
        \/ onTime /\ Finish(r, FALSE, FALSE, FALSE, "other")          \* switched off, daily limit
        \/ onTime /\ Finish(r, FALSE, TRUE, FALSE, "other")           \* no workers
        \/ onTime /\ Finish(r, FALSE, TRUE, TRUE, "other")            \* channel gone, or too many failures
        \/ /\ onTime /\ ~Exhausted(r) /\ tried         \* Discord did not answer
           /\ Await([op |-> "record", row |-> r, ran |-> FALSE, failed |-> TRUE, why |-> "retrying",
                     next |-> tickAt + ChannelDelay], "writing")
        \/ onTime /\ tried /\ phase' = "submitting" /\ UNCHANGED write
     /\ UNCHANGED <<table, now, tickAt, late, edits, faults, ghosts>>

\* submit() starts the job, finds the user or the workers busy, or refuses.
Submitted ==
  /\ phase = "submitting"
  /\ \/ /\ Finish(cur, TRUE, FALSE, FALSE, "other")
        /\ again' = IF ran[cur.id] = cur.due THEN again \cup {cur.id} ELSE again
        /\ ran' = [ran EXCEPT ![cur.id] = cur.due]
     \/ Await(RetryLater(cur, RetryDelay), "writing") /\ UNCHANGED <<first, again, ran>>
     \/ Finish(cur, FALSE, TRUE, FALSE, "other") /\ UNCHANGED <<again, ran>>
  /\ UNCHANGED <<table, now, tickAt, listed, cur, late, edits, faults, doubt, forgot>>

Written ==
  /\ phase \in {"writing", "rescuing"}
  /\ Apply(write)
  /\ phase' = "rows" /\ cur' = Absent /\ write' = NoWrite
  /\ UNCHANGED <<now, first, tickAt, listed, late, edits, faults, ran, again, forgot>>

-------------------------------------------------------------------------------
(* Faults. *)

Fault == faults < MaxFaults /\ faults' = faults + 1

\* The write of a start, or of a row whose first try is forgotten, is lost, or
\* comes too late.
Unrecorded ==
  /\ doubt' = IF write # NoWrite /\ (write.ran \/ late' # late) THEN doubt \cup {cur.id} ELSE doubt
  /\ forgot' = IF write # NoWrite /\ (first[cur.id] = Never \/ late' # late)
                 THEN forgot \cup {cur.id} ELSE forgot

\* A store call or submit() raises: tick() tries the row again later.
CallFails ==
  /\ Fault
  /\ phase \in {"submitting", "writing"}
  /\ Await(RetryLater(cur, ChannelDelay), "rescuing")
  /\ UNCHANGED <<table, now, first, tickAt, listed, cur, late, edits, ran, again>>
  /\ Unrecorded

\* The tick ends early: that call raises too, or the job timeout cancels the tick,
\* and its store call runs any time later.
TickCutOff ==
  /\ Fault
  /\ phase # "idle"
  /\ Stopped
  /\ late' \in {late, late \cup ({write} \ {NoWrite})}
  /\ Unrecorded
  /\ UNCHANGED <<table, now, first, edits, ran, again>>

LateWrite ==
  /\ \E w \in late : Apply(w) /\ late' = late \ {w}
  /\ UNCHANGED <<now, first, tick, edits, faults, ran, again, forgot>>

\* A restart: what the runner remembers is lost.
Crash ==
  /\ Fault
  /\ Stopped
  /\ late' = {}
  /\ first' = [s \in Schedules |-> Never]
  /\ doubt' = doubt \cup {s \in Schedules : write # NoWrite /\ write.ran /\ s = cur.id}
  /\ forgot' = forgot \cup {s \in Schedules : first[s] # Never \/ (cur # Absent /\ s = cur.id)}
  /\ UNCHANGED <<table, now, edits, ran, again>>

Clock ==
  /\ now < Horizon
  /\ now' = now + 1
  /\ UNCHANGED <<table, first, tick, late, edits, faults, ghosts>>

-------------------------------------------------------------------------------
Runs == TickStarts \/ TickEnds \/ (\E r \in listed : Fire(r)) \/ Submitted \/ Written

Next ==
  \/ \E s \in Schedules : Add(s) \/ Edit(s) \/ Pause(s) \/ Resume(s) \/ Delete(s)
  \/ Runs
  \/ CallFails \/ TickCutOff \/ LateWrite \/ Crash \/ Clock

\* The plugin manager calls tick() again and again, and the job timeout ends
\* what hangs.
Spec == Init /\ [][Next]_vars /\ WF_vars(Runs)

-------------------------------------------------------------------------------
(* Properties. *)

\* Enabled rows have a next run: a row without one would never fire nor be
\* reported again.
TypeOK ==
  /\ table \in [Schedules -> Row \cup {Absent, Gone}]
  /\ \A s \in Schedules : Present(s) /\ table[s].enabled => table[s].next # Never
  /\ now \in 0..Horizon
  /\ first \in [Schedules -> Moments]
  /\ phase \in Phases /\ tickAt \in 0..Horizon
  /\ listed \in SUBSET Row
  /\ cur \in IF phase \in {"idle", "rows"} THEN {Absent} ELSE Row
  /\ write \in IF phase \in {"writing", "rescuing"} THEN Write ELSE {NoWrite}
  /\ late \in SUBSET Write
  /\ edits \in 0..MaxEdits /\ faults \in 0..MaxFaults
  /\ ran \in [Schedules -> Moments]
  /\ again \in SUBSET Schedules /\ doubt \in SUBSET Schedules /\ forgot \in SUBSET Schedules

\* One occurrence of a schedule starts one job, over retries, edits in the
\* middle of a firing and stale lists, unless the record of the start was lost
\* or cut off, or an unguarded retry_later() replaced a newer time.
OncePerDue == again \subseteq doubt

\* "skip the run rather than fire a good morning at 3pm": a job starts at most
\* Grace after its occurrence was due, however often it was put off, unless the
\* runner was made to forget the first try.
GraceKept ==
  phase = "writing" /\ write.ran => tickAt - cur.due <= Grace \/ cur.id \in forgot

\* A schedule that fails MaxFailures times in a row is paused, whatever the owner
\* does meanwhile, unless a store call of it was lost or came late.
FailuresPause ==
  \A s \in Schedules : Present(s) /\ table[s].enabled => table[s].failures < MaxFailures \/ s \in forgot

\* The store calls that a step executes.
Done == (IF Written THEN {write} ELSE {}) \cup (IF LateWrite THEN late \ late' ELSE {})

\* "Someone rescheduled or paused it while we were firing: keep their
\* next_run/enabled": record() never changes the time of a row its owner has
\* changed since the row was listed, nor resumes it, also when it comes late,
\* unless an unguarded retry_later() has put the listed time back.
EditKept ==
  [][\A w \in Done :
       w.op = "record" /\ Present(w.row.id) /\ table[w.row.id].ver # w.row.ver
         /\ w.row.id \notin doubt
       => /\ table'[w.row.id].next = table[w.row.id].next
          /\ table'[w.row.id].enabled = table[w.row.id].enabled]_vars

\* A due schedule is dealt with: it is started, put off, skipped or paused, also
\* when rows that were due before it fill the tick, fail or cut it off, once that
\* ends: faults are limited.  A row whose call hung at every tick would be first
\* again each time, and those behind it would wait as long (until it is called
\* missed, if fire() gets so far).
DueServed == \A s \in Schedules : Due(s) ~> ~Due(s)

\* "Bot was down or the user's worker slot stayed busy this long: skip the run":
\* a run is called missed only when it is more than Grace late.
MissedOnlyLate ==
  phase = "writing" /\ write.why = "missed" => tickAt - cur.due > Grace
===============================================================================
