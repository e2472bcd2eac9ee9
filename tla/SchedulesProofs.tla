--------------------------- MODULE SchedulesProofs ---------------------------
(***************************************************************************)
(* Theorems about Schedules, for any schedules, delays, limits and bounds. *)
(*                                                                         *)
(* The inductive invariant IInv has these parts.                           *)
(*   Shape         the types, the rows in flight and the store calls made  *)
(*                 for them                                                *)
(*   Bounded       how many failures the faults so far can have added      *)
(*   Followed      a row in flight is the row of the table, unless its     *)
(*                 owner set a new time or a late store call was at it     *)
(*   FailuresPause as the run checks it                                    *)
(*   Once          a row's occurrence lies after the last one started      *)
(*   Timed         the first try is remembered until the row is done with  *)
(***************************************************************************)
EXTENDS Schedules, FiniteSetTheorems, TLAPS

USE SchedulesAssumption

-----------------------------------------------------------------------------
(* Cron times.                                                              *)

LEMMA SmallMultiple ==
  ASSUME NEW p \in Nat \ {0}, NEW k \in Int, -p < p * k, p * k < p
  PROVE  k = 0
<1>1. CASE k >= 1
  <2>1. p * k >= p
    BY <1>1
  <2> QED BY <2>1
<1>2. CASE k <= -1
  <2>1. p * k <= -p
    BY <1>2
  <2> QED BY <2>1
<1> QED BY <1>1, <1>2

LEMMA Shifted ==
  ASSUME NEW p \in Nat \ {0}, NEW x \in Int, NEW q \in Int
  PROVE  (x + p * q) % p = x % p
<1> DEFINE y == x + p * q
           a == x \div p
           b == y \div p
           k == b - a - q
<1>1. a \in Int /\ b \in Int /\ y \in Int /\ p * q \in Int
  OBVIOUS
<1>2. x = p * a + (x % p) /\ x % p \in 0 .. p - 1
  OBVIOUS
<1>3. y = p * b + (y % p) /\ y % p \in 0 .. p - 1
  BY <1>1
<1>4. p * k = p * b - p * a - p * q
  BY <1>1
<1>5. (x % p) - (y % p) = p * k
  BY <1>1, <1>2, <1>3, <1>4
<1>6. k \in Int /\ -p < p * k /\ p * k < p
  BY <1>1, <1>2, <1>3, <1>5
<1>7. k = 0
  <2> HIDE DEF k
  <2> QED BY <1>6, SmallMultiple
<1> QED BY <1>1, <1>2, <1>3, <1>5, <1>7

\* A cron schedule has a next run, after t and within a period.
LEMMA NextAfterRange ==
  ASSUME NEW spec \in Nat, NEW t \in Nat
  PROVE  NextAfter(spec, t) \in t+1 .. t+Period
<1> DEFINE x == spec - t - 1
           q == x \div Period
           n == spec + Period * (-q)
<1>1. x = Period * q + (x % Period) /\ x % Period \in 0 .. Period - 1 /\ q \in Int
  OBVIOUS
<1>2. Period * (-q) = -(Period * q) /\ Period * q \in Int
  BY <1>1
<1>3. n \in t+1 .. t+Period
  BY <1>1, <1>2
<1>4. n % Period = spec % Period
  <2>1. spec \in Int /\ -q \in Int /\ Period \in Nat \ {0}
    BY <1>1
  <2> HIDE DEF q
  <2> QED BY <2>1, Shifted
<1> HIDE DEF n
<1>5. \E m \in t+1 .. t+Period : m % Period = spec % Period
  BY <1>3, <1>4
<1> QED BY <1>5 DEF NextAfter

LEMMA TimesRange ==
  /\ Never \in Moments /\ Never \notin Times /\ Times \subseteq Moments /\ Times \subseteq Nat
  /\ 0 .. Horizon \subseteq Times
  /\ \A t \in Moments : t = Never \/ t \in Nat
  /\ \A t \in Moments : t \in Int /\ t >= Never
  BY DEF Times, Moments, Never

LEMMA NextAfterTime ==
  ASSUME NEW spec \in Times, NEW t \in 0 .. Horizon
  PROVE  NextAfter(spec, t) \in Times /\ NextAfter(spec, t) > t
<1>1. spec \in Nat /\ t \in Nat
  BY TimesRange
<1>2. NextAfter(spec, t) \in t+1 .. t+Period
  BY <1>1, NextAfterRange
<1> QED BY <1>1, <1>2 DEF Times

-----------------------------------------------------------------------------
(* Rows and what a store call makes of them.                                *)

\* record() finds the time it was made for.
Matches(c, w) == c.next = w.row.next /\ c.enabled

LEMMA RowFields ==
  ASSUME NEW r \in Row
  PROVE  /\ r.id \in Schedules /\ r.kind \in {"cron", "once"} /\ r.spec \in Times /\ r.enabled \in BOOLEAN
         /\ r.next \in Moments /\ r.due \in Moments /\ r.failures \in 0..MaxFailures + 2 * MaxFaults
         /\ r.ver \in 0..MaxEdits
  BY DEF Row

LEMMA RecordedRow ==
  ASSUME NEW c \in Row, NEW w \in Write
  PROVE  /\ Recorded(c, w).id = c.id /\ Recorded(c, w).ver = c.ver
         /\ Matches(c, w) =>
              /\ Recorded(c, w).next = w.next /\ Recorded(c, w).enabled = (w.next # Never)
              /\ Recorded(c, w).due = IF w.why = "retrying" THEN c.due ELSE w.next
         /\ ~Matches(c, w) =>
              /\ Recorded(c, w).next = c.next /\ Recorded(c, w).enabled = c.enabled
              /\ Recorded(c, w).due = c.due
         /\ Recorded(c, w).failures = IF w.ran THEN 0 ELSE IF w.failed THEN c.failures + 1 ELSE c.failures
         /\ Recorded(c, w).failures <= MaxFailures + 2 * MaxFaults => Recorded(c, w) \in Row
<1> DEFINE due == IF w.why = "retrying" THEN c.due ELSE w.next
           r == IF Matches(c, w) THEN [c EXCEPT !.next = w.next, !.enabled = w.next # Never, !.due = due] ELSE c
           f == IF w.ran THEN 0 ELSE IF w.failed THEN c.failures + 1 ELSE c.failures
<1>1. Recorded(c, w) = [r EXCEPT !.failures = f]
  <2>1. r.failures = c.failures 
    BY RowFields DEF Row
  <2> QED BY <2>1 DEF Recorded, Matches
<1>2. w.next \in Moments /\ due \in Moments /\ f \in Nat
  BY RowFields DEF Write
<1>3. /\ r \in Row /\ r.id = c.id /\ r.ver = c.ver
      /\ Matches(c, w) => r.next = w.next /\ r.enabled = (w.next # Never) /\ r.due = due
      /\ ~Matches(c, w) => r.next = c.next /\ r.enabled = c.enabled /\ r.due = c.due
  <2>1. CASE Matches(c, w)
    <3>1. r = [c EXCEPT !.next = w.next, !.enabled = w.next # Never, !.due = due]
      BY <2>1
    <3> HIDE DEF due, r
    <3> QED BY <1>2, <2>1, <3>1 DEF Row
  <2>2. CASE ~Matches(c, w)
    BY <2>2
  <2> QED BY <2>1, <2>2
<1> HIDE DEF r, f
<1>4. /\ Recorded(c, w).id = r.id /\ Recorded(c, w).ver = r.ver /\ Recorded(c, w).next = r.next
      /\ Recorded(c, w).enabled = r.enabled /\ Recorded(c, w).due = r.due
      /\ Recorded(c, w).failures = f
      /\ f <= MaxFailures + 2 * MaxFaults => Recorded(c, w) \in Row
  BY <1>1, <1>2, <1>3 DEF Row
<1> QED BY <1>3, <1>4 DEF f

LEMMA DeferredRow ==
  ASSUME NEW c \in Row, NEW w \in Write
  PROVE  /\ Deferred(c, w) \in Row
         /\ Deferred(c, w).id = c.id /\ Deferred(c, w).ver = c.ver /\ Deferred(c, w).next = w.next
         /\ Deferred(c, w).enabled = c.enabled /\ Deferred(c, w).due = c.due
         /\ Deferred(c, w).failures = c.failures
<1>1. w.next \in Moments
  BY DEF Write
<1> QED BY <1>1 DEF Deferred, Row

LEMMA NoRow ==
  ASSUME NEW r \in Row
  PROVE  r # Absent /\ r # Gone
  BY DEF Row, Absent, Gone

LEMMA WriteFields ==
  ASSUME NEW w \in Write
  PROVE  /\ w.op \in {"record", "retry"} /\ w.row \in Row /\ w.next \in Moments
         /\ w.ran \in BOOLEAN /\ w.failed \in BOOLEAN /\ w.why \in {"missed", "retrying", "other"}
         /\ w # NoWrite
  BY DEF Write, NoWrite

\* Row d is what store call w makes of row c.
Follows(c, d, w) ==
  /\ d.id = c.id /\ d.ver = c.ver
  /\ w.op = "retry" => /\ d.next = w.next /\ d.enabled = c.enabled /\ d.due = c.due
                       /\ d.failures = c.failures
  /\ w.op = "record" /\ Matches(c, w) =>
       /\ d.next = w.next /\ d.enabled = (w.next # Never)
       /\ d.due = IF w.why = "retrying" THEN c.due ELSE w.next
  /\ w.op = "record" /\ ~Matches(c, w) => d.next = c.next /\ d.enabled = c.enabled /\ d.due = c.due
  /\ w.op = "record" => d.failures = IF w.ran THEN 0 ELSE IF w.failed THEN c.failures + 1 ELSE c.failures

-----------------------------------------------------------------------------
(* The tick, its rows and its store calls.                                  *)

Busy == phase \in {"submitting", "writing", "rescuing"}

\* The listed rows that the tick has still to deal with.
Flight == listed \cup (IF Busy THEN {cur} ELSE {})
Flown(s) == \E r \in Flight : r.id = s

\* A store call that fire() or tick() makes for row r, at clock t.
Good(w, r, t) ==
  /\ w \in Write /\ w.row = r
  /\ w.next = Never \/ w.next > t
  /\ w.op = "retry" => w.next # Never /\ ~w.ran /\ ~w.failed /\ w.why = "retrying"
  /\ w.failed => ~w.ran /\ (w.next # Never => r.failures + 1 < MaxFailures)
  /\ w.ran => w.why = "other"

\* The table but for the failures, which Bounded limits.
Rows ==
  /\ table \in [Schedules -> Row \cup {Absent, Gone}]
  /\ \A s \in Schedules : Present(s) => table[s].id = s
  /\ \A s \in Schedules : Present(s) /\ table[s].enabled => table[s].next # Never

Clocks ==
  /\ now \in 0 .. Horizon /\ tickAt \in 0 .. Horizon /\ tickAt <= now
  /\ first \in [Schedules -> Moments]
  /\ \A s \in Schedules : first[s] <= now /\ (phase # "idle" => first[s] <= tickAt)

\* The rows in flight are of different schedules, and they were due.
Rounds ==
  /\ phase \in Phases
  /\ listed \in SUBSET Row /\ (phase = "idle" => listed = {})
  /\ Busy => cur \in Row
  /\ ~Busy => cur = Absent
  /\ \A q, r \in listed : q.id = r.id => q = r
  /\ Busy => \A q \in listed : q.id # cur.id
  /\ \A r \in Flight : r.enabled /\ r.next # Never /\ r.next <= tickAt

Called ==
  /\ phase \in {"writing", "rescuing"} => Good(write, cur, tickAt)
  /\ phase \notin {"writing", "rescuing"} => write = NoWrite
  /\ phase = "rescuing" => write.op = "retry"
  /\ late \in SUBSET Write
  /\ \A w \in late : /\ w.op = "retry" => w.next # Never
                     /\ w.row.id \in doubt /\ w.row.id \in forgot

Counts ==
  /\ edits \in 0 .. MaxEdits /\ faults \in 0 .. MaxFaults
  /\ ran \in [Schedules -> Moments]
  /\ again \in SUBSET Schedules /\ doubt \in SUBSET Schedules /\ forgot \in SUBSET Schedules

Shape == Rows /\ Clocks /\ Rounds /\ Called /\ Counts

LEMMA ShapeTyped == Shape => TypeOK
<1> SUFFICES ASSUME Shape PROVE TypeOK
  OBVIOUS
<1>1. cur \in IF phase \in {"idle", "rows"} THEN {Absent} ELSE Row
  BY DEF Shape, Rounds, Busy, Phases
<1>2. write \in IF phase \in {"writing", "rescuing"} THEN Write ELSE {NoWrite}
  BY DEF Shape, Called, Good
<1> QED BY <1>1, <1>2 DEF Shape, Rows, Clocks, Rounds, Called, Counts, TypeOK

\* The owner's commands leave the row gone, off, or on with a fresh time.
Fresh(s, r) ==
  \/ r = Gone
  \/ /\ r \in Row /\ r.id = s /\ r.ver = edits
     /\ r.enabled => r.next = r.due /\ r.next > now /\ r.failures = 0
     /\ ~r.enabled => Present(s) /\ r.failures = table[s].failures

Owned(s) ==
  /\ \E r \in Row \cup {Gone} : Fresh(s, r) /\ Commanded(s, r)
  /\ edits' \in 0 .. MaxEdits

\* What update() and resume() make of row c.
EditedRow(c, k, spec, n, on, v, f) ==
  [c EXCEPT !.kind = k, !.spec = spec, !.next = n, !.due = n, !.enabled = on, !.ver = v, !.failures = f]

LEMMA EditRow ==
  ASSUME NEW c \in Row, NEW k \in {"cron", "once"}, NEW spec \in Times, NEW n \in Moments,
         NEW on \in BOOLEAN, NEW v \in 0 .. MaxEdits, NEW f \in 0 .. MaxFailures + 2 * MaxFaults
  PROVE  LET r == EditedRow(c, k, spec, n, on, v, f)
         IN /\ r \in Row /\ r.id = c.id /\ r.ver = v /\ r.enabled = on /\ r.next = n /\ r.due = n
            /\ r.failures = f
  BY DEF Row, EditedRow

ResumedRow(c, n, v, f) ==
  [c EXCEPT !.enabled = TRUE, !.next = n, !.due = n, !.failures = f, !.ver = v]

LEMMA ResumeRow ==
  ASSUME NEW c \in Row, NEW n \in Moments, NEW v \in 0 .. MaxEdits,
         NEW f \in 0 .. MaxFailures + 2 * MaxFaults
  PROVE  LET r == ResumedRow(c, n, v, f)
         IN /\ r \in Row /\ r.id = c.id /\ r.ver = v /\ r.enabled /\ r.next = n /\ r.due = n
            /\ r.failures = f
  BY DEF Row, ResumedRow

LEMMA OwnerSteps ==
  ASSUME Shape, NEW s \in Schedules, Add(s) \/ Edit(s) \/ Pause(s) \/ Resume(s) \/ Delete(s)
  PROVE  Owned(s)
<1>1. edits \in 0 .. MaxEdits /\ edits' \in 0 .. MaxEdits
  <2>1. Command
    BY DEF Add, Edit, Pause, Resume, Delete
  <2> QED BY <2>1 DEF Shape, Counts, Command
<1>2. now \in 0 .. Horizon /\ now \in Nat
  BY DEF Shape, Clocks
<1>3. \A p \in Plans : /\ p.kind \in {"cron", "once"} /\ p.spec \in Times
                       /\ p.next \in Times /\ p.next > now
  <2>1. \A p \in Crons : p \in Times
    BY DEF Times
  <2>2. \A p \in Crons : NextAfter(p, now) \in Times /\ NextAfter(p, now) > now
    BY <1>2, <2>1, NextAfterTime
  <2>3. \A t \in now+1 .. Horizon : t \in Times /\ t > now
    BY <1>2 DEF Times
  <2> QED BY <2>1, <2>2, <2>3 DEF Plans
<1>4. Present(s) => table[s] \in Row /\ table[s].id = s
  BY DEF Shape, Rows, Present
<1>5. MaxFailures + 2 * MaxFaults \in Nat /\ Times \subseteq Moments
  BY TimesRange
<1>6. CASE Add(s)
  <2>1. PICK p \in Plans :
          Commanded(s, [id |-> s, kind |-> p.kind, spec |-> p.spec, enabled |-> TRUE, next |-> p.next,
                        failures |-> 0, due |-> p.next, ver |-> edits])
    BY <1>6 DEF Add
  <2> DEFINE r == [id |-> s, kind |-> p.kind, spec |-> p.spec, enabled |-> TRUE, next |-> p.next,
                   failures |-> 0, due |-> p.next, ver |-> edits]
  <2>2. r \in Row
    BY <1>1, <1>3, <1>5 DEF Row
  <2>3. Fresh(s, r)
    BY <1>3, <2>2 DEF Fresh
  <2> QED BY <1>1, <2>1, <2>2, <2>3 DEF Owned
<1>7. CASE Edit(s)
  <2>1. PICK p \in Plans, on \in BOOLEAN :
          Commanded(s, [table[s] EXCEPT !.kind = p.kind, !.spec = p.spec, !.next = p.next, !.due = p.next,
                                        !.enabled = on, !.ver = edits,
                                        !.failures = IF on THEN 0 ELSE @])
    BY <1>7 DEF Edit
  <2> DEFINE f == IF on THEN 0 ELSE table[s].failures
             r == EditedRow(table[s], p.kind, p.spec, p.next, on, edits, f)
  <2>2. Present(s) /\ table[s] \in Row
    BY <1>4, <1>7 DEF Edit
  <2>3. f \in 0 .. MaxFailures + 2 * MaxFaults
    BY <1>5, <2>2, RowFields
  <2>4. Commanded(s, r)
    BY <2>1, <2>2 DEF Row, EditedRow
  <2>5. p.kind \in {"cron", "once"} /\ p.spec \in Times /\ p.next \in Moments
    BY <1>3, <1>5
  <2>7. /\ r \in Row /\ r.id = table[s].id /\ r.ver = edits /\ r.enabled = on /\ r.next = p.next
        /\ r.due = p.next /\ r.failures = f
    <3> HIDE DEF f
    <3> QED BY <1>1, <2>2, <2>3, <2>5, EditRow
  <2> HIDE DEF r
  <2>8. Fresh(s, r)
    BY <1>3, <1>4, <2>2, <2>7 DEF Fresh
  <2> QED BY <1>1, <2>4, <2>7, <2>8 DEF Owned
<1>8. CASE Pause(s)
  <2> DEFINE r == [table[s] EXCEPT !.enabled = FALSE, !.ver = edits]
  <2>1. Present(s) /\ table[s] \in Row /\ Commanded(s, r)
    BY <1>4, <1>8 DEF Pause
  <2>2. r \in Row /\ r.id = s /\ r.ver = edits /\ ~r.enabled /\ r.failures = table[s].failures
    BY <1>1, <1>4, <2>1 DEF Row
  <2> HIDE DEF r
  <2>3. Fresh(s, r)
    BY <2>1, <2>2 DEF Fresh
  <2> QED BY <1>1, <2>1, <2>2, <2>3 DEF Owned
<1>9. CASE Resume(s)
  <2> DEFINE n == IF table[s].kind = "cron" THEN NextAfter(table[s].spec, now) ELSE table[s].spec
             zero == 0
             r == ResumedRow(table[s], n, edits, zero)
  <2>1. Present(s) /\ table[s] \in Row /\ n > now /\ Commanded(s, r)
    BY <1>4, <1>9 DEF Resume, ResumedRow
  <2>2. table[s].spec \in Times
    BY <2>1, RowFields
  <2>3. n \in Moments
    BY <1>2, <1>5, <2>2, NextAfterTime
  <2>6. zero \in 0 .. MaxFailures + 2 * MaxFaults
    BY <1>5
  <2> HIDE DEF n, zero
  <2>4. /\ r \in Row /\ r.id = table[s].id /\ r.ver = edits /\ r.enabled /\ r.next = n /\ r.due = n
        /\ r.failures = zero
    BY <1>1, <2>1, <2>3, <2>6, ResumeRow
  <2> HIDE DEF r
  <2>5. Fresh(s, r)
    BY <1>4, <2>1, <2>4 DEF Fresh, zero
  <2> QED BY <1>1, <2>1, <2>4, <2>5 DEF Owned
<1>10. CASE Delete(s)
  <2>1. Commanded(s, Gone) /\ Fresh(s, Gone)
    BY <1>10 DEF Delete, Fresh
  <2> QED BY <1>1, <2>1 DEF Owned
<1> QED BY <1>6, <1>7, <1>8, <1>9, <1>10

-----------------------------------------------------------------------------
(* What the steps of the runner do.                                         *)

\* The schedule of row r is told apart: nothing was tried for it, or since t.
Tried(r, t) == first' = [first EXCEPT ![r.id] = t]

LEMMA FinishGood ==
  ASSUME NEW r \in Row, tickAt \in 0 .. Horizon,
         NEW ranIt \in BOOLEAN, NEW failed \in BOOLEAN, NEW pause \in BOOLEAN,
         NEW why \in {"missed", "other"}, ranIt => ~failed /\ why = "other",
         Finish(r, ranIt, failed, pause, why)
  PROVE  /\ phase' = "writing" /\ Good(write', r, tickAt) /\ Tried(r, Never)
         /\ write'.op = "record" /\ write'.ran = ranIt /\ write'.why = why
<1> DEFINE n == IF pause \/ (failed /\ Exhausted(r)) THEN Never ELSE Advance(r, tickAt)
           w == [op |-> "record", row |-> r, ran |-> ranIt, failed |-> failed, why |-> why, next |-> n]
<1>1. phase' = "writing" /\ write' = w /\ Tried(r, Never)
  BY DEF Finish, Await, Tried
<1>2. r.spec \in Times /\ r.failures \in Int
  BY RowFields
<1>3. n \in Moments /\ (n = Never \/ n > tickAt)
  <2>1. Never \in Moments /\ Times \subseteq Moments
    BY TimesRange
  <2>2. NextAfter(r.spec, tickAt) \in Times /\ NextAfter(r.spec, tickAt) > tickAt
    BY <1>2, NextAfterTime
  <2> QED BY <2>1, <2>2 DEF Advance
<1>4. failed /\ n # Never => r.failures + 1 < MaxFailures
  BY <1>2 DEF Exhausted
<1> HIDE DEF n
<1>5. w \in Write
  BY <1>3 DEF Write
<1>6. Good(w, r, tickAt)
  BY <1>3, <1>4, <1>5 DEF Good
<1> QED BY <1>1, <1>6

LEMMA RetryGood ==
  ASSUME NEW r \in Row, tickAt \in 0 .. Horizon, NEW d \in {RetryDelay, ChannelDelay}
  PROVE  Good(RetryLater(r, d), r, tickAt) /\ RetryLater(r, d).op = "retry"
<1>1. tickAt + d \in Times /\ tickAt + d > tickAt
  BY DEF Times
<1>2. tickAt + d \in Moments /\ tickAt + d # Never
  BY <1>1, TimesRange
<1> DEFINE n == tickAt + d
<1> HIDE DEF n
<1>3. RetryLater(r, d) = [op |-> "retry", row |-> r, next |-> n, ran |-> FALSE, failed |-> FALSE, why |-> "retrying"]
  BY DEF RetryLater, n
<1>4. n \in Moments /\ n # Never /\ n > tickAt
  BY <1>1, <1>2 DEF n
<1> QED BY <1>3, <1>4 DEF Good, Write

\* fire() for row r: it gives up, reports that Discord did not answer, or submits.
Fired(r) ==
  /\ phase = "rows" /\ r \in listed /\ cur' = r /\ listed' = listed \ {r}
  /\ \/ phase' = "submitting" /\ write' = write /\ Tried(r, Since(r)) /\ tickAt - Since(r) <= Grace
     \/ /\ phase' = "writing" /\ Good(write', r, tickAt) /\ write'.op = "record" /\ ~write'.ran
        /\ \/ Tried(r, Never) /\ write'.why # "retrying"
           \/ Tried(r, Since(r)) /\ write'.why = "retrying"
  /\ UNCHANGED <<table, now, tickAt, late, edits, faults, ghosts>>

LEMMA FireSteps ==
  ASSUME Shape, NEW r \in listed, Fire(r)
  PROVE  Fired(r)
<1>1. r \in Row /\ tickAt \in 0 .. Horizon
  BY DEF Shape, Rounds, Clocks
<1> DEFINE same == /\ phase = "rows" /\ r \in listed /\ cur' = r /\ listed' = listed \ {r}
                   /\ UNCHANGED <<table, now, tickAt, late, edits, faults, ghosts>>
           onTime == tickAt - Since(r) <= Grace
           tried == Tried(r, Since(r))
           done(w) == Good(w, r, tickAt) /\ w.op = "record" /\ ~w.ran
<1>2. same
  BY DEF Fire, ghosts
<1>3. \/ Finish(r, FALSE, FALSE, TRUE, "other")
      \/ Finish(r, FALSE, FALSE, FALSE, "missed")
      \/ Finish(r, FALSE, FALSE, FALSE, "other")
      \/ Finish(r, FALSE, TRUE, FALSE, "other")
      \/ Finish(r, FALSE, TRUE, TRUE, "other")
      \/ /\ ~Exhausted(r) /\ tried
         /\ Await([op |-> "record", row |-> r, ran |-> FALSE, failed |-> TRUE, why |-> "retrying",
                   next |-> tickAt + ChannelDelay], "writing")
      \/ onTime /\ tried /\ phase' = "submitting" /\ UNCHANGED write
  BY DEF Fire, Tried
<1>4. ASSUME NEW failed \in BOOLEAN, NEW pause \in BOOLEAN, NEW why \in {"missed", "other"},
             Finish(r, FALSE, failed, pause, why)
      PROVE  phase' = "writing" /\ done(write') /\ Tried(r, Never) /\ write'.why # "retrying"
  BY <1>1, <1>4, FinishGood
<1>5. ASSUME ~Exhausted(r),
             Await([op |-> "record", row |-> r, ran |-> FALSE, failed |-> TRUE, why |-> "retrying",
                    next |-> tickAt + ChannelDelay], "writing")
      PROVE  phase' = "writing" /\ done(write') /\ write'.why = "retrying"
  <2> DEFINE n == tickAt + ChannelDelay
             w == [op |-> "record", row |-> r, ran |-> FALSE, failed |-> TRUE, why |-> "retrying", next |-> n]
  <2>1. n \in Times /\ n > tickAt
    BY <1>1 DEF Times
  <2>2. n \in Moments
    BY <2>1, TimesRange
  <2>3. r.failures + 1 < MaxFailures
    BY <1>1, <1>5, RowFields DEF Exhausted
  <2>4. phase' = "writing" /\ write' = w
    BY <1>5 DEF Await
  <2> HIDE DEF n
  <2>5. done(w) /\ w.why = "retrying"
    BY <1>1, <2>1, <2>2, <2>3 DEF Good, Write
  <2> QED BY <2>4, <2>5
<1> HIDE DEF done
<1>6. \/ onTime /\ tried /\ phase' = "submitting" /\ write' = write
      \/ phase' = "writing" /\ done(write') /\ Tried(r, Never) /\ write'.why # "retrying"
      \/ phase' = "writing" /\ done(write') /\ tried /\ write'.why = "retrying"
  BY <1>3, <1>4, <1>5
<1> QED BY <1>2, <1>6 DEF done, Fired

\* submit() has answered.
Answered ==
  /\ phase = "submitting" /\ phase' = "writing" /\ Good(write', cur, tickAt)
  /\ \/ /\ write'.ran /\ write'.op = "record" /\ write'.why = "other" /\ Tried(cur, Never)
        /\ again' = IF ran[cur.id] = cur.due THEN again \cup {cur.id} ELSE again
        /\ ran' = [ran EXCEPT ![cur.id] = cur.due]
     \/ /\ ~write'.ran /\ write'.op = "record" /\ write'.why = "other" /\ Tried(cur, Never)
        /\ UNCHANGED <<again, ran>>
     \/ /\ ~write'.ran /\ write'.op = "retry" /\ write'.why = "retrying"
        /\ UNCHANGED <<first, again, ran>>
  /\ UNCHANGED <<table, now, tickAt, listed, cur, late, edits, faults, doubt, forgot>>

LEMMA SubmitSteps ==
  ASSUME Shape, Submitted
  PROVE  Answered
<1>1. cur \in Row /\ tickAt \in 0 .. Horizon
  BY DEF Submitted, Shape, Rounds, Clocks, Busy
<1>2. CASE Finish(cur, TRUE, FALSE, FALSE, "other")
           /\ again' = (IF ran[cur.id] = cur.due THEN again \cup {cur.id} ELSE again)
           /\ ran' = [ran EXCEPT ![cur.id] = cur.due]
  <2>1. /\ phase' = "writing" /\ Good(write', cur, tickAt) /\ Tried(cur, Never)
        /\ write'.op = "record" /\ write'.ran = TRUE /\ write'.why = "other"
    BY <1>1, <1>2, FinishGood
  <2> QED BY <1>2, <2>1 DEF Submitted, Answered
<1>3. CASE Await(RetryLater(cur, RetryDelay), "writing") /\ UNCHANGED <<first, again, ran>>
  <2>1. Good(RetryLater(cur, RetryDelay), cur, tickAt) /\ RetryLater(cur, RetryDelay).op = "retry"
    BY <1>1, RetryGood
  <2>2. write' = RetryLater(cur, RetryDelay) /\ phase' = "writing"
    BY <1>3 DEF Await
  <2> QED BY <1>3, <2>1, <2>2 DEF Submitted, Answered, Good
<1>4. CASE Finish(cur, FALSE, TRUE, FALSE, "other") /\ UNCHANGED <<again, ran>>
  <2>1. /\ phase' = "writing" /\ Good(write', cur, tickAt) /\ Tried(cur, Never)
        /\ write'.op = "record" /\ write'.ran = FALSE /\ write'.why = "other"
    BY <1>1, <1>4, FinishGood
  <2> QED BY <1>4, <2>1 DEF Submitted, Answered
<1> QED BY <1>2, <1>3, <1>4 DEF Submitted

-----------------------------------------------------------------------------
(* How far the failures can go: every late store call may add two.          *)

\* The failures that the faults so far allow beyond MaxFailures.
Credit == 2 * (faults - Cardinality(late))

\* The row of s changed its time while a listed row of it is in flight.
Moved(s) == \E r \in Flight : r.id = s /\ table[s].next # r.next

Bound(s) ==
  LET c == table[s]
  IN Present(s) =>
       /\ c.enabled => c.failures + (IF Moved(s) THEN 1 ELSE 0) < MaxFailures + Credit
       /\ ~c.enabled => c.failures + (IF Flown(s) THEN 1 ELSE 0) <= MaxFailures + Credit
       /\ \A r \in Flight : r.id = s => c.failures <= r.failures + Credit

Bounded ==
  /\ IsFiniteSet(late) /\ Cardinality(late) <= faults
  /\ \A s \in Schedules : Bound(s)

LEMMA CreditRange ==
  ASSUME Shape, IsFiniteSet(late), Cardinality(late) <= faults
  PROVE  /\ Credit \in Nat /\ Credit <= 2 * MaxFaults
         /\ late # {} => Credit + 2 <= 2 * MaxFaults
<1>1. Cardinality(late) \in Nat /\ (late # {} => Cardinality(late) # 0)
  BY FS_CardinalityType, FS_EmptySet
<1>2. faults \in 0 .. MaxFaults
  BY DEF Shape, Counts
<1> DEFINE n == Cardinality(late)
<1>3. n \in Nat /\ n <= faults /\ (late # {} => n # 0) /\ Credit = 2 * (faults - n)
  BY <1>1 DEF Credit
<1> HIDE DEF n
<1>4. Credit \in Nat /\ Credit <= 2 * MaxFaults
  BY <1>2, <1>3
<1>5. late # {} => Credit + 2 <= 2 * MaxFaults
  BY <1>2, <1>3
<1> QED BY <1>4, <1>5

LEMMA PresentRow ==
  ASSUME Shape, NEW s \in Schedules
  PROVE  /\ Present(s) => table[s] \in Row /\ table[s].id = s /\ table[s].failures \in Nat
                          /\ table[s].enabled \in BOOLEAN
         /\ ~Present(s) => table[s] \in {Absent, Gone}
<1>1. Present(s) => table[s] \in Row /\ table[s].id = s
  BY DEF Shape, Rows, Present
<1> QED BY <1>1, RowFields DEF Present

LEMMA FlightRows ==
  ASSUME Shape, NEW r \in Flight
  PROVE  r \in Row /\ r.id \in Schedules /\ r.failures \in Nat
<1>1. r \in Row
  BY DEF Shape, Rounds, Flight
<1> QED BY <1>1, RowFields

LEMMA FailuresLimit ==
  ASSUME Shape, Bounded, NEW s \in Schedules, Present(s), Flown(s) \/ late # {}
  PROVE  table[s].failures + 1 <= MaxFailures + 2 * MaxFaults
<1>1. Credit \in Nat /\ Credit <= 2 * MaxFaults /\ (late # {} => Credit + 2 <= 2 * MaxFaults)
  BY CreditRange DEF Bounded
<1>2. table[s].failures \in Nat /\ table[s].enabled \in BOOLEAN
  BY PresentRow
<1>3. /\ table[s].enabled => table[s].failures + (IF Moved(s) THEN 1 ELSE 0) < MaxFailures + Credit
      /\ ~table[s].enabled => table[s].failures + (IF Flown(s) THEN 1 ELSE 0) <= MaxFailures + Credit
  BY DEF Bounded, Bound
<1> QED BY <1>1, <1>2, <1>3

\* Store call w has run.
Applied(w) ==
  LET s == w.row.id
  IN /\ s \in Schedules
     /\ table' \in [Schedules -> Row \cup {Absent, Gone}]
     /\ \A x \in Schedules : x # s => table'[x] = table[x]
     /\ ~Present(s) => table'[s] = table[s]
     /\ Present(s) => table'[s] \in Row /\ Follows(table[s], table'[s], w)
     /\ doubt' = IF Present(s) /\ w.op = "retry" /\ table[s].next # w.row.next
                   THEN doubt \cup {s} ELSE doubt

LEMMA Applies ==
  ASSUME Shape, Bounded, NEW w \in Write, w \in late \/ Flown(w.row.id), Apply(w)
  PROVE  Applied(w)
<1> DEFINE s == w.row.id
           c == table[s]
           d == IF w.op = "record" THEN Recorded(c, w) ELSE Deferred(c, w)
<1>1. s \in Schedules /\ w.row \in Row /\ w.op \in {"record", "retry"}
  BY WriteFields, RowFields
<1>2. table \in [Schedules -> Row \cup {Absent, Gone}]
  BY DEF Shape, Rows
<1>3. CASE ~Present(s)
  <2>1. table' = table /\ doubt' = doubt
    BY <1>3 DEF Apply
  <2> QED BY <1>1, <1>2, <1>3, <2>1 DEF Applied
<1>4. CASE Present(s)
  <2>1. /\ table' = [table EXCEPT ![s] = d]
        /\ doubt' = IF w.op = "retry" /\ table[s].next # w.row.next THEN doubt \cup {s} ELSE doubt
    BY <1>1, <1>2, <1>4 DEF Apply
  <2>2. c \in Row /\ c.failures \in Nat
    BY <1>1, <1>4, PresentRow
  <2>3. c.failures + 1 <= MaxFailures + 2 * MaxFaults
    BY <1>1, <1>4, FailuresLimit
  <2>4. d \in Row /\ Follows(c, d, w)
    <3>1. CASE w.op = "record"
      <4> DEFINE e == Recorded(c, w)
      <4>1. /\ e.id = c.id /\ e.ver = c.ver
            /\ Matches(c, w) =>
                 /\ e.next = w.next /\ e.enabled = (w.next # Never)
                 /\ e.due = IF w.why = "retrying" THEN c.due ELSE w.next
            /\ ~Matches(c, w) => e.next = c.next /\ e.enabled = c.enabled /\ e.due = c.due
            /\ e.failures = IF w.ran THEN 0 ELSE IF w.failed THEN c.failures + 1 ELSE c.failures
            /\ e.failures <= MaxFailures + 2 * MaxFaults => e \in Row
        BY <2>2, RecordedRow
      <4>2. d = e
        BY <3>1
      <4> HIDE DEF c, d, e
      <4>3. e.failures <= MaxFailures + 2 * MaxFaults
        BY <2>2, <2>3, <4>1
      <4> QED BY <3>1, <4>1, <4>2, <4>3 DEF Follows
    <3>2. CASE w.op = "retry"
      <4> DEFINE e == Deferred(c, w)
      <4>1. /\ e \in Row /\ e.id = c.id /\ e.ver = c.ver /\ e.next = w.next
            /\ e.enabled = c.enabled /\ e.due = c.due /\ e.failures = c.failures
        BY <2>2, DeferredRow
      <4>2. d = e
        BY <3>2
      <4> HIDE DEF c, d, e
      <4> QED BY <3>2, <4>1, <4>2 DEF Follows
    <3> QED BY <1>1, <3>1, <3>2
  <2> HIDE DEF d
  <2>5. table' \in [Schedules -> Row \cup {Absent, Gone}] /\ table'[s] = d
        /\ \A x \in Schedules : x # s => table'[x] = table[x]
    BY <1>1, <1>2, <2>1, <2>4
  <2> QED BY <1>1, <1>4, <2>1, <2>4, <2>5 DEF Applied
<1> QED BY <1>3, <1>4

-----------------------------------------------------------------------------
(* Shape and Bounded are kept.                                              *)

LEMMA BoundCalm ==
  ASSUME Shape, Bounded, NEW s \in Schedules, table'[s] = table[s],
         Flight' \subseteq Flight, Credit \in Nat, Credit' \in Nat, Credit' >= Credit
  PROVE  Bound(s)'
<1>1. CASE Present(s)
  <2>1. table[s].failures \in Nat /\ Bound(s)
    BY <1>1, PresentRow DEF Bounded
  <2>2. (Moved(s)' => Moved(s)) /\ (Flown(s)' => Flown(s))
    BY DEF Moved, Flown
  <2>3. \A r \in Flight : r.failures \in Nat
    BY FlightRows
  <2> QED BY <1>1, <2>1, <2>2, <2>3 DEF Bound
<1>2. CASE ~Present(s)
  BY <1>2 DEF Bound, Present
<1> QED BY <1>1, <1>2

LEMMA Doubled ==
  ASSUME NEW n \in Nat, NEW f \in Nat, NEW m \in Nat, NEW g \in Nat, n <= f, m <= g, g - m >= f - n
  PROVE  2 * (f - n) \in Nat /\ 2 * (g - m) \in Nat /\ 2 * (g - m) >= 2 * (f - n)
  OBVIOUS

\* What a step needs to keep Bounded, when it touches no row.
LEMMA CalmStep ==
  ASSUME Shape, Shape', Bounded, UNCHANGED table, Flight' \subseteq Flight,
         \/ UNCHANGED <<late, faults>>
         \/ faults' = faults + 1 /\ late' = {}
         \/ faults' = faults + 1 /\ late' \in {late, late \cup ({write} \ {NoWrite})}
  PROVE  Bounded'
<1> DEFINE n == Cardinality(late)
           m == Cardinality(late')
<1>1. IsFiniteSet(late) /\ n <= faults /\ n \in Nat /\ faults \in Nat
  BY FS_CardinalityType DEF Bounded, Shape, Counts
<1>2. /\ IsFiniteSet(late') /\ m \in Nat /\ faults' \in Nat
      /\ m <= faults' /\ faults' - m >= faults - n
  <2>1. CASE UNCHANGED <<late, faults>>
    BY <1>1, <2>1
  <2>2. CASE faults' = faults + 1 /\ late' = {}
    <3>1. IsFiniteSet(late') /\ m = 0
      BY <2>2, FS_EmptySet
    <3> HIDE DEF n, m
    <3> QED BY <1>1, <2>2, <3>1
  <2>3. CASE faults' = faults + 1 /\ late' \in {late, late \cup ({write} \ {NoWrite})}
    <3>1. late' = late \/ late' = late \cup {write}
      BY <2>3
    <3>2. /\ IsFiniteSet(late \cup {write})
          /\ Cardinality(late \cup {write}) = IF write \in late THEN n ELSE n + 1
      BY <1>1, FS_AddElement
    <3>3. IsFiniteSet(late') /\ (m = n \/ m = n + 1)
      BY <1>1, <3>1, <3>2
    <3> HIDE DEF n, m
    <3> QED BY <1>1, <2>3, <3>3
  <2> QED BY <2>1, <2>2, <2>3
<1>3. Credit \in Nat /\ Credit' \in Nat /\ Credit' >= Credit
  <2>1. Credit = 2 * (faults - n) /\ Credit' = 2 * (faults' - m)
    BY DEF Credit
  <2> HIDE DEF n, m
  <2> QED BY <1>1, <1>2, <2>1, Doubled
<1>4. \A s \in Schedules : Bound(s)'
  BY <1>3, BoundCalm
<1> QED BY <1>2, <1>4 DEF Bounded

LEMMA OwnerShape ==
  ASSUME Shape, Bounded, NEW s \in Schedules, Owned(s)
  PROVE  Shape' /\ Bounded'
<1>1. PICK r \in Row \cup {Gone} : Fresh(s, r) /\ Commanded(s, r)
  BY DEF Owned
<1>2. table \in [Schedules -> Row \cup {Absent, Gone}] /\ now \in Nat
  BY DEF Shape, Rows, Clocks
<1>3. /\ table' = [table EXCEPT ![s] = r] /\ table'[s] = r
      /\ \A x \in Schedules : x # s => table'[x] = table[x]
  BY <1>1, <1>2 DEF Commanded
<1>4. r # Gone => r \in Row /\ r.id = s /\ r.enabled \in BOOLEAN /\ r.failures \in Nat
  BY <1>1, RowFields DEF Fresh
<1>5. r # Gone /\ r.enabled => r.next # Never
  BY <1>1, <1>2, TimesRange DEF Fresh, Never
<1>6. Rows'
  <2>1. table' \in [Schedules -> Row \cup {Absent, Gone}]
    BY <1>2, <1>3
  <2>2. ASSUME NEW x \in Schedules, Present(x)'
        PROVE  table'[x].id = x /\ (table'[x].enabled => table'[x].next # Never)
    <3>1. CASE x = s
      BY <1>3, <1>4, <1>5, <2>2, <3>1 DEF Present
    <3>2. CASE x # s
      BY <1>3, <2>2, <3>2 DEF Present, Shape, Rows
    <3> QED BY <3>1, <3>2
  <2> QED BY <2>1, <2>2 DEF Rows
<1>7. /\ UNCHANGED <<now, first, phase, tickAt, listed, cur, write, late, faults, again, doubt, forgot>>
      /\ ran' = [ran EXCEPT ![s] = Never] /\ edits' \in 0 .. MaxEdits
  BY <1>1 DEF Commanded, tick, Owned
<1>8. Clocks' /\ Called'
  BY <1>7 DEF Shape, Clocks, Called, Good
<1>9. Rounds' /\ Flight' = Flight
  BY <1>7 DEF Shape, Rounds, Busy, Flight
<1>10. Counts'
  BY <1>7, TimesRange DEF Shape, Counts
<1>11. Credit' = Credit /\ Credit \in Nat
  BY <1>7, CreditRange DEF Bounded, Credit
<1>12. ASSUME NEW x \in Schedules
       PROVE  Bound(x)'
  <2>1. CASE x # s
    BY <1>3, <1>9, <1>11, <2>1, BoundCalm
  <2>2. CASE x = s /\ r = Gone
    BY <1>3, <2>2 DEF Bound, Present
  <2>3. CASE x = s /\ r # Gone /\ r.enabled
    <3>1. table'[x].failures = 0 /\ table'[x].enabled
      BY <1>1, <1>3, <2>3 DEF Fresh
    <3>2. \A q \in Flight' : q.failures \in Nat
      BY <1>9, FlightRows
    <3> QED BY <1>11, <3>1, <3>2 DEF Bound
  <2>4. CASE x = s /\ r # Gone /\ ~r.enabled
    <3>1. Present(x) /\ table'[x].failures = table[x].failures /\ ~table'[x].enabled
      BY <1>1, <1>3, <2>4 DEF Fresh
    <3>2. Bound(x) /\ table[x].failures \in Nat /\ table[x].enabled \in BOOLEAN
      BY <3>1, PresentRow DEF Bounded
    <3>3. \A q \in Flight : q.id = x => table'[x].failures <= q.failures + Credit
      BY <3>1, <3>2 DEF Bound
    <3>4. table[x].failures + (IF Flown(x) THEN 1 ELSE 0) <= MaxFailures + Credit
      BY <1>11, <3>1, <3>2 DEF Bound
    <3>5. Flown(x)' = Flown(x)
      BY <1>9 DEF Flown
    <3> QED BY <1>9, <1>11, <3>1, <3>3, <3>4, <3>5 DEF Bound
  <2> QED BY <2>1, <2>2, <2>3, <2>4
<1>13. Shape'
  BY <1>6, <1>8, <1>9, <1>10 DEF Shape
<1> QED BY <1>7, <1>12, <1>13 DEF Bounded

LEMMA CreditNat == Shape /\ Bounded => Credit \in Nat
  BY CreditRange DEF Bounded

LEMMA StartsShape ==
  ASSUME Shape, Bounded, TickStarts
  PROVE  Shape' /\ Bounded'
<1>0. PICK L \in SUBSET DueNow : listed' = {table[s] : s \in L}
  BY DEF TickStarts
<1>1. /\ phase = "idle" /\ phase' = "rows" /\ tickAt' = now
      /\ listed' = {table[s] : s \in L} /\ \A s \in L : s \in Schedules /\ Due(s)
      /\ UNCHANGED <<table, now, first, cur, write, late, edits, faults, ran, again, doubt, forgot>>
  BY <1>0 DEF TickStarts, DueNow, ghosts
<1>2. \A r \in listed' : /\ r \in Row /\ r.id \in Schedules /\ r = table[r.id] /\ Present(r.id)
                         /\ r.enabled /\ r.next # Never /\ r.next <= now /\ r.failures \in Nat
  <2>1. ASSUME NEW s \in Schedules, Due(s)
        PROVE  /\ table[s] \in Row /\ table[s].id = s /\ table[s].enabled /\ table[s].next # Never
               /\ table[s].next <= now /\ Present(s) /\ table[s].failures \in Nat
    BY <2>1, PresentRow DEF Due
  <2> QED BY <1>1, <2>1
<1>3. cur = Absent /\ Flight' = listed'
  BY <1>1 DEF Shape, Rounds, Busy, Flight
<1>4. Rows' /\ Counts'
  BY <1>1 DEF Shape, Rows, Counts, Present
<1>5. Clocks'
  BY <1>1 DEF Shape, Clocks
<1>6. Rounds'
  <2>1. \A q, r \in listed' : q.id = r.id => q = r
    BY <1>2
  <2>2. listed' \in SUBSET Row /\ \A r \in listed' : r.enabled /\ r.next # Never /\ r.next <= tickAt'
    BY <1>1, <1>2
  <2> QED BY <1>1, <1>3, <2>1, <2>2 DEF Rounds, Busy, Phases
<1>7. Called'
  BY <1>1 DEF Shape, Called
<1>8. Credit' = Credit /\ Credit \in Nat
  BY <1>1, CreditNat DEF Credit
<1>9. ASSUME NEW s \in Schedules
      PROVE  Bound(s)'
  <2>1. CASE ~Present(s)
    BY <1>1, <2>1 DEF Bound, Present
  <2>2. CASE Present(s)
    <3>1. table[s].failures \in Nat /\ table[s].enabled \in BOOLEAN /\ Bound(s)
      BY <2>2, PresentRow DEF Bounded
    <3>2. /\ table[s].enabled => table[s].failures < MaxFailures + Credit
          /\ ~table[s].enabled => table[s].failures <= MaxFailures + Credit
      BY <1>8, <2>2, <3>1 DEF Bound
    <3>3. ~Moved(s)'
      BY <1>1, <1>2, <1>3 DEF Moved
    <3>4. Flown(s)' => table[s].enabled
      BY <1>2, <1>3 DEF Flown
    <3>5. \A r \in Flight' : r.id = s => table[s].failures <= r.failures + Credit
      BY <1>2, <1>3, <1>8
    <3> QED BY <1>1, <1>8, <3>1, <3>2, <3>3, <3>4, <3>5 DEF Bound
  <2> QED BY <2>1, <2>2
<1> QED BY <1>1, <1>4, <1>5, <1>6, <1>7, <1>9 DEF Shape, Bounded

LEMMA EndsShape ==
  ASSUME Shape, Bounded, TickEnds
  PROVE  Shape' /\ Bounded'
<1>1. /\ phase = "rows" /\ listed = {} /\ phase' = "idle" /\ tickAt' = 0 /\ listed' = {} /\ cur' = Absent
      /\ write' = NoWrite
      /\ UNCHANGED <<table, now, first, late, edits, faults, ran, again, doubt, forgot>>
  BY DEF TickEnds, Stopped, ghosts
<1>2. Rows' /\ Counts' /\ Called'
  BY <1>1 DEF Shape, Rows, Counts, Present, Called
<1>3. Clocks'
  BY <1>1 DEF Shape, Clocks
<1>4. Rounds' /\ Flight' = {}
  BY <1>1 DEF Rounds, Busy, Phases, Flight
<1>5. Shape'
  BY <1>2, <1>3, <1>4 DEF Shape
<1> QED BY <1>1, <1>4, <1>5, CalmStep

LEMMA FiredShape ==
  ASSUME Shape, Bounded, NEW r \in listed, Fired(r)
  PROVE  Shape' /\ Bounded' /\ Flight' = Flight
<1>1. /\ phase = "rows" /\ r \in listed /\ cur' = r /\ listed' = listed \ {r}
      /\ phase' \in {"submitting", "writing"}
      /\ phase' = "submitting" => write' = write
      /\ phase' = "writing" => Good(write', r, tickAt)
      /\ Tried(r, Never) \/ Tried(r, Since(r))
      /\ UNCHANGED <<table, now, tickAt, late, edits, faults, ran, again, doubt, forgot>>
  BY DEF Fired, ghosts
<1>2. /\ r \in Row /\ r.id \in Schedules /\ r.next \in Moments /\ r.enabled
      /\ r.next # Never /\ r.next <= tickAt /\ tickAt \in Nat /\ tickAt <= now /\ now \in Nat
  <2>1. r \in Row /\ r \in Flight
    BY DEF Shape, Rounds, Flight
  <2> QED BY <2>1, RowFields DEF Shape, Rounds, Clocks
<1>3. Flight' = Flight
  BY <1>1 DEF Flight, Busy
<1>4. Rows' /\ Counts'
  BY <1>1 DEF Shape, Rows, Counts, Present
<1>5. Since(r) \in Moments /\ Since(r) <= tickAt
  BY <1>1, <1>2 DEF Shape, Clocks, Since
<1>6. Clocks'
  <2>1. first \in [Schedules -> Moments] /\ \A s \in Schedules : first[s] <= tickAt /\ first[s] <= now
    BY <1>1 DEF Shape, Clocks
  <2>2. Never \in Moments /\ Never <= tickAt
    BY <1>2, TimesRange DEF Never
  <2>3. first' \in [Schedules -> Moments] /\ \A s \in Schedules : first'[s] <= tickAt
    <3>1. PICK t \in Moments : first' = [first EXCEPT ![r.id] = t] /\ t <= tickAt
      BY <1>1, <1>5, <2>2 DEF Tried
    <3> QED BY <1>2, <2>1, <3>1
  <2>4. ASSUME NEW s \in Schedules PROVE first'[s] <= now
    <3>1. first'[s] \in Moments /\ first'[s] <= tickAt
      BY <2>3
    <3>2. first'[s] \in Int
      BY <3>1, TimesRange
    <3> QED BY <1>2, <3>1, <3>2
  <2> QED BY <1>1, <2>3, <2>4 DEF Shape, Clocks
<1>7. Rounds'
  <2>1. \A q \in listed' : q.id # r.id
    BY <1>1 DEF Shape, Rounds
  <2> QED BY <1>1, <1>2, <1>3, <2>1 DEF Shape, Rounds, Busy, Phases
<1>8. Called'
  <2>1. phase' = "submitting" => write' = NoWrite
    BY <1>1 DEF Shape, Called
  <2> QED BY <1>1, <2>1 DEF Shape, Called, Good
<1>9. Shape'
  BY <1>4, <1>6, <1>7, <1>8 DEF Shape
<1> QED BY <1>1, <1>3, <1>9, CalmStep

LEMMA AnsweredShape ==
  ASSUME Shape, Bounded, Answered
  PROVE  Shape' /\ Bounded' /\ Flight' = Flight
<1>1. /\ phase = "submitting" /\ phase' = "writing" /\ Good(write', cur, tickAt)
      /\ UNCHANGED first \/ Tried(cur, Never)
      /\ ran' = ran \/ ran' = [ran EXCEPT ![cur.id] = cur.due]
      /\ again' = again \/ again' = again \cup {cur.id}
      /\ UNCHANGED <<table, now, tickAt, listed, cur, late, edits, faults, doubt, forgot>>
  BY DEF Answered
<1>2. /\ cur \in Row /\ cur.id \in Schedules /\ cur.due \in Moments
      /\ tickAt \in Nat /\ now \in Nat
  BY <1>1, RowFields DEF Shape, Rounds, Clocks, Busy
<1>3. Flight' = Flight
  BY <1>1 DEF Flight, Busy
<1>4. Rows' /\ Counts'
  BY <1>1, <1>2 DEF Shape, Rows, Counts, Present
<1>5. Clocks'
  <2>1. Never \in Moments /\ Never <= tickAt /\ Never <= now
    BY <1>2, TimesRange DEF Never
  <2> QED BY <1>1, <1>2, <2>1 DEF Shape, Clocks, Tried
<1>6. Rounds'
  BY <1>1, <1>3 DEF Shape, Rounds, Busy, Phases
<1>7. Called'
  BY <1>1 DEF Shape, Called
<1>8. Shape'
  BY <1>4, <1>5, <1>6, <1>7 DEF Shape
<1> QED BY <1>1, <1>3, <1>8, CalmStep

LEMMA WrittenShape ==
  ASSUME Shape, Bounded, Written
  PROVE  Applied(write) /\ Shape' /\ Bounded' /\ Flight' = Flight \ {cur} /\ cur \in Flight
<1>1. /\ phase \in {"writing", "rescuing"} /\ phase' = "rows" /\ cur' = Absent /\ write' = NoWrite
      /\ Apply(write)
      /\ UNCHANGED <<now, first, tickAt, listed, late, edits, faults, ran, again, forgot>>
  BY DEF Written
<1>2. /\ Good(write, cur, tickAt) /\ write \in Write /\ write.row = cur
      /\ cur \in Row /\ cur \in Flight /\ cur.id \in Schedules
  BY <1>1, RowFields DEF Shape, Called, Rounds, Good, Busy, Flight
<1> DEFINE z == cur.id
<1>3. Applied(write)
  BY <1>1, <1>2, Applies DEF Flown
<1>4. Flight' = Flight \ {cur} /\ \A q \in Flight' : q.id # z
  BY <1>1 DEF Shape, Rounds, Busy, Flight
<1>5. /\ \A x \in Schedules : x # z => table'[x] = table[x]
      /\ ~Present(z) => table'[z] = table[z]
      /\ Present(z) => table'[z] \in Row /\ Follows(table[z], table'[z], write)
      /\ table' \in [Schedules -> Row \cup {Absent, Gone}]
      /\ doubt' \in SUBSET Schedules
      /\ doubt \subseteq doubt'
  BY <1>2, <1>3 DEF Applied, Shape, Counts
<1>6. ASSUME Present(z)
      PROVE  /\ table'[z].id = z
             /\ table'[z].enabled => table'[z].next # Never /\ table[z].enabled
  <2>1. table[z].id = z /\ (table[z].enabled => table[z].next # Never)
    BY <1>2, <1>6 DEF Shape, Rows
  <2>2. write.op \in {"record", "retry"} /\ (write.op = "retry" => write.next # Never)
    BY <1>2, WriteFields DEF Good
  <2>3. Matches(table[z], write) => table[z].enabled
    BY DEF Matches
  <2> QED BY <1>5, <1>6, <2>1, <2>2, <2>3 DEF Follows
<1>7. Rows'
  <2>1. ASSUME NEW x \in Schedules, Present(x)'
        PROVE  table'[x].id = x /\ (table'[x].enabled => table'[x].next # Never)
    <3>1. CASE x = z
      <4>1. Present(z)
        BY <1>5, <2>1, <3>1 DEF Present
      <4> QED BY <1>6, <3>1, <4>1
    <3>2. CASE x # z
      BY <1>5, <2>1, <3>2 DEF Present, Shape, Rows
    <3> QED BY <3>1, <3>2
  <2> QED BY <1>5, <2>1 DEF Rows
<1>8. Clocks' /\ Counts'
  BY <1>1, <1>5 DEF Shape, Clocks, Counts
<1>9. Rounds'
  BY <1>1, <1>4 DEF Shape, Rounds, Busy, Phases
<1>10. Called'
  BY <1>1, <1>5 DEF Shape, Called
<1>11. Credit' = Credit /\ Credit \in Nat
  BY <1>1, CreditNat DEF Credit
<1>12. ASSUME NEW x \in Schedules
       PROVE  Bound(x)'
  <2>1. CASE x # z
    BY <1>4, <1>5, <1>11, <2>1, BoundCalm
  <2>2. CASE x = z /\ ~Present(z)
    BY <1>5, <2>2 DEF Bound, Present
  <2>3. CASE x = z /\ Present(z)
    <3> DEFINE c == table[z]
               d == table'[z]
    <3>1. c.failures \in Nat /\ c.enabled \in BOOLEAN /\ cur.failures \in Nat /\ Bound(z)
      BY <1>2, <2>3, PresentRow, FlightRows DEF Bounded
    <3>2. d.enabled \in BOOLEAN /\ (d.enabled => c.enabled) /\ Follows(c, d, write)
      BY <1>5, <1>6, <2>3, RowFields
    <3>3. /\ c.enabled => c.failures < MaxFailures + Credit
          /\ c.enabled /\ c.next # cur.next => c.failures + 1 < MaxFailures + Credit
          /\ ~c.enabled => c.failures + 1 <= MaxFailures + Credit
          /\ c.failures <= cur.failures + Credit
      <4>1. Flown(z) /\ (c.next # cur.next => Moved(z))
        BY <1>2 DEF Flown, Moved
      <4> QED BY <1>2, <1>11, <2>3, <3>1, <4>1 DEF Bound
    <3>4. /\ write.op \in {"record", "retry"} /\ write.ran \in BOOLEAN /\ write.failed \in BOOLEAN
          /\ write.failed => write.op = "record" /\ (write.next # Never => cur.failures + 1 < MaxFailures)
          /\ Matches(c, write) = (c.next = cur.next /\ c.enabled)
      BY <1>2, WriteFields DEF Good, Matches
    <3>5. /\ d.failures \in {0, c.failures, c.failures + 1}
          /\ d.failures = c.failures + 1 => write.failed
          /\ write.op = "record" /\ Matches(c, write) => d.enabled = (write.next # Never)
          /\ ~Matches(c, write) \/ write.op = "retry" => d.enabled = c.enabled
      BY <3>1, <3>2, <3>4 DEF Follows
    <3>6. /\ d.enabled => d.failures < MaxFailures + Credit
          /\ ~d.enabled => d.failures <= MaxFailures + Credit
      <4> HIDE DEF c, d
      <4>1. CASE d.failures = 0
        BY <1>11, <4>1
      <4>2. CASE d.failures = c.failures
        BY <1>11, <3>1, <3>2, <3>3, <4>2
      <4>3. CASE d.failures = c.failures + 1
        <5>1. ~d.enabled => d.failures <= MaxFailures + Credit
          BY <1>11, <3>1, <3>2, <3>3, <4>3
        <5>2. CASE d.enabled /\ Matches(c, write)
          <6>1. cur.failures + 1 < MaxFailures /\ c.failures <= cur.failures + Credit
            BY <3>3, <3>4, <3>5, <4>3, <5>2
          <6> QED BY <1>11, <3>1, <4>3, <6>1, <5>1
        <5>3. CASE d.enabled /\ ~Matches(c, write)
          <6>1. c.enabled /\ c.next # cur.next
            BY <3>2, <3>4, <5>3
          <6> QED BY <3>3, <4>3, <5>1, <6>1
        <5> QED BY <3>2, <5>1, <5>2, <5>3
      <4> QED BY <3>5, <4>1, <4>2, <4>3
    <3>7. ~Flown(x)' /\ ~Moved(x)'
      BY <1>4, <2>3 DEF Flown, Moved
    <3>8. d.failures \in Nat
      BY <3>1, <3>5
    <3> QED BY <1>4, <1>11, <2>3, <3>2, <3>6, <3>7, <3>8 DEF Bound
  <2> QED BY <2>1, <2>2, <2>3
<1>13. Shape'
  BY <1>7, <1>8, <1>9, <1>10 DEF Shape
<1> QED BY <1>1, <1>2, <1>3, <1>4, <1>12, <1>13 DEF Bounded

LEMMA FailsShape ==
  ASSUME Shape, Bounded, CallFails
  PROVE  Shape' /\ Bounded' /\ Flight' = Flight
<1>1. /\ phase \in {"submitting", "writing"} /\ phase' = "rescuing"
      /\ write' = RetryLater(cur, ChannelDelay)
      /\ faults < MaxFaults /\ faults' = faults + 1
      /\ UNCHANGED <<table, now, first, tickAt, listed, cur, late, edits, ran, again>>
      /\ doubt' = doubt \/ doubt' = doubt \cup {cur.id}
      /\ forgot' = forgot \/ forgot' = forgot \cup {cur.id}
  BY DEF CallFails, Fault, Await, Unrecorded
<1>2. cur \in Row /\ cur.id \in Schedules /\ tickAt \in 0 .. Horizon
  BY <1>1, RowFields DEF Shape, Rounds, Clocks, Busy
<1>3. Good(write', cur, tickAt) /\ write'.op = "retry"
  BY <1>1, <1>2, RetryGood
<1>4. Flight' = Flight
  BY <1>1 DEF Flight, Busy
<1>5. Rows' /\ Clocks'
  BY <1>1 DEF Shape, Rows, Clocks, Present
<1>6. Counts'
  <2>1. faults' \in 0 .. MaxFaults
    BY <1>1 DEF Shape, Counts
  <2>2. doubt' \in SUBSET Schedules /\ forgot' \in SUBSET Schedules
    BY <1>1, <1>2 DEF Shape, Counts
  <2> QED BY <1>1, <2>1, <2>2 DEF Shape, Counts
<1>7. Rounds'
  BY <1>1, <1>4 DEF Shape, Rounds, Busy, Phases
<1>8. Called'
  BY <1>1, <1>3 DEF Shape, Called
<1>9. Shape'
  BY <1>5, <1>6, <1>7, <1>8 DEF Shape
<1> QED BY <1>1, <1>4, <1>9, CalmStep

\* The tick was cut off: the store call it awaited may still come.
LEMMA CutShape ==
  ASSUME Shape, Bounded, TickCutOff
  PROVE  Shape' /\ Bounded' /\ Flight' = {}
<1>1. /\ phase # "idle" /\ phase' = "idle" /\ tickAt' = 0 /\ listed' = {} /\ cur' = Absent
      /\ write' = NoWrite
      /\ faults < MaxFaults /\ faults' = faults + 1
      /\ late' \in {late, late \cup ({write} \ {NoWrite})}
      /\ UNCHANGED <<table, now, first, edits, ran, again>>
      /\ Unrecorded
  BY DEF TickCutOff, Fault, Stopped
<1>2. write # NoWrite => /\ phase \in {"writing", "rescuing"} /\ Good(write, cur, tickAt)
                         /\ cur.id \in Schedules /\ write.row.id = cur.id
                         /\ write.op = "retry" => write.next # Never
  <2>1. write # NoWrite => phase \in {"writing", "rescuing"} /\ Good(write, cur, tickAt)
    BY DEF Shape, Called
  <2>2. phase \in {"writing", "rescuing"} => cur \in Row
    BY DEF Shape, Rounds, Busy
  <2> QED BY <2>1, <2>2, RowFields DEF Good
<1>3. Flight' = {}
  BY <1>1 DEF Flight, Busy
<1>4. Rows' /\ Clocks'
  BY <1>1 DEF Shape, Rows, Clocks, Present
<1>5. /\ doubt' = doubt \/ (write # NoWrite /\ doubt' = doubt \cup {cur.id})
      /\ forgot' = forgot \/ (write # NoWrite /\ forgot' = forgot \cup {cur.id})
      /\ write # NoWrite /\ late' # late => cur.id \in doubt' /\ cur.id \in forgot'
  BY <1>1 DEF Unrecorded
<1>6. Counts'
  <2>1. faults' \in 0 .. MaxFaults
    BY <1>1 DEF Shape, Counts
  <2>2. doubt' \in SUBSET Schedules /\ forgot' \in SUBSET Schedules
    BY <1>2, <1>5 DEF Shape, Counts
  <2> QED BY <1>1, <2>1, <2>2 DEF Shape, Counts
<1>7. Rounds'
  BY <1>1, <1>3 DEF Rounds, Busy, Phases
<1>8. Called'
  <2>1. ASSUME NEW w \in late'
        PROVE  /\ w \in Write /\ (w.op = "retry" => w.next # Never)
               /\ w.row.id \in doubt' /\ w.row.id \in forgot'
    <3>1. CASE w \in late
      BY <1>5, <3>1 DEF Shape, Called
    <3>2. CASE w \notin late
      <4>1. w = write /\ write # NoWrite /\ late' # late
        BY <1>1, <2>1, <3>2
      <4> QED BY <1>2, <1>5, <4>1 DEF Good
    <3> QED BY <3>1, <3>2
  <2> QED BY <1>1, <2>1 DEF Called
<1>9. Shape'
  BY <1>4, <1>6, <1>7, <1>8 DEF Shape
<1> QED BY <1>1, <1>3, <1>9, CalmStep

LEMMA CrashShape ==
  ASSUME Shape, Bounded, Crash
  PROVE  Shape' /\ Bounded' /\ Flight' = {}
<1>1. /\ phase' = "idle" /\ tickAt' = 0 /\ listed' = {} /\ cur' = Absent
      /\ write' = NoWrite
      /\ faults < MaxFaults /\ faults' = faults + 1 /\ late' = {}
      /\ first' = [s \in Schedules |-> Never]
      /\ doubt' = doubt \cup {s \in Schedules : write # NoWrite /\ write.ran /\ s = cur.id}
      /\ forgot' = forgot \cup {s \in Schedules : first[s] # Never \/ (cur # Absent /\ s = cur.id)}
      /\ UNCHANGED <<table, now, edits, ran, again>>
  BY DEF Crash, Fault, Stopped
<1>2. Flight' = {}
  BY <1>1 DEF Flight, Busy
<1>3. Rows'
  BY <1>1 DEF Shape, Rows, Present
<1>4. Clocks'
  BY <1>1, TimesRange DEF Shape, Clocks, Never
<1>5. Rounds' /\ Called'
  BY <1>1, <1>2 DEF Rounds, Called, Busy, Phases
<1>6. Counts'
  <2>1. faults' \in 0 .. MaxFaults
    BY <1>1 DEF Shape, Counts
  <2>2. doubt' \in SUBSET Schedules /\ forgot' \in SUBSET Schedules
    BY <1>1 DEF Shape, Counts
  <2> QED BY <1>1, <2>1, <2>2 DEF Shape, Counts
<1>7. Shape'
  BY <1>3, <1>4, <1>5, <1>6 DEF Shape
<1> QED BY <1>1, <1>2, <1>7, CalmStep

LEMMA ClockShape ==
  ASSUME Shape, Bounded, Clock
  PROVE  Shape' /\ Bounded' /\ Flight' = Flight
<1>1. /\ now < Horizon /\ now' = now + 1
      /\ UNCHANGED <<table, first, phase, tickAt, listed, cur, write, late, edits, faults,
                     ran, again, doubt, forgot>>
  BY DEF Clock, tick, ghosts
<1>2. Flight' = Flight
  BY <1>1 DEF Flight, Busy
<1>3. Clocks'
  <2>1. now' \in 0 .. Horizon /\ tickAt' <= now'
    BY <1>1 DEF Shape, Clocks
  <2>2. ASSUME NEW s \in Schedules PROVE first[s] <= now'
    <3>1. first[s] \in Moments /\ first[s] <= now /\ now \in 0 .. Horizon
      BY DEF Shape, Clocks
    <3>2. first[s] \in Int
      BY <3>1, TimesRange
    <3> QED BY <1>1, <3>1, <3>2
  <2> QED BY <1>1, <2>1, <2>2 DEF Shape, Clocks
<1>4. Rows' /\ Rounds' /\ Called' /\ Counts'
  BY <1>1, <1>2 DEF Shape, Rows, Rounds, Called, Counts, Present, Busy
<1>5. Shape'
  BY <1>3, <1>4 DEF Shape
<1> QED BY <1>1, <1>2, <1>5, CalmStep

LEMMA LateShape ==
  ASSUME Shape, Bounded, NEW w \in late, Apply(w), late' = late \ {w},
         UNCHANGED <<now, first, tick, edits, faults, ran, again, forgot>>
  PROVE  Applied(w) /\ Shape' /\ Bounded' /\ Flight' = Flight
<1>1. UNCHANGED <<now, first, phase, tickAt, listed, cur, write, edits, faults, ran, again, forgot>>
  BY DEF tick
<1> DEFINE z == w.row.id
<1>2. w \in Write /\ z \in doubt /\ z \in forgot /\ (w.op = "retry" => w.next # Never)
  BY DEF Shape, Called
<1>3. Applied(w)
  BY <1>2, Applies
<1>4. /\ z \in Schedules
      /\ \A x \in Schedules : x # z => table'[x] = table[x]
      /\ ~Present(z) => table'[z] = table[z]
      /\ Present(z) => table'[z] \in Row /\ Follows(table[z], table'[z], w)
      /\ table' \in [Schedules -> Row \cup {Absent, Gone}]
      /\ doubt' = doubt
  BY <1>2, <1>3 DEF Applied
<1>5. Flight' = Flight
  BY <1>1 DEF Flight, Busy
<1>6. ASSUME Present(z)
      PROVE  /\ table'[z].id = z
             /\ table'[z].enabled => table'[z].next # Never /\ table[z].enabled
  <2>1. table[z].id = z /\ (table[z].enabled => table[z].next # Never)
    BY <1>4, <1>6 DEF Shape, Rows
  <2>2. w.op \in {"record", "retry"}
    BY <1>2, WriteFields
  <2>3. Matches(table[z], w) => table[z].enabled
    BY DEF Matches
  <2> QED BY <1>2, <1>4, <1>6, <2>1, <2>2, <2>3 DEF Follows
<1>7. Rows'
  <2>1. ASSUME NEW x \in Schedules, Present(x)'
        PROVE  table'[x].id = x /\ (table'[x].enabled => table'[x].next # Never)
    <3>1. CASE x = z
      <4>1. Present(z)
        BY <1>4, <2>1, <3>1 DEF Present
      <4> QED BY <1>6, <3>1, <4>1
    <3>2. CASE x # z
      BY <1>4, <2>1, <3>2 DEF Present, Shape, Rows
    <3> QED BY <3>1, <3>2
  <2> QED BY <1>4, <2>1 DEF Rows
<1>8. Clocks' /\ Counts' /\ Called'
  BY <1>1, <1>4 DEF Shape, Clocks, Counts, Called
<1>9. Rounds'
  BY <1>1, <1>5 DEF Shape, Rounds, Busy
<1>10. /\ IsFiniteSet(late') /\ Cardinality(late') <= faults'
       /\ Credit \in Nat /\ Credit' = Credit + 2
  <2> DEFINE n == Cardinality(late)
             m == Cardinality(late')
  <2>1. IsFiniteSet(late') /\ m = n - 1 /\ n \in Nat /\ faults' = faults /\ n <= faults
        /\ faults \in Nat
    BY <1>1, FS_CardinalityType, FS_RemoveElement DEF Bounded, Shape, Counts
  <2>2. Credit = 2 * (faults - n) /\ Credit' = 2 * (faults' - m) /\ Credit \in Nat
    BY CreditNat DEF Credit
  <2> HIDE DEF n, m
  <2>3. m <= faults' /\ Credit' = Credit + 2
    BY <2>1, <2>2
  <2> QED BY <2>1, <2>2, <2>3 DEF m
<1>11. ASSUME NEW x \in Schedules
       PROVE  Bound(x)'
  <2>1. CASE x # z
    <3>1. Credit' \in Nat /\ Credit' >= Credit
      BY <1>10
    <3> QED BY <1>4, <1>5, <1>10, <2>1, <3>1, BoundCalm
  <2>2. CASE x = z /\ ~Present(z)
    BY <1>4, <2>2 DEF Bound, Present
  <2>3. CASE x = z /\ Present(z)
    <3> DEFINE c == table[z]
               d == table'[z]
    <3>1. c.failures \in Nat /\ c.enabled \in BOOLEAN /\ Bound(z)
      BY <1>4, <2>3, PresentRow DEF Bounded
    <3>2. d.enabled \in BOOLEAN /\ (d.enabled => c.enabled) /\ Follows(c, d, w)
      BY <1>4, <1>6, <2>3, RowFields
    <3>3. /\ c.enabled => c.failures < MaxFailures + Credit
          /\ ~c.enabled => c.failures <= MaxFailures + Credit
          /\ \A r \in Flight : r.id = z => c.failures <= r.failures + Credit
      BY <1>10, <2>3, <3>1 DEF Bound
    <3>4. d.failures \in Nat /\ d.failures <= c.failures + 1
      <4>1. w.op \in {"record", "retry"}
        BY <1>2, WriteFields
      <4> QED BY <3>1, <3>2, <4>1 DEF Follows
    <3>5. /\ d.enabled => d.failures + 1 < MaxFailures + Credit'
          /\ ~d.enabled => d.failures + 1 <= MaxFailures + Credit'
      <4> HIDE DEF c, d
      <4> QED BY <1>10, <3>1, <3>2, <3>3, <3>4
    <3>6. ASSUME NEW r \in Flight', r.id = x
          PROVE  d.failures <= r.failures + Credit'
      <4>1. r.failures \in Nat /\ c.failures <= r.failures + Credit
        BY <1>5, <2>3, <3>3, <3>6, FlightRows
      <4> HIDE DEF c, d
      <4> QED BY <1>10, <3>1, <3>4, <4>1
    <3>7. /\ d.enabled => d.failures + (IF Moved(x)' THEN 1 ELSE 0) < MaxFailures + Credit'
          /\ ~d.enabled => d.failures + (IF Flown(x)' THEN 1 ELSE 0) <= MaxFailures + Credit'
      <4>1. Credit' \in Nat
        BY <1>10
      <4> HIDE DEF c, d
      <4> QED BY <3>2, <3>4, <3>5, <4>1
    <3> QED BY <2>3, <3>6, <3>7 DEF Bound
  <2> QED BY <2>1, <2>2, <2>3
<1>12. Shape'
  BY <1>7, <1>8, <1>9 DEF Shape
<1> QED BY <1>3, <1>5, <1>10, <1>11, <1>12 DEF Bounded

Typed == Shape /\ Bounded

\* One late store call, of which w is the call.
Belated(w) ==
  /\ w \in late /\ Apply(w) /\ late' = late \ {w}
  /\ UNCHANGED <<now, first, tick, edits, faults, ran, again, forgot>>

\* A step, told by what it does.
Step ==
  \/ \E s \in Schedules : Owned(s)
  \/ TickStarts \/ TickEnds
  \/ \E r \in listed : Fired(r)
  \/ Answered
  \/ Written
  \/ CallFails \/ TickCutOff
  \/ \E w \in late : Belated(w)
  \/ Crash \/ Clock
  \/ UNCHANGED vars

LEMMA Steps == Typed /\ [Next]_vars => Step
<1> SUFFICES ASSUME Typed, [Next]_vars PROVE Step
  OBVIOUS
<1>1. ASSUME NEW s \in Schedules, Add(s) \/ Edit(s) \/ Pause(s) \/ Resume(s) \/ Delete(s)
      PROVE  Step
  BY <1>1, OwnerSteps DEF Typed, Step
<1>2. CASE Runs
  BY <1>2, FireSteps, SubmitSteps DEF Typed, Step, Runs
<1>3. CASE LateWrite
  BY <1>3 DEF LateWrite, Step, Belated
<1>4. CASE CallFails \/ TickCutOff \/ Crash \/ Clock \/ UNCHANGED vars
  BY <1>4 DEF Step
<1> QED BY <1>1, <1>2, <1>3, <1>4 DEF Next

LEMMA StillVars == Typed /\ UNCHANGED vars => Typed'
  BY DEF Typed, Shape, Rows, Clocks, Rounds, Called, Counts, Present, Busy, Flight, Bounded, Bound,
         Moved, Flown, Credit, vars, tick, ghosts, Good

\* Type correctness and the limit of the failures are kept by every step.
LEMMA TypedStep == Typed /\ [Next]_vars => Typed'
<1> SUFFICES ASSUME Typed, Step PROVE Typed'
  BY Steps
<1>1. ASSUME NEW s \in Schedules, Owned(s) PROVE Typed'
  BY <1>1, OwnerShape DEF Typed
<1>2. ASSUME NEW r \in listed, Fired(r) PROVE Typed'
  BY <1>2, FiredShape DEF Typed
<1>3. ASSUME NEW w \in late, Belated(w) PROVE Typed'
  BY <1>3, LateShape DEF Typed, Belated
<1>4. CASE TickStarts
  BY <1>4, StartsShape DEF Typed
<1>5. CASE TickEnds
  BY <1>5, EndsShape DEF Typed
<1>6. CASE Answered
  BY <1>6, AnsweredShape DEF Typed
<1>7. CASE Written
  BY <1>7, WrittenShape DEF Typed
<1>8. CASE CallFails
  BY <1>8, FailsShape DEF Typed
<1>9. CASE TickCutOff
  BY <1>9, CutShape DEF Typed
<1>10. CASE Crash
  BY <1>10, CrashShape DEF Typed
<1>11. CASE Clock
  BY <1>11, ClockShape DEF Typed
<1>12. CASE UNCHANGED vars
  BY <1>12, StillVars
<1> QED BY <1>1, <1>2, <1>3, <1>4, <1>5, <1>6, <1>7, <1>8, <1>9, <1>10, <1>11, <1>12 DEF Step

LEMMA TypedInit == Init => Typed
<1> SUFFICES ASSUME Init PROVE Typed
  OBVIOUS
<1>1. \A s \in Schedules : table[s] = Absent /\ ~Present(s)
  BY DEF Init, Present
<1>2. Rows
  BY <1>1 DEF Init, Rows
<1>3. Clocks
  BY TimesRange DEF Init, Clocks, Never
<1>4. Flight = {} /\ Rounds
  BY DEF Init, Flight, Rounds, Busy, Phases
<1>5. Called /\ Counts
  BY TimesRange DEF Init, Called, Counts
<1>6. Bounded
  BY <1>1, FS_EmptySet DEF Init, Bounded, Bound
<1> QED BY <1>2, <1>3, <1>4, <1>5, <1>6 DEF Typed, Shape

-----------------------------------------------------------------------------
(* A listed row is the row of the table, or its owner set a new time.       *)

\* No late store call has touched s.
Tracked(s) == s \notin doubt \/ s \notin forgot

Follow(r) ==
  LET c == table[r.id]
  IN Tracked(r.id) /\ Present(r.id) /\ c.enabled =>
       c = r \/ (c.next = c.due /\ c.next > tickAt /\ c.failures = 0)

Followed == \A r \in Flight : Follow(r)

\* The ghosts only grow.
LEMMA GhostsGrow ==
  ASSUME Typed, Step
  PROVE  doubt \subseteq doubt' /\ forgot \subseteq forgot'
<1>1. ASSUME NEW s \in Schedules, Owned(s) PROVE UNCHANGED <<doubt, forgot>>
  BY <1>1 DEF Owned, Commanded
<1>2. ASSUME NEW r \in listed, Fired(r) PROVE UNCHANGED <<doubt, forgot>>
  BY <1>2 DEF Fired, ghosts
<1>3. ASSUME NEW w \in late, Belated(w) PROVE doubt \subseteq doubt' /\ forgot' = forgot
  BY <1>3 DEF Belated, Apply
<1>4. CASE TickStarts \/ TickEnds \/ Answered \/ Clock \/ UNCHANGED vars
  BY <1>4 DEF TickStarts, TickEnds, Answered, Clock, vars, ghosts
<1>5. CASE Written
  BY <1>5 DEF Written, Apply
<1>6. CASE CallFails \/ TickCutOff
  BY <1>6 DEF CallFails, TickCutOff, Unrecorded
<1>7. CASE Crash
  BY <1>7 DEF Crash
<1> QED BY <1>1, <1>2, <1>3, <1>4, <1>5, <1>6, <1>7 DEF Step

LEMMA FollowCalm ==
  ASSUME NEW r, Follow(r), table'[r.id] = table[r.id], tickAt' = tickAt,
         doubt \subseteq doubt', forgot \subseteq forgot'
  PROVE  Follow(r)'
  BY DEF Follow, Tracked, Present

LEMMA FollowedStep ==
  ASSUME Typed, Followed, Step
  PROVE  Followed'
<1> USE DEF Typed
<1>0. doubt \subseteq doubt' /\ forgot \subseteq forgot'
  BY GhostsGrow
<1>1. ASSUME NEW s \in Schedules, Owned(s) PROVE Followed'
  <2>1. PICK r \in Row \cup {Gone} : Fresh(s, r) /\ Commanded(s, r)
    BY <1>1 DEF Owned
  <2>2. /\ table' = [table EXCEPT ![s] = r] /\ table'[s] = r
        /\ UNCHANGED <<phase, tickAt, listed, cur>>
        /\ table \in [Schedules -> Row \cup {Absent, Gone}]
        /\ now \in Nat /\ tickAt \in Nat /\ tickAt <= now
    BY <2>1 DEF Commanded, tick, Shape, Rows, Clocks
  <2>3. Flight' = Flight
    BY <2>2 DEF Flight, Busy
  <2>4. ASSUME NEW q \in Flight PROVE Follow(q)'
    <3>1. q.id \in Schedules
      BY FlightRows
    <3>2. CASE q.id # s
      <4>1. table'[q.id] = table[q.id] /\ Follow(q)
        BY <2>2, <3>1, <3>2 DEF Followed
      <4> QED BY <1>0, <2>2, <4>1, FollowCalm
    <3>3. CASE q.id = s /\ r # Gone /\ r.enabled
      <4>1. r.next = r.due /\ r.next > now /\ r.failures = 0 /\ r.next \in Int
        BY <2>1, <3>3, RowFields, TimesRange DEF Fresh
      <4>2. r.next > tickAt
        BY <2>2, <4>1
      <4> QED BY <2>2, <3>3, <4>1, <4>2 DEF Follow
    <3>4. CASE q.id = s /\ (r = Gone \/ ~r.enabled)
      BY <2>2, <3>4 DEF Follow, Present
    <3> QED BY <3>2, <3>3, <3>4
  <2> QED BY <2>3, <2>4 DEF Followed
<1>2. ASSUME Flight' \subseteq Flight, UNCHANGED <<table, tickAt>> PROVE Followed'
  <2>1. ASSUME NEW r \in Flight' PROVE Follow(r)'
    BY <1>0, <1>2, FollowCalm DEF Followed
  <2> QED BY <2>1 DEF Followed
<1>3. CASE TickStarts
  <2>1. Flight' = listed' /\ table' = table
    BY <1>3 DEF TickStarts, Flight, Busy
  <2>2. \A r \in listed' : table[r.id] = r
    <3>1. PICK L \in SUBSET DueNow : listed' = {table[s] : s \in L}
      BY <1>3 DEF TickStarts
    <3> QED BY <3>1, PresentRow DEF DueNow, Due
  <2> QED BY <2>1, <2>2 DEF Followed, Follow
<1>4. ASSUME NEW r \in listed, Fired(r) PROVE Followed'
  BY <1>2, <1>4, FiredShape DEF Fired
<1>5. CASE Answered
  BY <1>2, <1>5, AnsweredShape DEF Answered
<1>6. CASE Written
  <2>1. Applied(write) /\ Flight' = Flight \ {cur} /\ cur \in Flight
    BY <1>6, WrittenShape
  <2>2. tickAt' = tickAt /\ write.row = cur
    BY <1>6 DEF Written, Shape, Called, Good
  <2>3. ASSUME NEW r \in Flight' PROVE Follow(r)'
    <3>1. r \in Flight /\ r.id \in Schedules /\ r.id # cur.id
      <4>1. Flight' = listed
        BY <1>6 DEF Written, Flight, Busy
      <4>2. r \in Flight /\ r \in listed
        BY <2>1, <4>1
      <4> QED BY <1>6, <4>2, FlightRows DEF Written, Shape, Rounds, Busy
    <3>2. table'[r.id] = table[r.id] /\ Follow(r)
      BY <2>1, <2>2, <3>1 DEF Applied, Followed
    <3> QED BY <1>0, <2>2, <3>2, FollowCalm
  <2> QED BY <2>3 DEF Followed
<1>7. CASE CallFails
  BY <1>2, <1>7, FailsShape DEF CallFails
<1>8. CASE TickCutOff \/ Crash \/ TickEnds
  <2>1. Flight' = {}
    BY <1>8 DEF TickCutOff, Crash, TickEnds, Stopped, Flight, Busy
  <2> QED BY <2>1 DEF Followed
<1>9. ASSUME NEW w \in late, Belated(w) PROVE Followed'
  <2>1. Applied(w) /\ Flight' = Flight
    BY <1>9, LateShape DEF Belated
  <2>2. tickAt' = tickAt /\ w.row.id \in doubt /\ w.row.id \in forgot
    BY <1>9 DEF Belated, tick, Shape, Called
  <2>3. ASSUME NEW r \in Flight PROVE Follow(r)'
    <3>1. CASE r.id = w.row.id
      BY <1>0, <2>2, <3>1 DEF Follow, Tracked
    <3>2. CASE r.id # w.row.id
      <4>1. table'[r.id] = table[r.id] /\ Follow(r)
        BY <2>1, <3>2, FlightRows DEF Applied, Followed
      <4> QED BY <1>0, <2>2, <4>1, FollowCalm
    <3> QED BY <3>1, <3>2
  <2> QED BY <2>1, <2>3 DEF Followed
<1>10. CASE Clock \/ UNCHANGED vars
  <2>1. Flight' = Flight /\ UNCHANGED <<table, tickAt>>
    BY <1>10 DEF Clock, vars, tick, Flight, Busy
  <2> QED BY <1>2, <2>1
<1> QED BY <1>1, <1>3, <1>4, <1>5, <1>6, <1>7, <1>8, <1>9, <1>10 DEF Step

-----------------------------------------------------------------------------
(* Failures pause a schedule.                                               *)

\* What a store call of the tick makes of a row that is left on.
LEMMA WrittenRow ==
  ASSUME Typed, Followed, Written,
         Present(cur.id), Tracked(cur.id), table'[cur.id].enabled
  PROVE  LET c == table[cur.id]
             d == table'[cur.id]
         IN /\ c \in Row /\ d \in Row /\ c.enabled /\ Follows(c, d, write)
            /\ c = cur \/ (c.next = c.due /\ c.next > tickAt /\ c.failures = 0)
            /\ Matches(c, write) = (c = cur)
            /\ write.op = "retry" \/ (write.op = "record" /\ c = cur) =>
                 d.next = write.next /\ write.next # Never /\ write.next > tickAt
            /\ c.next = cur.next => c = cur
<1> USE DEF Typed
<1> DEFINE z == cur.id
           c == table[z]
           d == table'[z]
<1>1. /\ Applied(write) /\ cur \in Flight /\ cur \in Row /\ z \in Schedules /\ phase \in {"writing", "rescuing"}
      /\ Good(write, cur, tickAt) /\ write.row = cur
  BY WrittenShape, FlightRows DEF Written, Shape, Called, Good
<1>2. c \in Row /\ d \in Row /\ Follows(c, d, write)
  BY <1>1, PresentRow DEF Applied
<1>3. cur.enabled /\ cur.next <= tickAt /\ cur.next \in Int /\ c.next \in Int /\ tickAt \in Int
  BY <1>1, <1>2, RowFields, TimesRange DEF Shape, Rounds, Clocks
<1>4. write.op \in {"record", "retry"}
  BY <1>1, WriteFields DEF Good
<1>5. c.enabled
  BY <1>2, <1>4 DEF Follows, Matches
<1>6. c = cur \/ (c.next = c.due /\ c.next > tickAt /\ c.failures = 0)
  BY <1>1, <1>5 DEF Followed, Follow
<1>7. c.next = cur.next => c = cur
  BY <1>3, <1>6
<1>8. Matches(c, write) = (c = cur)
  BY <1>1, <1>3, <1>5, <1>7 DEF Matches
<1>9. ASSUME write.op = "retry" \/ (write.op = "record" /\ c = cur)
      PROVE  d.next = write.next /\ write.next # Never /\ write.next > tickAt
  <2>1. write.next = Never \/ write.next > tickAt
    BY <1>1 DEF Good
  <2>2. write.op = "retry" => write.next # Never
    BY <1>1 DEF Good
  <2> QED BY <1>2, <1>8, <1>9, <2>1, <2>2 DEF Follows
<1> QED BY <1>2, <1>5, <1>6, <1>7, <1>8, <1>9

Paused(s) ==
  Present(s) /\ table[s].enabled => table[s].failures < MaxFailures \/ s \in forgot

LEMMA PausedStep ==
  ASSUME Typed, Followed, FailuresPause, Step
  PROVE  FailuresPause'
<1> USE DEF Typed
<1>0. doubt \subseteq doubt' /\ forgot \subseteq forgot'
  BY GhostsGrow
<1> SUFFICES ASSUME NEW s \in Schedules PROVE Paused(s)'
  BY DEF FailuresPause, Paused
<1>a. Paused(s)
  BY DEF FailuresPause, Paused
<1>b. ASSUME table'[s] = table[s] PROVE Paused(s)'
  BY <1>0, <1>a, <1>b DEF Paused, Present
<1>1. ASSUME NEW x \in Schedules, Owned(x) PROVE Paused(s)'
  <2>1. PICK r \in Row \cup {Gone} : Fresh(x, r) /\ Commanded(x, r)
    BY <1>1 DEF Owned
  <2>2. table \in [Schedules -> Row \cup {Absent, Gone}] /\ table' = [table EXCEPT ![x] = r]
    BY <2>1 DEF Commanded, Shape, Rows
  <2>3. CASE s # x
    BY <1>b, <2>2, <2>3
  <2>4. CASE s = x
    BY <2>1, <2>2, <2>4 DEF Paused, Present, Fresh
  <2> QED BY <2>3, <2>4
<1>2. CASE Written
  <2>1. /\ Applied(write) /\ cur \in Row /\ cur.id \in Schedules /\ Good(write, cur, tickAt)
        /\ write.row = cur
    BY <1>2, WrittenShape, FlightRows DEF Written, Shape, Called, Good
  <2>2. CASE s # cur.id \/ ~Present(s)
    BY <1>b, <2>1, <2>2 DEF Applied
  <2>3. CASE s = cur.id /\ Present(s) /\ table'[s].enabled /\ s \notin forgot
    <3> DEFINE c == table[s]
               d == table'[s]
    <3>1. /\ c \in Row /\ c.enabled /\ Follows(c, d, write)
          /\ c = cur \/ c.failures = 0
          /\ write.op = "record" /\ c = cur => write.next # Never
      BY <1>2, <2>3, WrittenRow DEF Tracked
    <3>2. c.failures < MaxFailures
      BY <1>a, <2>3, <3>1 DEF Paused
    <3>3. /\ write.op \in {"record", "retry"}
          /\ write.failed => write.op = "record"
          /\ write.failed /\ write.next # Never => cur.failures + 1 < MaxFailures
      BY <2>1, WriteFields DEF Good
    <3>4. \/ d.failures = 0 \/ d.failures = c.failures
          \/ write.failed /\ d.failures = c.failures + 1
      BY <3>1, <3>3 DEF Follows
    <3>5. write.failed => c.failures + 1 < MaxFailures
      BY <3>1, <3>3
    <3>6. c.failures \in Nat
      BY <3>1, RowFields
    <3> HIDE DEF c, d
    <3>7. d.failures < MaxFailures
      <4>1. CASE write.failed /\ d.failures = c.failures + 1
        BY <3>5, <4>1
      <4>2. CASE d.failures = 0 \/ d.failures = c.failures
        BY <3>2, <4>2
      <4> QED BY <3>4, <4>1, <4>2
    <3> QED BY <3>7 DEF Paused, d
  <2> QED BY <1>0, <2>2, <2>3 DEF Paused
<1>3. ASSUME NEW w \in late, Belated(w) PROVE Paused(s)'
  <2>1. Applied(w) /\ w.row.id \in forgot
    BY <1>3, LateShape DEF Belated, Shape, Called
  <2> QED BY <1>0, <1>b, <2>1 DEF Applied, Paused
<1>4. ASSUME NEW r \in listed, Fired(r) PROVE Paused(s)'
  BY <1>b, <1>4 DEF Fired
<1>5. CASE TickStarts \/ TickEnds \/ Answered \/ CallFails \/ TickCutOff \/ Crash \/ Clock \/ UNCHANGED vars
  BY <1>b, <1>5 DEF TickStarts, TickEnds, Answered, CallFails, TickCutOff, Crash, Clock, vars
<1> QED BY <1>1, <1>2, <1>3, <1>4, <1>5 DEF Step

-----------------------------------------------------------------------------
(* The owner's changes stand.                                               *)

LEMMA EditStep ==
  ASSUME Typed, Followed, NEW w \in Done,
         w.op = "record", Present(w.row.id), table[w.row.id].ver # w.row.ver, w.row.id \notin doubt
  PROVE  /\ table'[w.row.id].next = table[w.row.id].next
         /\ table'[w.row.id].enabled = table[w.row.id].enabled
<1> USE DEF Typed
<1>1. w \notin late
  BY DEF Shape, Called
<1>2. Written /\ w = write
  BY <1>1 DEF Done
<1>3. Applied(write) /\ cur \in Flight /\ w.row = cur /\ Good(write, cur, tickAt)
  BY <1>2, WrittenShape DEF Written, Shape, Called, Good
<1> DEFINE c == table[cur.id]
<1>4. cur.id \in Schedules /\ cur.next <= tickAt /\ cur.next \in Int /\ tickAt \in Int
  BY <1>3, FlightRows, RowFields, TimesRange DEF Shape, Rounds, Clocks
<1>5. c \in Row /\ c # cur /\ c.next \in Int
  BY <1>3, <1>4, PresentRow, RowFields, TimesRange
<1>6. c.enabled => c.next > tickAt
  BY <1>3, <1>5 DEF Followed, Follow, Tracked
<1>7. ~Matches(c, write)
  BY <1>2, <1>3, <1>4, <1>5, <1>6 DEF Matches
<1>8. Follows(c, table'[cur.id], write)
  BY <1>2, <1>3 DEF Applied
<1> QED BY <1>2, <1>3, <1>7, <1>8 DEF Follows

-----------------------------------------------------------------------------
(* One occurrence starts one job.                                           *)

\* The start of the current row of s is being recorded.
Starting(s) == phase = "writing" /\ write.ran /\ cur.id = s

\* The row stands for an occurrence that has not been started.
NotRun(r) ==
  r.id \notin doubt =>
    /\ 0 <= r.due /\ r.due <= r.next
    /\ ran[r.id] < r.due \/ Starting(r.id)

Listed(s) == Present(s) /\ table[s].enabled

Once ==
  /\ OncePerDue
  /\ \A s \in Schedules : Listed(s) => NotRun(table[s])
  /\ \A r \in Flight : NotRun(r)
  /\ \A s \in Schedules : Starting(s) /\ s \notin doubt => ran[s] <= tickAt

LEMMA RanInt ==
  ASSUME Typed
  PROVE  /\ \A s \in Schedules : ran[s] \in Int /\ ran[s] >= Never /\ ran[s] \in Moments
         /\ \A r \in Row : r.next \in Int /\ r.due \in Int /\ r.id \in Schedules
         /\ tickAt \in Nat /\ now \in Nat /\ tickAt <= now
  BY RowFields, TimesRange DEF Typed, Shape, Clocks, Counts

\* Nothing is being recorded, and the starts are what they were.
LEMMA NotRunCalm ==
  ASSUME NEW r, NotRun(r), ran'[r.id] = ran[r.id], Starting(r.id) => Starting(r.id)' \/ r.id \in doubt',
         doubt \subseteq doubt'
  PROVE  NotRun(r)'
  BY DEF NotRun

LEMMA ListedRow ==
  ASSUME Typed, NEW s \in Schedules
  PROVE  Listed(s) => table[s] \in Row /\ table[s].id = s
  BY PresentRow DEF Typed, Listed

\* A step that leaves the table, the starts and the doubts.
LEMMA OnceCalm ==
  ASSUME Typed, Once, UNCHANGED <<table, ran, again>>, Flight' \subseteq Flight, doubt \subseteq doubt',
         UNCHANGED tickAt \/ (\A s \in Schedules : ~Starting(s)'),
         \A s \in Schedules : Starting(s)' => Starting(s),
         \A s \in Schedules : Starting(s) => Starting(s)' \/ s \in doubt'
  PROVE  Once'
<1>1. ASSUME NEW s \in Schedules, Listed(s)' PROVE NotRun(table[s])'
  <2>1. Listed(s) /\ NotRun(table[s]) /\ table[s].id = s
    BY <1>1, ListedRow DEF Once, Listed, Present
  <2>2. ran'[s] = ran[s] /\ (Starting(s) => Starting(s)' \/ s \in doubt') /\ table'[s] = table[s]
    OBVIOUS
  <2> QED BY <2>1, <2>2 DEF NotRun, Starting
<1>2. ASSUME NEW r \in Flight' PROVE NotRun(r)'
  <2>1. NotRun(r) /\ r.id \in Schedules
    BY FlightRows DEF Typed, Once
  <2> QED BY <2>1, NotRunCalm
<1>3. OncePerDue'
  BY DEF Once, OncePerDue
<1>4. ASSUME NEW s \in Schedules, Starting(s)', s \notin doubt' PROVE ran'[s] <= tickAt'
  BY <1>4 DEF Once
<1> QED BY <1>1, <1>2, <1>3, <1>4 DEF Once

\* Row d takes the place of row c when the tick's store call is done.
LEMMA WrittenOnce ==
  ASSUME Typed, Followed, Once, Written,
         Present(cur.id), table'[cur.id].enabled, cur.id \notin doubt'
  PROVE  LET d == table'[cur.id]
         IN 0 <= d.due /\ d.due <= d.next /\ ran'[cur.id] < d.due
<1> USE DEF Typed
<1> DEFINE z == cur.id
           c == table[z]
           d == table'[z]
<1>1. /\ Applied(write) /\ cur \in Flight /\ cur \in Row /\ z \in Schedules
      /\ phase \in {"writing", "rescuing"}
      /\ Good(write, cur, tickAt) /\ write.row = cur /\ phase' = "rows"
      /\ UNCHANGED <<ran, tickAt>>
  BY WrittenShape, FlightRows DEF Written, Shape, Called, Good
<1>2. z \notin doubt /\ (write.op = "retry" => c.next = cur.next)
  BY <1>1 DEF Applied
<1>3. /\ c \in Row /\ d \in Row /\ c.enabled /\ Follows(c, d, write)
      /\ c = cur \/ (c.next = c.due /\ c.next > tickAt /\ c.failures = 0)
      /\ Matches(c, write) = (c = cur)
      /\ write.op = "retry" \/ (write.op = "record" /\ c = cur) =>
           d.next = write.next /\ write.next # Never /\ write.next > tickAt
      /\ c.next = cur.next => c = cur
    BY <1>2, WrittenRow DEF Tracked
<1>4. /\ 0 <= cur.due /\ cur.due <= cur.next /\ cur.next <= tickAt
      /\ ran[z] < cur.due \/ Starting(z)
      /\ Starting(z) => ran[z] <= tickAt
  BY <1>1, <1>2 DEF Once, NotRun, Shape, Rounds
<1>5. /\ 0 <= c.due /\ c.due <= c.next
      /\ ran[z] < c.due \/ Starting(z)
  <2>1. Listed(z) /\ c.id = z
    BY <1>1, <1>3, PresentRow DEF Listed
  <2> QED BY <1>1, <1>2, <2>1 DEF Once, NotRun
<1>6. /\ ran[z] \in Int /\ tickAt \in Nat /\ c.next \in Int /\ c.due \in Int /\ cur.next \in Int
      /\ cur.due \in Int /\ d.next \in Int /\ d.due \in Int
  BY <1>1, <1>3, RanInt
<1>7. /\ write.op \in {"record", "retry"} /\ write.ran \in BOOLEAN /\ d.id = z
      /\ write.op = "retry" => ~Starting(z)
      /\ write.why = "retrying" => ~Starting(z)
  <2>1. d.id = z
    BY <1>1, <1>3, PresentRow DEF Follows
  <2> QED BY <1>1, <2>1, WriteFields DEF Good, Starting
<1>8. CASE write.op = "retry"
  <2>1. c = cur /\ d.next = write.next /\ write.next > tickAt /\ d.due = cur.due
    BY <1>2, <1>3, <1>8 DEF Follows
  <2>2. 0 <= d.due /\ d.due <= d.next /\ ran[z] < d.due
    <3> HIDE DEF c, d, z
    <3> QED BY <1>4, <1>6, <1>7, <1>8, <2>1
  <2> QED BY <1>1, <2>2
<1>9. CASE write.op = "record" /\ c = cur
  <2>1. /\ d.next = write.next /\ write.next > tickAt
        /\ d.due = IF write.why = "retrying" THEN cur.due ELSE write.next
    BY <1>3, <1>9 DEF Follows
  <2>2. 0 <= d.due /\ d.due <= d.next /\ ran[z] < d.due
    <3> HIDE DEF c, d, z
    <3> QED BY <1>4, <1>6, <1>7, <1>9, <2>1
  <2> QED BY <1>1, <2>2
<1>10. CASE write.op = "record" /\ c # cur
  <2>1. d.next = c.next /\ d.due = c.due /\ c.next = c.due /\ c.next > tickAt
    BY <1>3, <1>10 DEF Follows
  <2>2. 0 <= d.due /\ d.due <= d.next /\ ran[z] < d.due
    <3> HIDE DEF c, d, z
    <3> QED BY <1>4, <1>5, <1>6, <2>1
  <2> QED BY <1>1, <2>2
<1> QED BY <1>7, <1>8, <1>9, <1>10

LEMMA OnceStep ==
  ASSUME Typed, Followed, Once, Step
  PROVE  Once'
<1> USE DEF Typed
<1>0. doubt \subseteq doubt' /\ forgot \subseteq forgot'
  BY GhostsGrow
<1>a. write # NoWrite => phase \in {"writing", "rescuing"}
  BY DEF Shape, Called
<1>b. phase = "writing" => write # NoWrite /\ cur.id \in Schedules
  BY WriteFields, RowFields DEF Shape, Called, Rounds, Good, Busy
<1>1. ASSUME NEW s \in Schedules, Owned(s) PROVE Once'
  <2>1. PICK r \in Row \cup {Gone} : Fresh(s, r) /\ Commanded(s, r)
    BY <1>1 DEF Owned
  <2>2. /\ table' = [table EXCEPT ![s] = r] /\ table'[s] = r
        /\ ran' = [ran EXCEPT ![s] = Never] /\ ran'[s] = Never
        /\ \A x \in Schedules : x # s => table'[x] = table[x] /\ ran'[x] = ran[x]
        /\ UNCHANGED <<phase, tickAt, listed, cur, write, again, doubt>>
    BY <2>1 DEF Commanded, tick, Shape, Rows, Counts
  <2>3. Flight' = Flight /\ \A x : Starting(x)' = Starting(x)
    BY <2>2 DEF Flight, Busy, Starting
  <2>4. ASSUME NEW x \in Schedules, Listed(x)' PROVE NotRun(table[x])'
    <3>1. CASE x # s
      <4>1. Listed(x) /\ NotRun(table[x]) /\ table[x].id = x
        BY <2>2, <2>4, <3>1, ListedRow DEF Once, Listed, Present
      <4> QED BY <2>2, <2>3, <3>1, <4>1 DEF NotRun
    <3>2. CASE x = s
      <4>1. r \in Row /\ r.id = s /\ r.enabled /\ r.next = r.due /\ r.next > now
        BY <2>1, <2>2, <2>4, <3>2 DEF Listed, Present, Fresh
      <4>2. r.due \in Int /\ now \in Nat
        BY <4>1, RanInt
      <4> QED BY <2>2, <3>2, <4>1, <4>2 DEF NotRun, Never
    <3> QED BY <3>1, <3>2
  <2>5. ASSUME NEW q \in Flight PROVE NotRun(q)'
    <3>1. q \in Row /\ q.id \in Schedules /\ NotRun(q) /\ q.due \in Int
      BY FlightRows, RanInt DEF Once
    <3>2. CASE q.id # s
      BY <2>2, <2>3, <3>1, <3>2 DEF NotRun
    <3>3. CASE q.id = s
      BY <2>2, <3>1, <3>3 DEF NotRun, Never
    <3> QED BY <3>2, <3>3
  <2>6. ASSUME NEW x \in Schedules, Starting(x)', x \notin doubt' PROVE ran'[x] <= tickAt'
    <3>1. tickAt \in Nat
      BY RanInt
    <3> QED BY <2>2, <2>3, <2>6, <3>1 DEF Once, Never
  <2>7. OncePerDue'
    BY <2>2 DEF Once, OncePerDue
  <2> QED BY <2>3, <2>4, <2>5, <2>6, <2>7 DEF Once
<1>2. CASE TickStarts
  <2>0. PICK L \in SUBSET DueNow : listed' = {table[s] : s \in L}
    BY <1>2 DEF TickStarts
  <2>1. /\ Flight' = listed' /\ phase = "idle" /\ phase' = "rows"
        /\ UNCHANGED <<table, ran, again, doubt>>
        /\ listed' = {table[s] : s \in L} /\ \A s \in L : s \in Schedules /\ Due(s)
    BY <1>2, <2>0 DEF TickStarts, DueNow, Flight, Busy, ghosts
  <2>2. \A s : ~Starting(s) /\ ~Starting(s)'
    BY <2>1 DEF Starting
  <2>3. \A s \in Schedules : Listed(s)' => Listed(s)
    BY <2>1 DEF Listed, Present
  <2>4. ASSUME NEW s \in Schedules, Listed(s) PROVE NotRun(table[s])'
    <3>1. NotRun(table[s]) /\ table'[s] = table[s]
      BY <2>1, <2>4 DEF Once
    <3> QED BY <2>1, <2>2, <3>1 DEF NotRun
  <2>5. \A r \in listed' : \E s \in Schedules : r = table'[s] /\ Listed(s)
    BY <2>1 DEF Due, Listed
  <2>6. \A r \in listed' : NotRun(r)'
    BY <2>1, <2>4, <2>5 DEF NotRun, Starting
  <2> QED BY <2>1, <2>2, <2>3, <2>4, <2>6 DEF Once, OncePerDue
<1>3. ASSUME NEW r \in listed, Fired(r) PROVE Once'
  <2>1. Flight' = Flight /\ UNCHANGED <<table, ran, again, tickAt>>
    BY <1>3, FiredShape DEF Fired, ghosts
  <2>2. \A s : ~Starting(s) /\ ~Starting(s)'
    BY <1>3 DEF Starting, Fired
  <2> QED BY <1>0, <2>1, <2>2, OnceCalm
<1>4. CASE Answered
  <2>1. /\ Flight' = Flight /\ cur \in Flight /\ cur \in Row
        /\ UNCHANGED <<table, tickAt, doubt, cur, listed>>
        /\ phase = "submitting" /\ phase' = "writing"
    BY <1>4, AnsweredShape, FlightRows DEF Answered, Flight, Busy
  <2>2. \A s : ~Starting(s)
    BY <2>1 DEF Starting
  <2>3. CASE ~write'.ran /\ UNCHANGED <<again, ran>>
    <3>1. \A s : ~Starting(s)'
      BY <2>3 DEF Starting
    <3> QED BY <1>0, <2>1, <2>2, <2>3, <3>1, OnceCalm
  <2>4. CASE /\ write'.ran /\ ran' = [ran EXCEPT ![cur.id] = cur.due]
             /\ again' = IF ran[cur.id] = cur.due THEN again \cup {cur.id} ELSE again
    <3>1. /\ \A s : Starting(s)' <=> s = cur.id
          /\ \A s \in Schedules : s # cur.id => ran'[s] = ran[s]
          /\ cur.id \in Schedules /\ ran'[cur.id] = cur.due
      BY <2>1, <2>4, RowFields DEF Starting, Shape, Counts
    <3>2. cur.id \notin doubt => ran[cur.id] # cur.due /\ cur.due <= tickAt
      <4>1. cur.next <= tickAt /\ cur.next \in Int /\ cur.due \in Int /\ tickAt \in Nat /\ ran[cur.id] \in Int
        BY <2>1, <3>1, RanInt DEF Shape, Rounds
      <4>2. cur.id \notin doubt => cur.due <= cur.next /\ ran[cur.id] < cur.due
        BY <2>1, <2>2 DEF Once, NotRun
      <4> QED BY <4>1, <4>2
    <3>3. OncePerDue'
      BY <2>1, <2>4, <3>2 DEF Once, OncePerDue
    <3>4. ASSUME NEW s \in Schedules, Listed(s)' PROVE NotRun(table[s])'
      <4>1. Listed(s) /\ NotRun(table[s]) /\ table[s].id = s /\ table'[s] = table[s]
        BY <2>1, <3>4, ListedRow DEF Once, Listed, Present
      <4> QED BY <2>1, <2>2, <3>1, <4>1 DEF NotRun
    <3>5. ASSUME NEW q \in Flight PROVE NotRun(q)'
      <4>1. NotRun(q) /\ q.id \in Schedules
        BY FlightRows DEF Once
      <4> QED BY <2>1, <2>2, <3>1, <4>1 DEF NotRun
    <3>6. \A s \in Schedules : Starting(s)' /\ s \notin doubt' => ran'[s] <= tickAt'
      BY <2>1, <3>1, <3>2
    <3> QED BY <2>1, <3>3, <3>4, <3>5, <3>6 DEF Once
  <2> QED BY <1>4, <2>3, <2>4 DEF Answered
<1>5. CASE Written
  <2>1. /\ Applied(write) /\ Flight' = Flight \ {cur} /\ cur \in Flight /\ write.row = cur
        /\ phase' = "rows" /\ UNCHANGED <<ran, again, tickAt>> /\ cur.id \in Schedules
    BY <1>5, WrittenShape, FlightRows DEF Written, Shape, Called, Good
  <2>2. \A s : ~Starting(s)'
    BY <2>1 DEF Starting
  <2>3. ASSUME NEW s \in Schedules, Listed(s)' PROVE NotRun(table[s])'
    <3>1. CASE s # cur.id
      <4>1. table'[s] = table[s] /\ ~Starting(s)
        BY <2>1, <3>1 DEF Applied, Starting
      <4>2. Listed(s) /\ NotRun(table[s]) /\ table[s].id = s
        BY <2>3, <4>1, ListedRow DEF Once, Listed, Present
      <4> QED BY <1>0, <2>1, <4>1, <4>2 DEF NotRun
    <3>2. CASE s = cur.id /\ ~Present(s)
      BY <2>1, <2>3, <3>2 DEF Applied, Listed, Present
    <3>3. CASE s = cur.id /\ Present(s)
      <4>1. table'[s] \in Row /\ table'[s].id = s
        BY <2>1, <3>3, PresentRow DEF Applied, Follows
      <4>2. CASE s \notin doubt'
        <5>1. LET d == table'[cur.id]
              IN 0 <= d.due /\ d.due <= d.next /\ ran'[cur.id] < d.due
          BY <1>5, <2>3, <3>3, <4>2, WrittenOnce DEF Listed
        <5> QED BY <3>3, <4>1, <5>1 DEF NotRun
      <4> QED BY <4>1, <4>2 DEF NotRun
    <3> QED BY <3>1, <3>2, <3>3
  <2>4. ASSUME NEW r \in Flight' PROVE NotRun(r)'
    <3>1. NotRun(r) /\ r.id \in Schedules /\ r.id # cur.id
      <4>1. Flight' = listed
        BY <1>5 DEF Written, Flight, Busy
      <4>2. r \in Flight /\ r \in listed
        BY <2>1, <4>1
      <4> QED BY <1>5, <4>2, FlightRows DEF Once, Written, Shape, Rounds, Busy
    <3> QED BY <1>0, <2>1, <3>1, NotRunCalm DEF Starting
  <2>5. OncePerDue'
    BY <1>0, <2>1 DEF Once, OncePerDue
  <2> QED BY <2>2, <2>3, <2>4, <2>5 DEF Once
<1>6. CASE CallFails
  <2>1. Flight' = Flight /\ UNCHANGED <<table, ran, again, tickAt>>
    BY <1>6, FailsShape DEF CallFails
  <2>2. \A s : ~Starting(s)' /\ (Starting(s) => s \in doubt')
    BY <1>6, <1>b DEF Starting, CallFails, Await, Unrecorded
  <2> QED BY <1>0, <2>1, <2>2, OnceCalm
<1>7. CASE TickCutOff \/ Crash \/ TickEnds
  <2>1. Flight' = {} /\ UNCHANGED <<table, ran, again>> /\ phase' = "idle"
    BY <1>7 DEF TickCutOff, Crash, TickEnds, Stopped, Flight, Busy, ghosts
  <2>2. \A s : ~Starting(s)'
    BY <2>1 DEF Starting
  <2>3. \A s : Starting(s) => s \in doubt'
    BY <1>7, <1>b DEF Starting, TickCutOff, Unrecorded, Crash, TickEnds
  <2> QED BY <1>0, <2>1, <2>2, <2>3, OnceCalm
<1>8. ASSUME NEW w \in late, Belated(w) PROVE Once'
  <2>1. /\ Applied(w) /\ Flight' = Flight /\ w.row.id \in doubt
        /\ UNCHANGED <<phase, cur, write, ran, again, tickAt>>
    BY <1>8, LateShape DEF Belated, tick, Shape, Called
  <2>2. \A s : Starting(s)' = Starting(s)
    BY <2>1 DEF Starting
  <2>3. ASSUME NEW s \in Schedules, Listed(s)' PROVE NotRun(table[s])'
    <3>1. CASE s # w.row.id
      <4>1. table'[s] = table[s]
        BY <2>1, <3>1 DEF Applied
      <4>2. Listed(s) /\ NotRun(table[s]) /\ table[s].id = s
        BY <2>3, <4>1, ListedRow DEF Once, Listed, Present
      <4> QED BY <1>0, <2>1, <2>2, <4>1, <4>2 DEF NotRun
    <3>2. CASE s = w.row.id
      <4>1. table'[s] # Absent /\ table'[s] # Gone
        BY <2>3 DEF Listed, Present
      <4>2. table'[s].id = s
        BY <2>1, <3>2, <4>1, PresentRow DEF Applied, Follows
      <4> QED BY <1>0, <2>1, <3>2, <4>2 DEF NotRun
    <3> QED BY <3>1, <3>2
  <2>4. ASSUME NEW r \in Flight PROVE NotRun(r)'
    BY <1>0, <2>1, <2>2, NotRunCalm DEF Once
  <2>5. OncePerDue'
    BY <1>0, <2>1 DEF Once, OncePerDue
  <2>6. \A s \in Schedules : Starting(s)' /\ s \notin doubt' => ran'[s] <= tickAt'
    BY <1>0, <2>1, <2>2 DEF Once
  <2> QED BY <2>1, <2>3, <2>4, <2>5, <2>6 DEF Once
<1>9. CASE Clock \/ UNCHANGED vars
  <2>1. Flight' = Flight /\ UNCHANGED <<table, ran, again, tickAt, phase, cur, write>>
    BY <1>9 DEF Clock, vars, tick, ghosts, Flight, Busy
  <2>2. \A s : Starting(s)' = Starting(s)
    BY <2>1 DEF Starting
  <2> QED BY <1>0, <2>1, <2>2, OnceCalm
<1> QED BY <1>1, <1>2, <1>3, <1>4, <1>5, <1>6, <1>7, <1>8, <1>9 DEF Step

-----------------------------------------------------------------------------
(* No job starts too late.                                                  *)

\* The tick gives up the current row of s, and records that.
Closing(s) ==
  /\ phase = "writing" /\ write.op = "record" /\ write.why # "retrying"
  /\ cur.id = s /\ table[s] = cur /\ first[s] = Never

\* The first try is counted from the occurrence that the row stands for, at the latest.
InTime(s) == s \notin forgot => Since(table[s]) <= table[s].due \/ Closing(s)

Timed ==
  /\ \A s \in Schedules : Listed(s) => InTime(s)
  /\ \A r \in listed : r.id \notin forgot => Since(r) <= r.due
  /\ Busy /\ (phase = "submitting" \/ write.why = "retrying") =>
       first[cur.id] # Never \/ cur.id \in forgot
  /\ phase = "submitting" \/ (phase = "writing" /\ write.ran) =>
       tickAt - cur.due <= Grace \/ cur.id \in forgot

LEMMA FirstInt ==
  ASSUME Typed
  PROVE  /\ first \in [Schedules -> Moments] /\ tickAt \in Nat
         /\ \A s \in Schedules : first[s] \in Int /\ first[s] <= now /\ (phase # "idle" => first[s] <= tickAt)
         /\ \A r \in Row : Since(r) \in Int
<1>1. /\ first \in [Schedules -> Moments] /\ tickAt \in Nat
      /\ \A s \in Schedules : first[s] \in Int /\ first[s] <= now /\ (phase # "idle" => first[s] <= tickAt)
  BY TimesRange DEF Typed, Shape, Clocks
<1>2. \A r \in Row : r.id \in Schedules /\ r.next \in Int
  BY RowFields, TimesRange
<1> QED BY <1>1, <1>2 DEF Since

\* A row the tick is told to give up, or to put off, is still the row of the table,
\* or stands for a time to come.
LEMMA SinceAhead ==
  ASSUME Typed, Followed, phase # "idle", NEW r \in Flight, r.id \notin forgot, Listed(r.id), table[r.id] # r
  PROVE  LET c == table[r.id] IN c.next = c.due /\ c.due > tickAt /\ c.due \in Int /\ first[r.id] <= c.due
<1> DEFINE c == table[r.id]
<1>1. r.id \in Schedules
  BY FlightRows DEF Typed
<1>2. c \in Row /\ c.due \in Int
  BY <1>1, ListedRow, RanInt
<1>3. c.next = c.due /\ c.next > tickAt
  BY DEF Followed, Follow, Tracked, Listed
<1>4. first[r.id] <= tickAt /\ first[r.id] \in Int /\ tickAt \in Nat
  BY <1>1, FirstInt
<1> HIDE DEF c
<1>5. first[r.id] <= c.due
  BY <1>2, <1>3, <1>4
<1> QED BY <1>2, <1>3, <1>5 DEF c

\* A step that leaves the table and what was tried.
LEMMA TimedCalm ==
  ASSUME Typed, Timed, NEW s \in Schedules, table'[s] = table[s], first'[s] = first[s],
         forgot \subseteq forgot', Closing(s) => Closing(s)' \/ s \in forgot'
  PROVE  (Listed(s) => InTime(s))'
<1>1. Listed(s)' => Listed(s) /\ table[s].id = s
  BY ListedRow DEF Listed, Present
<1>2. Listed(s) => InTime(s)
  BY DEF Timed
<1> QED BY <1>1, <1>2 DEF InTime, Since

\* The same for the rows in flight.
LEMMA TimedFlight ==
  ASSUME Typed, Timed, NEW r \in listed, first'[r.id] = first[r.id], forgot \subseteq forgot'
  PROVE  r.id \notin forgot' => Since(r)' <= r.due
  BY DEF Timed, Since

LEMMA FiredTimed ==
  ASSUME Typed, Followed, Timed, NEW r \in listed, Fired(r)
  PROVE  Timed'
<1> USE DEF Typed
<1>1. /\ phase = "rows" /\ cur' = r /\ listed' = listed \ {r}
      /\ UNCHANGED <<table, now, tickAt, forgot>>
      /\ r \in Row /\ r \in Flight /\ r.id \in Schedules
  BY FlightRows DEF Fired, ghosts, Flight
<1>2. \A q \in listed' : q \in listed /\ q.id # r.id /\ q.id \in Schedules
  BY <1>1, FlightRows DEF Shape, Rounds, Flight
<1>3. \A s : ~Closing(s)
  BY <1>1 DEF Closing
<1>4. r.next # Never /\ r.next \in Int /\ r.due \in Int /\ r.next <= tickAt /\ tickAt \in Nat
  BY <1>1, RanInt DEF Shape, Rounds
<1>5. Since(r) # Never /\ Since(r) <= tickAt /\ Since(r) \in Int
  BY <1>1, <1>4, FirstInt DEF Since
<1>6. r.id \notin forgot => Since(r) <= r.due
  BY DEF Timed
<1>7. PICK t \in {Never, Since(r)} : Tried(r, t) /\ (t = Never => phase' = "writing" /\ write'.op = "record"
        /\ write'.why # "retrying")
  BY <1>5 DEF Fired
<1>8. first'[r.id] = t /\ \A s \in Schedules : s # r.id => first'[s] = first[s]
  BY <1>1, <1>7, FirstInt DEF Tried
<1>9. ASSUME NEW s \in Schedules, Listed(s)' PROVE InTime(s)'
  <2>1. CASE s # r.id
    BY <1>1, <1>3, <1>8, <1>9, <2>1, TimedCalm
  <2>2. CASE s = r.id /\ s \in forgot
    BY <1>1, <2>2 DEF InTime
  <2>3. CASE s = r.id /\ s \notin forgot
    <3>1. Listed(s) /\ table'[s] = table[s] /\ table[s].id = s
      BY <1>1, <1>9, ListedRow DEF Listed, Present
    <3>2. CASE table[s] = r
      <4>1. CASE t = Never
        BY <1>1, <1>7, <1>8, <2>3, <3>1, <3>2, <4>1 DEF InTime, Closing
      <4>2. CASE t = Since(r)
        BY <1>5, <1>6, <1>8, <2>3, <3>1, <3>2, <4>2 DEF InTime, Since
      <4> QED BY <1>7, <4>1, <4>2
    <3>3. CASE table[s] # r
      <4>1. table[s].next = table[s].due /\ table[s].due > tickAt /\ table[s].due \in Int
        BY <1>1, <2>3, <3>1, <3>3, SinceAhead
      <4>2. t = Never \/ t <= table[s].due
        BY <1>4, <1>5, <1>7, <4>1
      <4> QED BY <1>8, <2>3, <3>1, <4>1, <4>2 DEF InTime, Since
    <3> QED BY <3>2, <3>3
  <2> QED BY <2>1, <2>2, <2>3
<1>10. ASSUME NEW q \in listed' PROVE q.id \notin forgot' => Since(q)' <= q.due
  BY <1>1, <1>2, <1>8, TimedFlight
<1>11. phase' = "submitting" \/ write'.why = "retrying" => first'[r.id] # Never
  BY <1>5, <1>7, <1>8 DEF Fired, Tried
<1>12. phase' = "submitting" \/ (phase' = "writing" /\ write'.ran) => tickAt - r.due <= Grace \/ r.id \in forgot
  <2>1. phase' = "submitting" \/ (phase' = "writing" /\ write'.ran) => tickAt - Since(r) <= Grace
    BY DEF Fired
  <2> QED BY <1>4, <1>5, <1>6, <2>1
<1> QED BY <1>1, <1>9, <1>10, <1>11, <1>12 DEF Timed

LEMMA AnsweredTimed ==
  ASSUME Typed, Followed, Timed, Answered
  PROVE  Timed'
<1> USE DEF Typed
<1>1. /\ phase = "submitting" /\ phase' = "writing" /\ UNCHANGED <<table, tickAt, listed, cur, forgot>>
      /\ cur \in Row /\ cur \in Flight /\ cur.id \in Schedules
  BY FlightRows DEF Answered, Flight, Busy
<1>2. \A q \in listed : q.id # cur.id
  BY <1>1 DEF Shape, Rounds, Busy
<1>3. /\ \A s : ~Closing(s)
      /\ first[cur.id] # Never \/ cur.id \in forgot
      /\ tickAt - cur.due <= Grace \/ cur.id \in forgot
  BY <1>1 DEF Closing, Timed, Busy
<1>4. CASE write'.why = "retrying" /\ UNCHANGED first /\ ~write'.ran
  <2>1. \A s \in Schedules : (Listed(s) => InTime(s))'
    BY <1>1, <1>3, <1>4, TimedCalm
  <2>2. \A q \in listed : q.id \notin forgot' => Since(q)' <= q.due
    BY <1>1, <1>4, TimedFlight
  <2> QED BY <1>1, <1>3, <1>4, <2>1, <2>2 DEF Timed
<1>5. CASE write'.why = "other" /\ write'.op = "record" /\ Tried(cur, Never)
  <2>1. first'[cur.id] = Never /\ \A s \in Schedules : s # cur.id => first'[s] = first[s]
    BY <1>1, <1>5, FirstInt DEF Tried
  <2>2. ASSUME NEW s \in Schedules, Listed(s)' PROVE InTime(s)'
    <3>1. CASE s # cur.id
      BY <1>1, <1>3, <2>1, <2>2, <3>1, TimedCalm
    <3>2. CASE s = cur.id /\ s \in forgot
      BY <1>1, <3>2 DEF InTime
    <3>3. CASE s = cur.id /\ s \notin forgot
      <4>1. Listed(s) /\ table'[s] = table[s] /\ table[s].id = s
        BY <1>1, <2>2, ListedRow DEF Listed, Present
      <4>2. CASE table[s] = cur
        BY <1>1, <1>5, <2>1, <3>3, <4>1, <4>2 DEF InTime, Closing
      <4>3. CASE table[s] # cur
        <5>1. table[s].next = table[s].due /\ table[s].due \in Int
          BY <1>1, <3>3, <4>1, <4>3, SinceAhead
        <5> QED BY <2>1, <3>3, <4>1, <5>1 DEF InTime, Since
      <4> QED BY <4>2, <4>3
    <3> QED BY <3>1, <3>2, <3>3
  <2>3. \A q \in listed : q.id \notin forgot' => Since(q)' <= q.due
    <3>1. \A q \in listed : q.id \in Schedules
      BY FlightRows DEF Flight
    <3> QED BY <1>1, <1>2, <2>1, <3>1, TimedFlight
  <2> QED BY <1>1, <1>3, <1>5, <2>2, <2>3 DEF Timed
<1> QED BY <1>4, <1>5 DEF Answered

LEMMA WrittenTimed ==
  ASSUME Typed, Followed, Timed, Written
  PROVE  Timed'
<1> USE DEF Typed
<1>1. /\ Applied(write) /\ cur \in Flight /\ write.row = cur /\ cur \in Row /\ cur.id \in Schedules
      /\ Good(write, cur, tickAt)
      /\ phase \in {"writing", "rescuing"} /\ phase' = "rows" /\ UNCHANGED <<first, listed, forgot>>
  BY WrittenShape, FlightRows DEF Written, Shape, Called, Good
<1> DEFINE z == cur.id
           c == table[z]
           d == table'[z]
<1>2. ASSUME Present(z), d.enabled, z \notin forgot
      PROVE  d.id = z /\ (IF first[z] = Never THEN d.next ELSE first[z]) <= d.due
  <2>1. /\ c \in Row /\ d \in Row /\ c.enabled /\ Follows(c, d, write) /\ Listed(z)
        /\ Matches(c, write) = (c = cur)
        /\ write.op = "retry" \/ (write.op = "record" /\ c = cur) =>
             d.next = write.next /\ write.next # Never /\ write.next > tickAt
    BY <1>2, WrittenRow DEF Tracked, Listed
  <2>2. c.id = z /\ d.id = z
    BY <1>1, <1>2, <2>1, PresentRow DEF Follows
  <2>3. (IF first[z] = Never THEN c.next ELSE first[z]) <= c.due \/ Closing(z)
    BY <1>1, <1>2, <2>1, <2>2 DEF Timed, InTime, Since
  <2>4. write.why = "retrying" => first[z] # Never
    BY <1>1, <1>2 DEF Timed, Busy
  <2>5. write.op \in {"record", "retry"} /\ (write.op = "retry" => write.why = "retrying")
    BY <1>1, WriteFields DEF Good
  <2>6. first[z] \in Int /\ first[z] <= tickAt /\ tickAt \in Nat /\ d.next \in Int /\ d.due \in Int
    BY <1>1, <2>1, FirstInt, RanInt
  <2>7. CASE write.op = "retry"
    BY <1>1, <2>1, <2>2, <2>3, <2>4, <2>5, <2>7 DEF Follows, Closing
  <2>8. CASE write.op = "record" /\ c = cur /\ write.why = "retrying"
    BY <1>1, <2>1, <2>2, <2>3, <2>4, <2>8 DEF Follows, Closing
  <2>9. CASE write.op = "record" /\ c = cur /\ write.why # "retrying"
    <3>1. d.next = write.next /\ d.due = write.next /\ write.next > tickAt
      BY <2>1, <2>9 DEF Follows
    <3> HIDE DEF d, z
    <3>2. d.next <= d.due /\ first[z] <= d.due
      BY <2>6, <3>1
    <3> QED BY <2>2, <3>2
  <2>10. CASE write.op = "record" /\ c # cur
    <3>1. d.next = c.next /\ d.due = c.due /\ ~Closing(z)
      BY <2>1, <2>10 DEF Follows, Closing
    <3> QED BY <2>2, <2>3, <3>1
  <2> QED BY <2>5, <2>7, <2>8, <2>9, <2>10
<1>3. ASSUME NEW s \in Schedules, Listed(s)' PROVE InTime(s)'
  <2>1. CASE s # z
    BY <1>1, <1>3, <2>1, TimedCalm DEF Applied, Closing
  <2>2. CASE s = z /\ ~Present(s)
    BY <1>1, <1>3, <2>2 DEF Applied, Listed, Present
  <2>3. CASE s = z /\ Present(s)
    BY <1>1, <1>2, <1>3, <2>3 DEF Listed, InTime, Since
  <2> QED BY <2>1, <2>2, <2>3
<1>4. \A q \in listed : q.id \notin forgot' => Since(q)' <= q.due
  BY <1>1, TimedFlight
<1> QED BY <1>1, <1>3, <1>4 DEF Timed, Busy

LEMMA TimedStep ==
  ASSUME Typed, Followed, Timed, Step
  PROVE  Timed'
<1> USE DEF Typed
<1>0. doubt \subseteq doubt' /\ forgot \subseteq forgot'
  BY GhostsGrow
<1>a. phase = "writing" => write # NoWrite
  BY WriteFields DEF Shape, Called, Good
<1>1. ASSUME NEW s \in Schedules, Owned(s) PROVE Timed'
  <2>1. PICK r \in Row \cup {Gone} : Fresh(s, r) /\ Commanded(s, r)
    BY <1>1 DEF Owned
  <2>2. /\ table' = [table EXCEPT ![s] = r] /\ table'[s] = r
        /\ \A x \in Schedules : x # s => table'[x] = table[x]
        /\ UNCHANGED <<now, first, phase, tickAt, listed, cur, write, forgot>>
    BY <2>1 DEF Commanded, tick, Shape, Rows
  <2>3. ASSUME NEW x \in Schedules, Listed(x)' PROVE InTime(x)'
    <3>1. CASE x # s
      BY <1>0, <2>2, <2>3, <3>1, TimedCalm DEF Closing
    <3>2. CASE x = s
      <4>1. r \in Row /\ r.id = s /\ r.next = r.due /\ r.next > now
        BY <2>1, <2>2, <2>3, <3>2 DEF Listed, Present, Fresh
      <4>2. first[s] \in Int /\ first[s] <= now /\ now \in Nat /\ r.due \in Int
        BY <4>1, FirstInt, RanInt
      <4>3. r.next <= r.due /\ first[s] <= r.due
        BY <4>1, <4>2
      <4> QED BY <2>2, <3>2, <4>1, <4>3 DEF InTime, Since
    <3> QED BY <3>1, <3>2
  <2>4. \A q \in listed : q.id \notin forgot' => Since(q)' <= q.due
    BY <1>0, <2>2, TimedFlight
  <2> QED BY <2>2, <2>3, <2>4 DEF Timed, Busy
<1>2. CASE TickStarts
  <2>0. PICK L \in SUBSET DueNow : listed' = {table[s] : s \in L}
    BY <1>2 DEF TickStarts
  <2>1. /\ phase = "idle" /\ phase' = "rows" /\ UNCHANGED <<table, first, write, forgot>>
        /\ listed' = {table[s] : s \in L} /\ \A s \in L : s \in Schedules /\ Due(s)
    BY <1>2, <2>0 DEF TickStarts, DueNow, ghosts
  <2>2. \A s \in Schedules : (Listed(s) => InTime(s))'
    BY <2>1, TimedCalm DEF Closing
  <2>3. ASSUME NEW s \in Schedules, Due(s) PROVE table[s].id \notin forgot => Since(table[s]) <= table[s].due
    <3>1. Listed(s) /\ table[s].id = s /\ ~Closing(s)
      BY <2>1, <2>3, ListedRow DEF Due, Listed, Closing
    <3> QED BY <3>1 DEF Timed, InTime
  <2>4. \A q \in listed' : q.id \notin forgot => Since(q) <= q.due
    BY <2>1, <2>3
  <2>5. \A q \in listed' : q.id \notin forgot' => Since(q)' <= q.due
    BY <2>1, <2>4 DEF Since
  <2> QED BY <2>1, <2>2, <2>5 DEF Timed, Busy
<1>3. CASE CallFails
  <2>1. /\ phase \in {"submitting", "writing"} /\ phase' = "rescuing"
        /\ UNCHANGED <<table, first, tickAt, listed, cur>>
    BY <1>3 DEF CallFails, Await
  <2>2. phase = "writing" /\ first[cur.id] = Never => cur.id \in forgot'
    BY <1>3, <1>a DEF CallFails, Unrecorded
  <2>3. ASSUME NEW s \in Schedules PROVE (Listed(s) => InTime(s))'
    BY <1>0, <2>1, <2>2, TimedCalm DEF Closing
  <2>4. \A q \in listed : q.id \notin forgot' => Since(q)' <= q.due
    BY <1>0, <2>1, TimedFlight
  <2>5. first[cur.id] # Never \/ cur.id \in forgot'
    BY <1>0, <2>1, <2>2 DEF Timed, Busy
  <2> QED BY <2>1, <2>3, <2>4, <2>5 DEF Timed
<1>4. CASE TickCutOff
  <2>1. phase' = "idle" /\ listed' = {} /\ UNCHANGED <<table, first>>
    BY <1>4 DEF TickCutOff, Stopped
  <2>2. phase = "writing" /\ first[cur.id] = Never => cur.id \in forgot'
    BY <1>4, <1>a DEF TickCutOff, Unrecorded
  <2>3. ASSUME NEW s \in Schedules PROVE (Listed(s) => InTime(s))'
    BY <1>0, <2>1, <2>2, TimedCalm DEF Closing
  <2> QED BY <2>1, <2>3 DEF Timed, Busy
<1>5. CASE TickEnds
  <2>1. phase = "rows" /\ phase' = "idle" /\ listed' = {} /\ UNCHANGED <<table, first, forgot>>
    BY <1>5 DEF TickEnds, Stopped, ghosts
  <2>2. ASSUME NEW s \in Schedules PROVE (Listed(s) => InTime(s))'
    BY <2>1, TimedCalm DEF Closing
  <2> QED BY <2>1, <2>2 DEF Timed, Busy
<1>6. CASE Crash
  <2>1. /\ phase' = "idle" /\ listed' = {} /\ UNCHANGED table
        /\ first' = [s \in Schedules |-> Never]
        /\ forgot' = forgot \cup {s \in Schedules : first[s] # Never \/ (cur # Absent /\ s = cur.id)}
    BY <1>6 DEF Crash, Stopped
  <2>2. ASSUME NEW s \in Schedules PROVE (Listed(s) => InTime(s))'
    <3>1. CASE first[s] = Never
      <4>1. first'[s] = first[s]
        BY <2>1, <3>1
      <4>2. phase = "writing" => cur # Absent
        BY NoRow DEF Shape, Rounds, Busy
      <4>3. Closing(s) => s \in forgot'
        BY <2>1, <4>2 DEF Closing
      <4> QED BY <1>0, <2>1, <4>1, <4>3, TimedCalm
    <3>2. CASE first[s] # Never
      BY <2>1, <3>2 DEF InTime
    <3> QED BY <3>1, <3>2
  <2> QED BY <2>1, <2>2 DEF Timed, Busy
<1>7. ASSUME NEW w \in late, Belated(w) PROVE Timed'
  <2>1. /\ Applied(w) /\ w.row.id \in forgot
        /\ UNCHANGED <<first, phase, tickAt, listed, cur, write, forgot>>
    BY <1>7, LateShape DEF Belated, tick, Shape, Called
  <2>2. ASSUME NEW s \in Schedules PROVE (Listed(s) => InTime(s))'
    <3>1. CASE s # w.row.id
      BY <1>0, <2>1, <3>1, TimedCalm DEF Applied, Closing
    <3>2. CASE s = w.row.id
      BY <2>1, <3>2 DEF InTime
    <3> QED BY <3>1, <3>2
  <2>3. \A q \in listed : q.id \notin forgot' => Since(q)' <= q.due
    BY <1>0, <2>1, TimedFlight
  <2> QED BY <2>1, <2>2, <2>3 DEF Timed, Busy
<1>8. CASE Clock \/ UNCHANGED vars
  <2>1. UNCHANGED <<table, first, phase, tickAt, listed, cur, write, forgot>>
    BY <1>8 DEF Clock, vars, tick, ghosts
  <2>2. \A s \in Schedules : (Listed(s) => InTime(s))'
    BY <1>0, <2>1, TimedCalm DEF Closing
  <2>3. \A q \in listed : q.id \notin forgot' => Since(q)' <= q.due
    BY <1>0, <2>1, TimedFlight
  <2> QED BY <2>1, <2>2, <2>3 DEF Timed, Busy
<1> QED BY <1>1, <1>2, <1>3, <1>4, <1>5, <1>6, <1>7, <1>8, FiredTimed, AnsweredTimed, WrittenTimed DEF Step

-----------------------------------------------------------------------------
(* The theorems.                                                            *)

IInv == Typed /\ Followed /\ FailuresPause /\ Once /\ Timed

LEMMA Invariance == Spec => []IInv
<1>1. Init => IInv
  <2> SUFFICES ASSUME Init PROVE IInv
    OBVIOUS
  <2>1. Typed
    BY TypedInit
  <2>2. /\ phase = "idle" /\ listed = {} /\ again = {} /\ Flight = {}
        /\ \A s \in Schedules : ~Present(s)
    BY DEF Init, Flight, Busy, Present
  <2>3. Followed /\ FailuresPause
    BY <2>2 DEF Followed, FailuresPause
  <2>4. Once
    BY <2>2 DEF Once, OncePerDue, Listed, Starting
  <2>5. Timed
    BY <2>2 DEF Timed, Listed, Busy
  <2> QED BY <2>1, <2>3, <2>4, <2>5 DEF IInv
<1>2. IInv /\ [Next]_vars => IInv'
  BY TypedStep, Steps, FollowedStep, PausedStep, OnceStep, TimedStep DEF IInv
<1> QED BY <1>1, <1>2, PTL DEF Spec

\* Every reachable state is of the declared shape, with the failures of a row bounded by the
\* faults, and a schedule that is on has a next run, whatever the owner, the runner's ticks,
\* failed and late store calls and restarts do.
THEOREM TypeCorrect == Spec => []TypeOK
<1>1. IInv => TypeOK
  BY ShapeTyped DEF IInv, Typed
<1> QED BY <1>1, Invariance, PTL

\* One occurrence of a schedule starts one job: fire() works on rows that may be stale, submit()
\* is put off and tried again, and the owner edits meanwhile; record() replaces a time only if it
\* is the time it was made for.
THEOREM StartsOnce == Spec => []OncePerDue
<1>1. IInv => OncePerDue
  BY DEF IInv, Once
<1> QED BY <1>1, Invariance, PTL

\* No job starts more than Grace after its occurrence was due: _first_try keeps the time of the
\* first try over every retry until the row is finished with.
THEOREM StartsInGrace == Spec => []GraceKept
<1>1. IInv => GraceKept
  BY DEF IInv, Timed, GraceKept
<1> QED BY <1>1, Invariance, PTL

\* A schedule that is on has failed less than MaxFailures times in a row.
THEOREM FailuresStop == Spec => []FailuresPause
<1>1. IInv => FailuresPause
  BY DEF IInv
<1> QED BY <1>1, Invariance, PTL

\* record() leaves the time and the pause of a row that its owner has changed since the
\* tick listed it.
THEOREM OwnerWins == Spec => EditKept
<1> DEFINE kept == \A w \in Done :
             w.op = "record" /\ Present(w.row.id) /\ table[w.row.id].ver # w.row.ver
               /\ w.row.id \notin doubt
             => /\ table'[w.row.id].next = table[w.row.id].next
                /\ table'[w.row.id].enabled = table[w.row.id].enabled
<1>1. IInv => kept
  BY EditStep DEF IInv
<1> HIDE DEF kept
<1>2. IInv /\ [Next]_vars => [kept]_vars
  BY <1>1
<1>3. Spec => [][kept]_vars
  BY <1>2, Invariance, PTL DEF Spec
<1> QED BY <1>3 DEF kept, EditKept
=============================================================================
