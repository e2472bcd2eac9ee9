--------------------------- MODULE TaskJobsProofs ---------------------------
(* Theorems about TaskJobs, for any jobs, messages, users and limits.       *)
EXTENDS TaskJobs, Integers, FiniteSetTheorems, TLAPS

USE JobsAssumption

-----------------------------------------------------------------------------
(* Reservations.                                                            *)

Holds(j) == Submitting(j) \/ task[j] \in Holding

LEMMA HoldersFinite ==
  IsFiniteSet(Holders) /\ Holders \in SUBSET Jobs
  BY FS_Subset DEF Holders

\* A job takes as many slots as its message delegates tasks.
LEMMA SlotsAdded ==
  ASSUME NEW H \in SUBSET Jobs, NEW j \in Jobs \ H
  PROVE  /\ IsFiniteSet(Slots(H)) /\ Cardinality(Slots(H)) \in Nat
         /\ Cardinality(Slots(H \cup {j})) = Cardinality(Slots(H)) + Size[Src[j]]
<1> DEFINE n == Size[Src[j]]
<1>1. n \in {1, 2}
  OBVIOUS
<1>2. IsFiniteSet(Slots(H))
  <2>1. IsFiniteSet(H) /\ IsFiniteSet(1 .. 2)
    BY FS_Subset, FS_Interval
  <2>2. IsFiniteSet(H \X (1 .. 2))
    BY <2>1, FS_Product
  <2> QED BY <2>2, FS_Subset DEF Slots
<1>3. Cardinality(Slots(H)) \in Nat
  BY <1>2, FS_CardinalityType
<1>4. <<j, 1>> \notin Slots(H) /\ <<j, 2>> \notin Slots(H)
  BY DEF Slots
<1>5. CASE n = 1
  <2>1. Slots(H \cup {j}) = Slots(H) \cup {<<j, 1>>}
    BY <1>5 DEF Slots
  <2> QED BY <1>2, <1>3, <1>4, <1>5, <2>1, FS_AddElement
<1>6. CASE n = 2
  <2> DEFINE A == Slots(H) \cup {<<j, 1>>}
             B == A \cup {<<j, 2>>}
  <2>1. Slots(H \cup {j}) = B
    BY <1>6 DEF Slots
  <2>2. IsFiniteSet(A) /\ Cardinality(A) = Cardinality(Slots(H)) + 1
    BY <1>2, <1>4, FS_AddElement
  <2>3. <<j, 2>> \notin A
    BY <1>4
  <2> HIDE DEF A
  <2>4. Cardinality(B) = Cardinality(A) + 1
    BY <2>2, <2>3, FS_AddElement
  <2> HIDE DEF B
  <2>5. Cardinality(Slots(H \cup {j})) = Cardinality(B)
    BY <2>1
  <2>6. Cardinality(Slots(H \cup {j})) = Cardinality(Slots(H)) + 2
    BY <1>3, <2>2, <2>4, <2>5
  <2> QED BY <1>2, <1>3, <1>6, <2>6
<1> QED BY <1>1, <1>2, <1>3, <1>5, <1>6

\* The three ways a step treats the reservation of j: it keeps it, gives it back
\* or takes it.
LEMMA Accounting ==
  ASSUME ReservationsExact, reserved \in SUBSET Users, active \in Nat, NEW j \in Jobs,
         \A k \in Jobs \ {j} : task'[k] = task[k] /\ call'[k] = call[k],
         \/ Holds(j)' = Holds(j) /\ UNCHANGED <<reserved, active>>
         \/ Holds(j) /\ ~Holds(j)' /\ Release(j)
         \/ /\ ~Holds(j) /\ Holds(j)'
            /\ UserOf(j) \notin reserved
            /\ reserved' = reserved \cup {UserOf(j)}
            /\ active' = active + Size[Src[j]]
  PROVE  ReservationsExact' /\ reserved' \in SUBSET Users /\ active' \in Nat
<1> DEFINE H == Holders
<1>1. H \in SUBSET Jobs /\ H = {k \in Jobs : Holds(k)} /\ H' = {k \in Jobs : Holds(k)'}
  BY DEF Holders, Holds
<1>2. \A k \in Jobs \ {j} : Holds(k)' = Holds(k)
  BY DEF Holds, Submitting
<1>3. /\ reserved = {UserOf(k) : k \in H}
      /\ active = Cardinality(Slots(H))
      /\ \A i, k \in H : UserOf(i) = UserOf(k) => i = k
  BY DEF ReservationsExact
<1>4. Size[Src[j]] \in Nat /\ UserOf(j) \in Users
  BY DEF UserOf
<1> HIDE DEF H
<1>5. SUFFICES /\ reserved' = {UserOf(k) : k \in H'}
               /\ active' = Cardinality(Slots(H'))
               /\ \A i, k \in H' : UserOf(i) = UserOf(k) => i = k
               /\ reserved' \in SUBSET Users /\ active' \in Nat
  BY DEF ReservationsExact, H, UserOf, Slots
<1>6. CASE Holds(j)' = Holds(j) /\ UNCHANGED <<reserved, active>>
  <2>1. H' = H
    BY <1>1, <1>2, <1>6, Zenon
  <2> QED BY <1>3, <1>6, <2>1
<1>7. CASE Holds(j) /\ ~Holds(j)' /\ Release(j)
  <2>1. j \in H /\ H' = H \ {j}
    BY <1>1, <1>2, <1>7, Zenon
  <2>2. /\ IsFiniteSet(Slots(H')) /\ Cardinality(Slots(H')) \in Nat
        /\ Cardinality(Slots(H' \cup {j})) = Cardinality(Slots(H')) + Size[Src[j]]
    BY <1>1, <2>1, SlotsAdded
  <2>3. H' \cup {j} = H
    BY <2>1
  <2>4. reserved' = {UserOf(k) : k \in H'}
    BY <1>3, <1>7, <2>1 DEF Release
  <2>5. active' = active - Size[Src[j]]
    BY <1>7 DEF Release
  <2>6. active' = Cardinality(Slots(H')) /\ active' \in Nat
    <3> DEFINE n == Cardinality(Slots(H'))
               s == Size[Src[j]]
    <3>1. n \in Nat /\ s \in Nat /\ active = n + s /\ active' = active - s
      BY <1>3, <1>4, <2>2, <2>3, <2>5
    <3> HIDE DEF n, s
    <3>2. active' = n /\ active' \in Nat
      BY <3>1
    <3> QED BY <3>2 DEF n
  <2> QED BY <1>3, <1>7, <2>1, <2>4, <2>6 DEF Release
<1>8. CASE /\ ~Holds(j) /\ Holds(j)'
           /\ UserOf(j) \notin reserved
           /\ reserved' = reserved \cup {UserOf(j)}
           /\ active' = active + Size[Src[j]]
  <2>1. j \notin H /\ H' = H \cup {j}
    BY <1>1, <1>2, <1>8, Zenon
  <2>2. Cardinality(Slots(H')) = Cardinality(Slots(H)) + Size[Src[j]]
    BY <1>1, <2>1, SlotsAdded
  <2> QED BY <1>3, <1>4, <1>8, <2>1, <2>2
<1> QED BY <1>6, <1>7, <1>8

-----------------------------------------------------------------------------
(* Shape and reservations, one lemma per action.                            *)

\* A task exists for an accepted submission only.
Callers == \A j \in Jobs : task[j] # "none" => call[j] = "returned"

\* What is awaited in cancel() or about to be cancelled has a reason.
Reasoned == \A j \in Jobs : waiter[j] # Nobody \/ j \in kill => stop[j] # ""

Shape == TypeOK /\ ReservationsExact /\ Callers /\ Reasoned

LEMMA ShapeInit == Init => Shape
<1> SUFFICES ASSUME Init PROVE Shape
  OBVIOUS
<1>0. closed \in Closings
  BY DEF Init, Open, Closings
<1>1. TypeOK
  BY <1>0 DEF Init, TypeOK, States, Live, Deliveries, Calls, TaskStates
<1>2. Holders = {}
  BY DEF Init, Holders, Submitting, Holding, Running, Settling
<1>3. Slots({}) = {}
  BY DEF Slots
<1>4. ReservationsExact
  BY <1>2, <1>3, FS_EmptySet DEF Init, ReservationsExact
<1> QED BY <1>1, <1>4 DEF Init, Shape, Callers, Reasoned

\* What a store call writes suits its column.
LEMMA WriteTyped ==
  \A w \in Write : /\ w.col \in {"create", "state"} => w.val \in States
                   /\ w.col \in {"claim", "delivery"} => w.val \in Deliveries
<1>1. \A w \in [col : {"create", "state"}, val : States] : w.col \in {"create", "state"} /\ w.val \in States
  OBVIOUS
<1>2. \A w \in [col : {"claim", "delivery"}, val : Deliveries] :
        w.col \in {"claim", "delivery"} /\ w.val \in Deliveries
  OBVIOUS
<1>3. {"create", "state"} \cap {"claim", "delivery"} = {}
  OBVIOUS
<1> QED BY <1>1, <1>2, <1>3, Zenon DEF Write

\* The store call that the task awaits, or that stays behind.
LEMMA AbandonTyped ==
  ASSUME Shape, NEW j \in Jobs, AbandonAwaited(j)
  PROVE  late' \in [Jobs -> SUBSET Write]
<1>1. state[j] \in States /\ delivery[j] \in Deliveries /\ late \in [Jobs -> SUBSET Write]
  BY DEF Shape, TypeOK
<1>2. "running" \in States /\ "attempting" \in Deliveries
  BY DEF States, Live, Deliveries
<1>3. Awaited(j) \in Write
  <2>1. CASE task[j] = "claiming"
    BY <1>2, <2>1 DEF Awaited, Write
  <2>2. CASE task[j] = "noting"
    BY <1>1, <2>2 DEF Awaited, Write
  <2>3. CASE task[j] \notin {"claiming", "noting"}
    <3>1. \E v \in States : Awaited(j) = [col |-> "state", val |-> v]
      BY <1>1, <1>2, <2>3 DEF Awaited
    <3> QED BY <3>1 DEF Write
  <2> QED BY <2>1, <2>2, <2>3
<1> QED BY <1>1, <1>3 DEF AbandonAwaited, Abandon

LEMMA AcceptShape ==
  ASSUME Shape, NEW j \in Jobs, Accept(j)
  PROVE  Shape'
<1>1. /\ \A k \in Jobs \ {j} : task'[k] = task[k] /\ call'[k] = call[k]
      /\ \/ Holds(j)' = Holds(j) /\ UNCHANGED <<reserved, active>>
         \/ Holds(j) /\ ~Holds(j)' /\ Release(j)
         \/ /\ ~Holds(j) /\ Holds(j)'
            /\ UserOf(j) \notin reserved
            /\ reserved' = reserved \cup {UserOf(j)}
            /\ active' = active + Size[Src[j]]
  BY DEF Accept, Shape, Callers, TypeOK, Holds, Submitting, Holding, Running, Settling, rows, job, admission, env, ghosts, Insert
<1>2. ReservationsExact' /\ reserved' \in SUBSET Users /\ active' \in Nat
  BY <1>1, Accounting DEF Shape, TypeOK
<1>3. rowState' \in [Jobs -> States \cup {"absent"}]
  BY DEF Accept, Shape, TypeOK, States, Live, Reasons, rows, job, admission, env, ghosts, Insert
<1>4. rowDelivery' \in [Jobs -> Deliveries]
  BY DEF Accept, Shape, TypeOK, Deliveries, rows, job, admission, env, ghosts, Insert
<1>5. call' \in [Jobs -> Calls]
  BY DEF Accept, Shape, TypeOK, Calls, rows, job, admission, env, ghosts, Insert
<1>6. task' \in [Jobs -> TaskStates]
  BY DEF Accept, Shape, TypeOK, TaskStates, Alive, Holding, Settling, Running, rows, job, admission, env, ghosts, Insert
<1>7. known' \in SUBSET Jobs
  BY DEF Accept, Shape, TypeOK, rows, job, admission, env, ghosts, Insert
<1>8. UNCHANGED <<state, delivery, stop, kill, closed, waiter, late, turn, turns, eligible, erased, wiped, crashes, ran, posted, pruned, stranded>>
  BY DEF Accept, rows, job, admission, env, ghosts, Insert
<1>9. TypeOK'
  BY <1>2, <1>3, <1>4, <1>5, <1>6, <1>7, <1>8 DEF Shape, TypeOK
<1>10. Callers' /\ Reasoned'
  BY DEF Accept, Shape, TypeOK, Callers, Reasoned, TaskStates, Alive, Holding, Settling, Running, rows, job, admission, env, ghosts, Insert
<1> QED BY <1>2, <1>9, <1>10 DEF Shape

LEMMA RefusedShape ==
  ASSUME Shape, NEW j \in Jobs, Refused(j)
  PROVE  Shape'
<1>1. /\ \A k \in Jobs \ {j} : task'[k] = task[k] /\ call'[k] = call[k]
      /\ \/ Holds(j)' = Holds(j) /\ UNCHANGED <<reserved, active>>
         \/ Holds(j) /\ ~Holds(j)' /\ Release(j)
         \/ /\ ~Holds(j) /\ Holds(j)'
            /\ UserOf(j) \notin reserved
            /\ reserved' = reserved \cup {UserOf(j)}
            /\ active' = active + Size[Src[j]]
  BY DEF Refused, Shape, Callers, TypeOK, Holds, Submitting, Holding, Running, Settling, rows, job, admission, env, ghosts, GiveBack, Release
<1>2. ReservationsExact' /\ reserved' \in SUBSET Users /\ active' \in Nat
  BY <1>1, Accounting DEF Shape, TypeOK
<1>3. call' \in [Jobs -> Calls]
  BY DEF Refused, Shape, TypeOK, Calls, rows, job, admission, env, ghosts, GiveBack, Release
<1>4. UNCHANGED <<rowState, rowDelivery, task, state, delivery, stop, kill, known, closed, waiter, late, turn, turns, eligible, erased, wiped, crashes, ran, posted, pruned, stranded>>
  BY DEF Refused, rows, job, admission, env, ghosts, GiveBack, Release
<1>5. TypeOK'
  BY <1>2, <1>3, <1>4 DEF Shape, TypeOK
<1>6. Callers' /\ Reasoned'
  BY DEF Refused, Shape, TypeOK, Callers, Reasoned, TaskStates, Alive, Holding, Settling, Running, rows, job, admission, env, ghosts, GiveBack, Release
<1> QED BY <1>2, <1>5, <1>6 DEF Shape

LEMMA SubmitCancelledShape ==
  ASSUME Shape, NEW j \in Jobs, SubmitCancelled(j)
  PROVE  Shape'
<1>1. /\ \A k \in Jobs \ {j} : task'[k] = task[k] /\ call'[k] = call[k]
      /\ \/ Holds(j)' = Holds(j) /\ UNCHANGED <<reserved, active>>
         \/ Holds(j) /\ ~Holds(j)' /\ Release(j)
         \/ /\ ~Holds(j) /\ Holds(j)'
            /\ UserOf(j) \notin reserved
            /\ reserved' = reserved \cup {UserOf(j)}
            /\ active' = active + Size[Src[j]]
  BY DEF SubmitCancelled, Shape, Callers, TypeOK, Holds, Submitting, Holding, Running, Settling, rows, job, admission, env, ghosts
<1>2. ReservationsExact' /\ reserved' \in SUBSET Users /\ active' \in Nat
  BY <1>1, Accounting DEF Shape, TypeOK
<1>3. call' \in [Jobs -> Calls]
  BY DEF SubmitCancelled, Shape, TypeOK, Calls, rows, job, admission, env, ghosts
<1>4. UNCHANGED <<rowState, rowDelivery, task, state, delivery, stop, kill, known, closed, waiter, late, turn, turns, eligible, erased, wiped, crashes, ran, posted, pruned, stranded>>
  BY DEF SubmitCancelled, rows, job, admission, env, ghosts
<1>5. TypeOK'
  BY <1>2, <1>3, <1>4 DEF Shape, TypeOK
<1>6. Callers' /\ Reasoned'
  BY DEF SubmitCancelled, Shape, TypeOK, Callers, Reasoned, TaskStates, Alive, Holding, Settling, Running, rows, job, admission, env, ghosts
<1> QED BY <1>2, <1>5, <1>6 DEF Shape

LEMMA UndoShape ==
  ASSUME Shape, NEW j \in Jobs, Undo(j)
  PROVE  Shape'
<1>1. /\ \A k \in Jobs \ {j} : task'[k] = task[k] /\ call'[k] = call[k]
      /\ \/ Holds(j)' = Holds(j) /\ UNCHANGED <<reserved, active>>
         \/ Holds(j) /\ ~Holds(j)' /\ Release(j)
         \/ /\ ~Holds(j) /\ Holds(j)'
            /\ UserOf(j) \notin reserved
            /\ reserved' = reserved \cup {UserOf(j)}
            /\ active' = active + Size[Src[j]]
  BY DEF Undo, Shape, Callers, TypeOK, Holds, Submitting, Holding, Running, Settling, rows, job, admission, env, ghosts, Insert
<1>2. ReservationsExact' /\ reserved' \in SUBSET Users /\ active' \in Nat
  BY <1>1, Accounting DEF Shape, TypeOK
<1>3. rowState' \in [Jobs -> States \cup {"absent"}]
  BY DEF Undo, Shape, TypeOK, States, Live, Reasons, rows, job, admission, env, ghosts, Insert
<1>4. rowDelivery' \in [Jobs -> Deliveries]
  BY DEF Undo, Shape, TypeOK, Deliveries, rows, job, admission, env, ghosts, Insert
<1>5. call' \in [Jobs -> Calls]
  BY DEF Undo, Shape, TypeOK, Calls, rows, job, admission, env, ghosts, Insert
<1>6. UNCHANGED <<task, state, delivery, stop, kill, known, closed, waiter, late, turn, turns, eligible, erased, wiped, crashes, ran, posted, pruned, stranded>>
  BY DEF Undo, rows, job, admission, env, ghosts, Insert
<1>7. TypeOK'
  BY <1>2, <1>3, <1>4, <1>5, <1>6 DEF Shape, TypeOK
<1>8. Callers' /\ Reasoned'
  BY DEF Undo, Shape, TypeOK, Callers, Reasoned, TaskStates, Alive, Holding, Settling, Running, rows, job, admission, env, ghosts, Insert
<1> QED BY <1>2, <1>7, <1>8 DEF Shape

LEMMA UndoWriteShape ==
  ASSUME Shape, NEW j \in Jobs, UndoWrite(j)
  PROVE  Shape'
<1>1. /\ \A k \in Jobs \ {j} : task'[k] = task[k] /\ call'[k] = call[k]
      /\ \/ Holds(j)' = Holds(j) /\ UNCHANGED <<reserved, active>>
         \/ Holds(j) /\ ~Holds(j)' /\ Release(j)
         \/ /\ ~Holds(j) /\ Holds(j)'
            /\ UserOf(j) \notin reserved
            /\ reserved' = reserved \cup {UserOf(j)}
            /\ active' = active + Size[Src[j]]
  BY DEF UndoWrite, Shape, Callers, TypeOK, Holds, Submitting, Holding, Running, Settling, rows, job, admission, env, ghosts, GiveBack, Release, WriteState
<1>2. ReservationsExact' /\ reserved' \in SUBSET Users /\ active' \in Nat
  BY <1>1, Accounting DEF Shape, TypeOK
<1>3. rowState' \in [Jobs -> States \cup {"absent"}]
  BY DEF UndoWrite, Shape, TypeOK, States, Live, Reasons, rows, job, admission, env, ghosts, GiveBack, Release, WriteState
<1>4. call' \in [Jobs -> Calls]
  BY DEF UndoWrite, Shape, TypeOK, Calls, rows, job, admission, env, ghosts, GiveBack, Release, WriteState
<1>5. UNCHANGED <<rowDelivery, task, state, delivery, stop, kill, known, closed, waiter, late, turn, turns, eligible, erased, wiped, crashes, ran, posted, pruned, stranded>>
  BY DEF UndoWrite, rows, job, admission, env, ghosts, GiveBack, Release, WriteState
<1>6. TypeOK'
  BY <1>2, <1>3, <1>4, <1>5 DEF Shape, TypeOK
<1>7. Callers' /\ Reasoned'
  BY DEF UndoWrite, Shape, TypeOK, Callers, Reasoned, TaskStates, Alive, Holding, Settling, Running, rows, job, admission, env, ghosts, GiveBack, Release, WriteState
<1> QED BY <1>2, <1>6, <1>7 DEF Shape

LEMMA UndoCancelledShape ==
  ASSUME Shape, NEW j \in Jobs, UndoCancelled(j)
  PROVE  Shape'
<1>1. /\ \A k \in Jobs \ {j} : task'[k] = task[k] /\ call'[k] = call[k]
      /\ \/ Holds(j)' = Holds(j) /\ UNCHANGED <<reserved, active>>
         \/ Holds(j) /\ ~Holds(j)' /\ Release(j)
         \/ /\ ~Holds(j) /\ Holds(j)'
            /\ UserOf(j) \notin reserved
            /\ reserved' = reserved \cup {UserOf(j)}
            /\ active' = active + Size[Src[j]]
  BY DEF UndoCancelled, Shape, Callers, TypeOK, Holds, Submitting, Holding, Running, Settling, rows, job, admission, env, ghosts, GiveBack, Release, Abandon
<1>2. ReservationsExact' /\ reserved' \in SUBSET Users /\ active' \in Nat
  BY <1>1, Accounting DEF Shape, TypeOK
<1>3. call' \in [Jobs -> Calls]
  BY DEF UndoCancelled, Shape, TypeOK, Calls, rows, job, admission, env, ghosts, GiveBack, Release, Abandon
<1>4. late' \in [Jobs -> SUBSET Write]
  <2>1. \E k \in Jobs, w \in Write : late' = [late EXCEPT ![k] = late[k] \cup {w}]
    BY DEF UndoCancelled, Abandon, SameSource, Write, States, Live, Reasons
  <2>2. late \in [Jobs -> SUBSET Write]
    BY DEF Shape, TypeOK
  <2> QED BY <2>1, <2>2
<1>5. UNCHANGED <<rowState, rowDelivery, task, state, delivery, stop, kill, known, closed, waiter, turn, turns, eligible, erased, wiped, crashes, ran, posted, pruned, stranded>>
  BY DEF UndoCancelled, rows, job, admission, env, ghosts, GiveBack, Release, Abandon
<1>6. TypeOK'
  BY <1>2, <1>3, <1>4, <1>5 DEF Shape, TypeOK
<1>7. Callers' /\ Reasoned'
  BY DEF UndoCancelled, Shape, TypeOK, Callers, Reasoned, TaskStates, Alive, Holding, Settling, Running, rows, job, admission, env, ghosts, GiveBack, Release, Abandon
<1> QED BY <1>2, <1>6, <1>7 DEF Shape

LEMMA SubmitShape ==
  ASSUME Shape, NEW j \in Jobs, Submit(j)
  PROVE  Shape'
<1>1. /\ \A k \in Jobs \ {j} : task'[k] = task[k] /\ call'[k] = call[k]
      /\ \/ Holds(j)' = Holds(j) /\ UNCHANGED <<reserved, active>>
         \/ Holds(j) /\ ~Holds(j)' /\ Release(j)
         \/ /\ ~Holds(j) /\ Holds(j)'
            /\ UserOf(j) \notin reserved
            /\ reserved' = reserved \cup {UserOf(j)}
            /\ active' = active + Size[Src[j]]
  BY DEF Submit, Shape, Callers, TypeOK, Holds, Submitting, Holding, Running, Settling, rows, job, admission, env, ghosts
<1>2. ReservationsExact' /\ reserved' \in SUBSET Users /\ active' \in Nat
  BY <1>1, Accounting DEF Shape, TypeOK
<1>3. call' \in [Jobs -> Calls]
  BY DEF Submit, Shape, TypeOK, Calls, rows, job, admission, env, ghosts
<1>4. UNCHANGED <<rowState, rowDelivery, task, state, delivery, stop, kill, known, closed, waiter, late, turn, turns, eligible, erased, wiped, crashes, ran, posted, pruned, stranded>>
  BY DEF Submit, rows, job, admission, env, ghosts
<1>5. TypeOK'
  BY <1>2, <1>3, <1>4 DEF Shape, TypeOK
<1>6. Callers' /\ Reasoned'
  BY DEF Submit, Shape, TypeOK, Callers, Reasoned, TaskStates, Alive, Holding, Settling, Running, rows, job, admission, env, ghosts
<1> QED BY <1>2, <1>5, <1>6 DEF Shape

LEMMA BeginShape ==
  ASSUME Shape, NEW j \in Jobs, Begin(j)
  PROVE  Shape'
<1>1. /\ \A k \in Jobs \ {j} : task'[k] = task[k] /\ call'[k] = call[k]
      /\ \/ Holds(j)' = Holds(j) /\ UNCHANGED <<reserved, active>>
         \/ Holds(j) /\ ~Holds(j)' /\ Release(j)
         \/ /\ ~Holds(j) /\ Holds(j)'
            /\ UserOf(j) \notin reserved
            /\ reserved' = reserved \cup {UserOf(j)}
            /\ active' = active + Size[Src[j]]
  BY DEF Begin, Shape, Callers, TypeOK, Holds, Submitting, Holding, Running, Settling, rows, job, admission, env, ghosts, Conclude, StopState, Steps
<1>2. ReservationsExact' /\ reserved' \in SUBSET Users /\ active' \in Nat
  BY <1>1, Accounting DEF Shape, TypeOK
<1>3. task' \in [Jobs -> TaskStates]
  <2>1. \E p \in {"starting", "finishing"} : task' = [task EXCEPT ![j] = p]
    BY DEF Begin, Conclude, Part
  <2> QED BY <2>1 DEF Shape, TypeOK, TaskStates, Alive, Holding, Settling, Running
<1>4. state' \in [Jobs -> States]
  BY DEF Begin, Shape, TypeOK, States, Live, Reasons, rows, job, admission, env, ghosts, Conclude, StopState, Steps
<1>5. UNCHANGED <<rowState, rowDelivery, call, delivery, stop, kill, known, closed, waiter, late, turn, turns, eligible, erased, wiped, crashes, ran, posted, pruned, stranded>>
  BY DEF Begin, rows, job, admission, env, ghosts, Conclude, StopState, Steps
<1>6. TypeOK'
  BY <1>2, <1>3, <1>4, <1>5 DEF Shape, TypeOK
<1>7. Callers' /\ Reasoned'
  BY DEF Begin, Shape, TypeOK, Callers, Reasoned, TaskStates, Alive, Holding, Settling, Running, rows, job, admission, env, ghosts, Conclude, StopState, Steps
<1> QED BY <1>2, <1>6, <1>7 DEF Shape

LEMMA StartedShape ==
  ASSUME Shape, NEW j \in Jobs, Started(j)
  PROVE  Shape'
<1>1. /\ \A k \in Jobs \ {j} : task'[k] = task[k] /\ call'[k] = call[k]
      /\ \/ Holds(j)' = Holds(j) /\ UNCHANGED <<reserved, active>>
         \/ Holds(j) /\ ~Holds(j)' /\ Release(j)
         \/ /\ ~Holds(j) /\ Holds(j)'
            /\ UserOf(j) \notin reserved
            /\ reserved' = reserved \cup {UserOf(j)}
            /\ active' = active + Size[Src[j]]
  BY DEF Started, Shape, Callers, TypeOK, Holds, Submitting, Holding, Running, Settling, rows, job, admission, env, ghosts, WriteState, Conclude, StopState, Steps
<1>2. ReservationsExact' /\ reserved' \in SUBSET Users /\ active' \in Nat
  BY <1>1, Accounting DEF Shape, TypeOK
<1>3. rowState' \in [Jobs -> States \cup {"absent"}]
  BY ZenonT(60) DEF Started, Shape, TypeOK, States, Live, Reasons, rows, job, admission, env, ghosts, WriteState, Conclude, StopState, Steps
<1>4. task' \in [Jobs -> TaskStates]
  <2>1. \E p \in {"working", "finishing"} : task' = [task EXCEPT ![j] = p]
    BY DEF Started, Conclude, Part
  <2> QED BY <2>1 DEF Shape, TypeOK, TaskStates, Alive, Holding, Settling, Running
<1>5. state' \in [Jobs -> States]
  BY DEF Started, Shape, TypeOK, States, Live, Reasons, rows, job, admission, env, ghosts, WriteState, Conclude, StopState, Steps
<1>6. ran' \in SUBSET Jobs
  BY DEF Started, Shape, TypeOK, rows, job, admission, env, ghosts, WriteState, Conclude, StopState, Steps
<1>7. UNCHANGED <<rowDelivery, call, delivery, stop, kill, known, closed, waiter, late, turn, turns, eligible, erased, wiped, crashes, posted, pruned, stranded>>
  BY DEF Started, rows, job, admission, env, ghosts, WriteState, Conclude, StopState, Steps
<1>8. TypeOK'
  BY <1>2, <1>3, <1>4, <1>5, <1>6, <1>7 DEF Shape, TypeOK
<1>9. Callers' /\ Reasoned'
  BY DEF Started, Shape, TypeOK, Callers, Reasoned, TaskStates, Alive, Holding, Settling, Running, rows, job, admission, env, ghosts, WriteState, Conclude, StopState, Steps
<1> QED BY <1>2, <1>8, <1>9 DEF Shape

LEMMA WorkedShape ==
  ASSUME Shape, NEW j \in Jobs, Worked(j)
  PROVE  Shape'
<1>1. /\ \A k \in Jobs \ {j} : task'[k] = task[k] /\ call'[k] = call[k]
      /\ \/ Holds(j)' = Holds(j) /\ UNCHANGED <<reserved, active>>
         \/ Holds(j) /\ ~Holds(j)' /\ Release(j)
         \/ /\ ~Holds(j) /\ Holds(j)'
            /\ UserOf(j) \notin reserved
            /\ reserved' = reserved \cup {UserOf(j)}
            /\ active' = active + Size[Src[j]]
  BY DEF Worked, Shape, Callers, TypeOK, Holds, Submitting, Holding, Running, Settling, rows, job, admission, env, ghosts, Conclude, StopState, Steps
<1>2. ReservationsExact' /\ reserved' \in SUBSET Users /\ active' \in Nat
  BY <1>1, Accounting DEF Shape, TypeOK
<1>3. task' \in [Jobs -> TaskStates]
  <2>1. \E p \in {"finishing"} : task' = [task EXCEPT ![j] = p]
    BY DEF Worked, Conclude, Part
  <2> QED BY <2>1 DEF Shape, TypeOK, TaskStates, Alive, Holding, Settling, Running
<1>4. state' \in [Jobs -> States]
  BY DEF Worked, Shape, TypeOK, States, Live, Reasons, rows, job, admission, env, ghosts, Conclude, StopState, Steps
<1>5. UNCHANGED <<rowState, rowDelivery, call, delivery, stop, kill, known, closed, waiter, late, turn, turns, eligible, erased, wiped, crashes, ran, posted, pruned, stranded>>
  BY DEF Worked, rows, job, admission, env, ghosts, Conclude, StopState, Steps
<1>6. TypeOK'
  BY <1>2, <1>3, <1>4, <1>5 DEF Shape, TypeOK
<1>7. Callers' /\ Reasoned'
  BY DEF Worked, Shape, TypeOK, Callers, Reasoned, TaskStates, Alive, Holding, Settling, Running, rows, job, admission, env, ghosts, Conclude, StopState, Steps
<1> QED BY <1>2, <1>6, <1>7 DEF Shape

LEMMA FinishedShape ==
  ASSUME Shape, NEW j \in Jobs, Finished(j)
  PROVE  Shape'
<1>1. /\ \A k \in Jobs \ {j} : task'[k] = task[k] /\ call'[k] = call[k]
      /\ \/ Holds(j)' = Holds(j) /\ UNCHANGED <<reserved, active>>
         \/ Holds(j) /\ ~Holds(j)' /\ Release(j)
         \/ /\ ~Holds(j) /\ Holds(j)'
            /\ UserOf(j) \notin reserved
            /\ reserved' = reserved \cup {UserOf(j)}
            /\ active' = active + Size[Src[j]]
  BY DEF Finished, Shape, Callers, TypeOK, Holds, Submitting, Holding, Running, Settling, rows, job, admission, env, ghosts, Steps, WriteState, Part, Release
<1>2. ReservationsExact' /\ reserved' \in SUBSET Users /\ active' \in Nat
  BY <1>1, Accounting DEF Shape, TypeOK
<1>3. rowState' \in [Jobs -> States \cup {"absent"}]
  BY DEF Finished, Shape, TypeOK, States, Live, Reasons, rows, job, admission, env, ghosts, Steps, WriteState, Part, Release
<1>4. task' \in [Jobs -> TaskStates]
  BY ZenonT(60) DEF Finished, Shape, TypeOK, TaskStates, Alive, Holding, Settling, Running, rows, job, admission, env, ghosts, Steps, WriteState, Part, Release
<1>5. UNCHANGED <<rowDelivery, call, state, delivery, stop, kill, known, closed, waiter, late, turn, turns, eligible, erased, wiped, crashes, ran, posted, pruned, stranded>>
  BY DEF Finished, rows, job, admission, env, ghosts, Steps, WriteState, Part, Release
<1>6. TypeOK'
  BY <1>2, <1>3, <1>4, <1>5 DEF Shape, TypeOK
<1>7. Callers' /\ Reasoned'
  BY DEF Finished, Shape, TypeOK, Callers, Reasoned, TaskStates, Alive, Holding, Settling, Running, rows, job, admission, env, ghosts, Steps, WriteState, Part, Release
<1> QED BY <1>2, <1>6, <1>7 DEF Shape

LEMMA OriginAnsweredShape ==
  ASSUME Shape, NEW j \in Jobs, OriginAnswered(j)
  PROVE  Shape'
<1>1. /\ \A k \in Jobs \ {j} : task'[k] = task[k] /\ call'[k] = call[k]
      /\ \/ Holds(j)' = Holds(j) /\ UNCHANGED <<reserved, active>>
         \/ Holds(j) /\ ~Holds(j)' /\ Release(j)
         \/ /\ ~Holds(j) /\ Holds(j)'
            /\ UserOf(j) \notin reserved
            /\ reserved' = reserved \cup {UserOf(j)}
            /\ active' = active + Size[Src[j]]
  BY DEF OriginAnswered, Shape, Callers, TypeOK, Holds, Submitting, Holding, Running, Settling, rows, job, admission, env, ghosts, Steps
<1>2. ReservationsExact' /\ reserved' \in SUBSET Users /\ active' \in Nat
  BY <1>1, Accounting DEF Shape, TypeOK
<1>3. task' \in [Jobs -> TaskStates]
  <2>1. \E p \in {"claiming", "noting"} : task' = [task EXCEPT ![j] = p]
    BY DEF OriginAnswered, Conclude, Part
  <2> QED BY <2>1 DEF Shape, TypeOK, TaskStates, Alive, Holding, Settling, Running
<1>4. delivery' \in [Jobs -> Deliveries]
  BY DEF OriginAnswered, Shape, TypeOK, Deliveries, rows, job, admission, env, ghosts, Steps
<1>5. UNCHANGED <<rowState, rowDelivery, call, state, stop, kill, known, closed, waiter, late, turn, turns, eligible, erased, wiped, crashes, ran, posted, pruned, stranded>>
  BY DEF OriginAnswered, rows, job, admission, env, ghosts, Steps
<1>6. TypeOK'
  BY <1>2, <1>3, <1>4, <1>5 DEF Shape, TypeOK
<1>7. Callers' /\ Reasoned'
  BY DEF OriginAnswered, Shape, TypeOK, Callers, Reasoned, TaskStates, Alive, Holding, Settling, Running, rows, job, admission, env, ghosts, Steps
<1> QED BY <1>2, <1>6, <1>7 DEF Shape

LEMMA ClaimedShape ==
  ASSUME Shape, NEW j \in Jobs, Claimed(j)
  PROVE  Shape'
<1>1. /\ \A k \in Jobs \ {j} : task'[k] = task[k] /\ call'[k] = call[k]
      /\ \/ Holds(j)' = Holds(j) /\ UNCHANGED <<reserved, active>>
         \/ Holds(j) /\ ~Holds(j)' /\ Release(j)
         \/ /\ ~Holds(j) /\ Holds(j)'
            /\ UserOf(j) \notin reserved
            /\ reserved' = reserved \cup {UserOf(j)}
            /\ active' = active + Size[Src[j]]
  BY DEF Claimed, Shape, Callers, TypeOK, Holds, Submitting, Holding, Running, Settling, rows, job, admission, env, ghosts, Steps, WriteDelivery, Part, Release
<1>2. ReservationsExact' /\ reserved' \in SUBSET Users /\ active' \in Nat
  BY <1>1, Accounting DEF Shape, TypeOK
<1>3. rowDelivery' \in [Jobs -> Deliveries]
  <2>1. rowDelivery' \in {rowDelivery, [rowDelivery EXCEPT ![j] = "attempting"]}
    BY DEF Claimed, WriteDelivery
  <2> QED BY <2>1 DEF Shape, TypeOK, Deliveries
<1>4. task' \in [Jobs -> TaskStates]
  BY ZenonT(60) DEF Claimed, Shape, TypeOK, TaskStates, Alive, Holding, Settling, Running, rows, job, admission, env, ghosts, Steps, WriteDelivery, Part, Release
<1>5. delivery' \in [Jobs -> Deliveries]
  BY DEF Claimed, Shape, TypeOK, Deliveries, rows, job, admission, env, ghosts, Steps, WriteDelivery, Part, Release
<1>6. UNCHANGED <<rowState, call, state, stop, kill, known, closed, waiter, late, turn, turns, eligible, erased, wiped, crashes, ran, posted, pruned, stranded>>
  BY DEF Claimed, rows, job, admission, env, ghosts, Steps, WriteDelivery, Part, Release
<1>7. TypeOK'
  BY <1>2, <1>3, <1>4, <1>5, <1>6 DEF Shape, TypeOK
<1>8. Callers' /\ Reasoned'
  BY DEF Claimed, Shape, TypeOK, Callers, Reasoned, TaskStates, Alive, Holding, Settling, Running, rows, job, admission, env, ghosts, Steps, WriteDelivery, Part, Release
<1> QED BY <1>2, <1>7, <1>8 DEF Shape

LEMMA SentShape ==
  ASSUME Shape, NEW j \in Jobs, Sent(j)
  PROVE  Shape'
<1>1. /\ \A k \in Jobs \ {j} : task'[k] = task[k] /\ call'[k] = call[k]
      /\ \/ Holds(j)' = Holds(j) /\ UNCHANGED <<reserved, active>>
         \/ Holds(j) /\ ~Holds(j)' /\ Release(j)
         \/ /\ ~Holds(j) /\ Holds(j)'
            /\ UserOf(j) \notin reserved
            /\ reserved' = reserved \cup {UserOf(j)}
            /\ active' = active + Size[Src[j]]
  BY DEF Sent, Shape, Callers, TypeOK, Holds, Submitting, Holding, Running, Settling, rows, job, admission, env, ghosts, Steps, MayPost
<1>2. ReservationsExact' /\ reserved' \in SUBSET Users /\ active' \in Nat
  BY <1>1, Accounting DEF Shape, TypeOK
<1>3. task' \in [Jobs -> TaskStates]
  BY DEF Sent, Shape, TypeOK, TaskStates, Alive, Holding, Settling, Running, rows, job, admission, env, ghosts, Steps, MayPost
<1>4. delivery' \in [Jobs -> Deliveries]
  BY DEF Sent, Shape, TypeOK, Deliveries, rows, job, admission, env, ghosts, Steps, MayPost
<1>5. posted' \in [Jobs -> Nat]
  <2>1. posted' \in {posted, [posted EXCEPT ![j] = posted[j] + 1]}
    BY DEF Sent, MayPost
  <2>2. posted \in [Jobs -> Nat]
    BY DEF Shape, TypeOK
  <2> QED BY <2>1, <2>2
<1>6. UNCHANGED <<rowState, rowDelivery, call, state, stop, kill, known, closed, waiter, late, turn, turns, eligible, erased, wiped, crashes, ran, pruned, stranded>>
  BY DEF Sent, rows, job, admission, env, ghosts, Steps, MayPost
<1>7. TypeOK'
  BY <1>2, <1>3, <1>4, <1>5, <1>6 DEF Shape, TypeOK
<1>8. Callers' /\ Reasoned'
  BY DEF Sent, Shape, TypeOK, Callers, Reasoned, TaskStates, Alive, Holding, Settling, Running, rows, job, admission, env, ghosts, Steps, MayPost
<1> QED BY <1>2, <1>7, <1>8 DEF Shape

LEMMA NotedShape ==
  ASSUME Shape, NEW j \in Jobs, Noted(j)
  PROVE  Shape'
<1>1. /\ \A k \in Jobs \ {j} : task'[k] = task[k] /\ call'[k] = call[k]
      /\ \/ Holds(j)' = Holds(j) /\ UNCHANGED <<reserved, active>>
         \/ Holds(j) /\ ~Holds(j)' /\ Release(j)
         \/ /\ ~Holds(j) /\ Holds(j)'
            /\ UserOf(j) \notin reserved
            /\ reserved' = reserved \cup {UserOf(j)}
            /\ active' = active + Size[Src[j]]
  BY DEF Noted, Shape, Callers, TypeOK, Holds, Submitting, Holding, Running, Settling, rows, job, admission, env, ghosts, Steps, WriteDelivery, Part, Release
<1>2. ReservationsExact' /\ reserved' \in SUBSET Users /\ active' \in Nat
  BY <1>1, Accounting DEF Shape, TypeOK
<1>3. rowDelivery' \in [Jobs -> Deliveries]
  BY DEF Noted, Shape, TypeOK, Deliveries, rows, job, admission, env, ghosts, Steps, WriteDelivery, Part, Release
<1>4. task' \in [Jobs -> TaskStates]
  BY DEF Noted, Shape, TypeOK, TaskStates, Alive, Holding, Settling, Running, rows, job, admission, env, ghosts, Steps, WriteDelivery, Part, Release
<1>5. UNCHANGED <<rowState, call, state, delivery, stop, kill, known, closed, waiter, late, turn, turns, eligible, erased, wiped, crashes, ran, posted, pruned, stranded>>
  BY DEF Noted, rows, job, admission, env, ghosts, Steps, WriteDelivery, Part, Release
<1>6. TypeOK'
  BY <1>2, <1>3, <1>4, <1>5 DEF Shape, TypeOK
<1>7. Callers' /\ Reasoned'
  BY DEF Noted, Shape, TypeOK, Callers, Reasoned, TaskStates, Alive, Holding, Settling, Running, rows, job, admission, env, ghosts, Steps, WriteDelivery, Part, Release
<1> QED BY <1>2, <1>6, <1>7 DEF Shape

LEMMA DeliveryFailsShape ==
  ASSUME Shape, NEW j \in Jobs, DeliveryFails(j)
  PROVE  Shape'
<1>1. /\ \A k \in Jobs \ {j} : task'[k] = task[k] /\ call'[k] = call[k]
      /\ \/ Holds(j)' = Holds(j) /\ UNCHANGED <<reserved, active>>
         \/ Holds(j) /\ ~Holds(j)' /\ Release(j)
         \/ /\ ~Holds(j) /\ Holds(j)'
            /\ UserOf(j) \notin reserved
            /\ reserved' = reserved \cup {UserOf(j)}
            /\ active' = active + Size[Src[j]]
  BY DEF DeliveryFails, Shape, Callers, TypeOK, Holds, Submitting, Holding, Running, Settling, rows, job, admission, env, ghosts, Steps, Part, Release, MayPost
<1>2. ReservationsExact' /\ reserved' \in SUBSET Users /\ active' \in Nat
  BY <1>1, Accounting DEF Shape, TypeOK
<1>3. late' \in [Jobs -> SUBSET Write]
  BY AbandonTyped DEF DeliveryFails, Shape
<1>4. delivery' \in [Jobs -> Deliveries]
  BY DEF DeliveryFails, Shape, TypeOK, Deliveries, rows, job, admission, env, ghosts, Steps, Part, Release, MayPost
<1>5. task' \in [Jobs -> TaskStates]
  BY DEF DeliveryFails, Shape, TypeOK, TaskStates, Alive, Holding, Settling, Running, rows, job, admission, env, ghosts, Steps, Part, Release, MayPost
<1>6. posted' \in [Jobs -> Nat]
  <2>1. posted' \in {posted, [posted EXCEPT ![j] = posted[j] + 1]}
    BY DEF DeliveryFails, MayPost
  <2>2. posted \in [Jobs -> Nat]
    BY DEF Shape, TypeOK
  <2> QED BY <2>1, <2>2
<1>7. UNCHANGED <<rowState, rowDelivery, call, state, stop, kill, known, closed, waiter, turn, turns, eligible, erased, wiped, crashes, ran, pruned, stranded>>
  BY DEF DeliveryFails, rows, job, admission, env, ghosts, Steps, Part, Release, MayPost
<1>8. TypeOK'
  BY <1>2, <1>3, <1>4, <1>5, <1>6, <1>7 DEF Shape, TypeOK
<1>9. Callers' /\ Reasoned'
  BY DEF DeliveryFails, Shape, TypeOK, Callers, Reasoned, TaskStates, Alive, Holding, Settling, Running, rows, job, admission, env, ghosts, Steps, Part, Release, MayPost
<1> QED BY <1>2, <1>8, <1>9 DEF Shape

LEMMA StoppedShape ==
  ASSUME Shape, NEW j \in Jobs, Stopped(j)
  PROVE  Shape'
<1>1. /\ \A k \in Jobs \ {j} : task'[k] = task[k] /\ call'[k] = call[k]
      /\ \/ Holds(j)' = Holds(j) /\ UNCHANGED <<reserved, active>>
         \/ Holds(j) /\ ~Holds(j)' /\ Release(j)
         \/ /\ ~Holds(j) /\ Holds(j)'
            /\ UserOf(j) \notin reserved
            /\ reserved' = reserved \cup {UserOf(j)}
            /\ active' = active + Size[Src[j]]
  BY DEF Stopped, Shape, Callers, TypeOK, Holds, Submitting, Holding, Running, Settling, rows, job, admission, env, ghosts, Steps, WriteState, Part, Release
<1>2. ReservationsExact' /\ reserved' \in SUBSET Users /\ active' \in Nat
  BY <1>1, Accounting DEF Shape, TypeOK
<1>3. rowState' \in [Jobs -> States \cup {"absent"}]
  BY DEF Stopped, Shape, TypeOK, States, Live, Reasons, rows, job, admission, env, ghosts, Steps, WriteState, Part, Release
<1>4. task' \in [Jobs -> TaskStates]
  BY DEF Stopped, Shape, TypeOK, TaskStates, Alive, Holding, Settling, Running, rows, job, admission, env, ghosts, Steps, WriteState, Part, Release
<1>5. UNCHANGED <<rowDelivery, call, state, delivery, stop, kill, known, closed, waiter, late, turn, turns, eligible, erased, wiped, crashes, ran, posted, pruned, stranded>>
  BY DEF Stopped, rows, job, admission, env, ghosts, Steps, WriteState, Part, Release
<1>6. TypeOK'
  BY <1>2, <1>3, <1>4, <1>5 DEF Shape, TypeOK
<1>7. Callers' /\ Reasoned'
  BY DEF Stopped, Shape, TypeOK, Callers, Reasoned, TaskStates, Alive, Holding, Settling, Running, rows, job, admission, env, ghosts, Steps, WriteState, Part, Release
<1> QED BY <1>2, <1>6, <1>7 DEF Shape

LEMMA EndedShape ==
  ASSUME Shape, NEW j \in Jobs, Ended(j)
  PROVE  Shape'
<1>1. /\ \A k \in Jobs \ {j} : task'[k] = task[k] /\ call'[k] = call[k]
      /\ \/ Holds(j)' = Holds(j) /\ UNCHANGED <<reserved, active>>
         \/ Holds(j) /\ ~Holds(j)' /\ Release(j)
         \/ /\ ~Holds(j) /\ Holds(j)'
            /\ UserOf(j) \notin reserved
            /\ reserved' = reserved \cup {UserOf(j)}
            /\ active' = active + Size[Src[j]]
  BY DEF Ended, Shape, Callers, TypeOK, Holds, Submitting, Holding, Running, Settling, rows, job, admission, env, ghosts, Steps, Over
<1>2. ReservationsExact' /\ reserved' \in SUBSET Users /\ active' \in Nat
  BY <1>1, Accounting DEF Shape, TypeOK
<1>3. task' \in [Jobs -> TaskStates]
  BY DEF Ended, Shape, TypeOK, TaskStates, Alive, Holding, Settling, Running, rows, job, admission, env, ghosts, Steps, Over
<1>4. state' \in [Jobs -> States]
  BY DEF Ended, Shape, TypeOK, States, Live, Reasons, rows, job, admission, env, ghosts, Steps, Over
<1>5. delivery' \in [Jobs -> Deliveries]
  BY DEF Ended, Shape, TypeOK, Deliveries, rows, job, admission, env, ghosts, Steps, Over
<1>6. known' \in SUBSET Jobs
  BY DEF Ended, Shape, TypeOK, rows, job, admission, env, ghosts, Steps, Over
<1>7. UNCHANGED <<rowState, rowDelivery, call, stop, kill, closed, waiter, late, turn, turns, eligible, erased, wiped, crashes, ran, posted, pruned, stranded>>
  BY DEF Ended, rows, job, admission, env, ghosts, Steps, Over
<1>8. TypeOK'
  BY <1>2, <1>3, <1>4, <1>5, <1>6, <1>7 DEF Shape, TypeOK
<1>9. Callers' /\ Reasoned'
  BY DEF Ended, Shape, TypeOK, Callers, Reasoned, TaskStates, Alive, Holding, Settling, Running, rows, job, admission, env, ghosts, Steps, Over
<1> QED BY <1>2, <1>8, <1>9 DEF Shape

LEMMA CancelReturnsShape ==
  ASSUME Shape, NEW j \in Jobs, CancelReturns(j)
  PROVE  Shape'
<1>1. /\ \A k \in Jobs \ {j} : task'[k] = task[k] /\ call'[k] = call[k]
      /\ \/ Holds(j)' = Holds(j) /\ UNCHANGED <<reserved, active>>
         \/ Holds(j) /\ ~Holds(j)' /\ Release(j)
         \/ /\ ~Holds(j) /\ Holds(j)'
            /\ UserOf(j) \notin reserved
            /\ reserved' = reserved \cup {UserOf(j)}
            /\ active' = active + Size[Src[j]]
  BY DEF CancelReturns, Shape, Callers, TypeOK, Holds, Submitting, Holding, Running, Settling, rows, job, admission, env, ghosts, WriteState
<1>2. ReservationsExact' /\ reserved' \in SUBSET Users /\ active' \in Nat
  BY <1>1, Accounting DEF Shape, TypeOK
<1>3. rowState' \in [Jobs -> States \cup {"absent"}]
  <2>1. stop[j] \in States
    BY DEF CancelReturns, Shape, TypeOK, Reasoned, States
  <2> QED BY <2>1 DEF CancelReturns, WriteState, Shape, TypeOK
<1>4. waiter' \in [Jobs -> Sources \cup {Nobody, Outside}]
  BY DEF CancelReturns, Shape, TypeOK, rows, job, admission, env, ghosts, WriteState
<1>5. UNCHANGED <<rowDelivery, call, task, state, delivery, stop, kill, known, closed, late, turn, turns, eligible, erased, wiped, crashes, ran, posted, pruned, stranded>>
  BY DEF CancelReturns, rows, job, admission, env, ghosts, WriteState
<1>6. TypeOK'
  BY <1>2, <1>3, <1>4, <1>5 DEF Shape, TypeOK
<1>7. Callers' /\ Reasoned'
  BY DEF CancelReturns, Shape, TypeOK, Callers, Reasoned, TaskStates, Alive, Holding, Settling, Running, rows, job, admission, env, ghosts, WriteState
<1> QED BY <1>2, <1>6, <1>7 DEF Shape

LEMMA CallerCancelledShape ==
  ASSUME Shape, NEW j \in Jobs, CallerCancelled(j)
  PROVE  Shape'
<1>1. /\ \A k \in Jobs \ {j} : task'[k] = task[k] /\ call'[k] = call[k]
      /\ \/ Holds(j)' = Holds(j) /\ UNCHANGED <<reserved, active>>
         \/ Holds(j) /\ ~Holds(j)' /\ Release(j)
         \/ /\ ~Holds(j) /\ Holds(j)'
            /\ UserOf(j) \notin reserved
            /\ reserved' = reserved \cup {UserOf(j)}
            /\ active' = active + Size[Src[j]]
  BY DEF CallerCancelled, Shape, Callers, TypeOK, Holds, Submitting, Holding, Running, Settling, rows, job, admission, env, ghosts
<1>2. ReservationsExact' /\ reserved' \in SUBSET Users /\ active' \in Nat
  BY <1>1, Accounting DEF Shape, TypeOK
<1>3. waiter' \in [Jobs -> Sources \cup {Nobody, Outside}]
  BY DEF CallerCancelled, Shape, TypeOK, rows, job, admission, env, ghosts
<1>4. kill' \in SUBSET Jobs
  BY DEF CallerCancelled, Shape, TypeOK, rows, job, admission, env, ghosts
<1>5. stranded' \in SUBSET Jobs
  BY DEF CallerCancelled, Shape, TypeOK, rows, job, admission, env, ghosts
<1>6. UNCHANGED <<rowState, rowDelivery, call, task, state, delivery, stop, known, closed, late, turn, turns, eligible, erased, wiped, crashes, ran, posted, pruned>>
  BY DEF CallerCancelled, rows, job, admission, env, ghosts
<1>7. TypeOK'
  BY <1>2, <1>3, <1>4, <1>5, <1>6 DEF Shape, TypeOK
<1>8. Callers' /\ Reasoned'
  BY DEF CallerCancelled, Shape, TypeOK, Callers, Reasoned, TaskStates, Alive, Holding, Settling, Running, rows, job, admission, env, ghosts
<1> QED BY <1>2, <1>7, <1>8 DEF Shape

LEMMA WatchShape ==
  ASSUME Shape, NEW j \in Jobs, Watch(j)
  PROVE  Shape'
<1>1. /\ \A k \in Jobs \ {j} : task'[k] = task[k] /\ call'[k] = call[k]
      /\ \/ Holds(j)' = Holds(j) /\ UNCHANGED <<reserved, active>>
         \/ Holds(j) /\ ~Holds(j)' /\ Release(j)
         \/ /\ ~Holds(j) /\ Holds(j)'
            /\ UserOf(j) \notin reserved
            /\ reserved' = reserved \cup {UserOf(j)}
            /\ active' = active + Size[Src[j]]
  BY DEF Watch, Shape, Callers, TypeOK, Holds, Submitting, Holding, Running, Settling, rows, job, admission, env, ghosts, Stop
<1>2. ReservationsExact' /\ reserved' \in SUBSET Users /\ active' \in Nat
  BY <1>1, Accounting DEF Shape, TypeOK
<1>3. stop' \in [Jobs -> Reasons \cup {""}]
  BY DEF Watch, Shape, TypeOK, Reasons, rows, job, admission, env, ghosts, Stop
<1>4. kill' \in SUBSET Jobs
  BY DEF Watch, Shape, TypeOK, rows, job, admission, env, ghosts, Stop
<1>5. UNCHANGED <<rowState, rowDelivery, call, task, state, delivery, known, closed, waiter, late, turn, turns, eligible, erased, wiped, crashes, ran, posted, pruned, stranded>>
  BY DEF Watch, rows, job, admission, env, ghosts, Stop
<1>6. TypeOK'
  BY <1>2, <1>3, <1>4, <1>5 DEF Shape, TypeOK
<1>7. Callers' /\ Reasoned'
  BY DEF Watch, Shape, TypeOK, Callers, Reasoned, TaskStates, Alive, Holding, Settling, Running, rows, job, admission, env, ghosts, Stop
<1> QED BY <1>2, <1>6, <1>7 DEF Shape

LEMMA ForgetShape ==
  ASSUME Shape, NEW j \in Jobs, Forget(j)
  PROVE  Shape'
<1>1. /\ \A k \in Jobs \ {j} : task'[k] = task[k] /\ call'[k] = call[k]
      /\ \/ Holds(j)' = Holds(j) /\ UNCHANGED <<reserved, active>>
         \/ Holds(j) /\ ~Holds(j)' /\ Release(j)
         \/ /\ ~Holds(j) /\ Holds(j)'
            /\ UserOf(j) \notin reserved
            /\ reserved' = reserved \cup {UserOf(j)}
            /\ active' = active + Size[Src[j]]
  BY DEF Forget, Shape, Callers, TypeOK, Holds, Submitting, Holding, Running, Settling, rows, job, admission, env, ghosts
<1>2. ReservationsExact' /\ reserved' \in SUBSET Users /\ active' \in Nat
  BY <1>1, Accounting DEF Shape, TypeOK
<1>3. known' \in SUBSET Jobs
  BY DEF Forget, Shape, TypeOK, rows, job, admission, env, ghosts
<1>4. UNCHANGED <<rowState, rowDelivery, call, task, state, delivery, stop, kill, closed, waiter, late, turn, turns, eligible, erased, wiped, crashes, ran, posted, pruned, stranded>>
  BY DEF Forget, rows, job, admission, env, ghosts
<1>5. TypeOK'
  BY <1>2, <1>3, <1>4 DEF Shape, TypeOK
<1>6. Callers' /\ Reasoned'
  BY DEF Forget, Shape, TypeOK, Callers, Reasoned, TaskStates, Alive, Holding, Settling, Running, rows, job, admission, env, ghosts
<1> QED BY <1>2, <1>5, <1>6 DEF Shape

LEMMA LateWriteShape ==
  ASSUME Shape, NEW j \in Jobs, LateWrite(j)
  PROVE  Shape'
<1>1. /\ \A k \in Jobs \ {j} : task'[k] = task[k] /\ call'[k] = call[k]
      /\ \/ Holds(j)' = Holds(j) /\ UNCHANGED <<reserved, active>>
         \/ Holds(j) /\ ~Holds(j)' /\ Release(j)
         \/ /\ ~Holds(j) /\ Holds(j)'
            /\ UserOf(j) \notin reserved
            /\ reserved' = reserved \cup {UserOf(j)}
            /\ active' = active + Size[Src[j]]
  BY DEF LateWrite, Shape, Callers, TypeOK, Holds, Submitting, Holding, Running, Settling, rows, job, admission, env, ghosts, WriteState, WriteDelivery, Insert
<1>2. ReservationsExact' /\ reserved' \in SUBSET Users /\ active' \in Nat
  BY <1>1, Accounting DEF Shape, TypeOK
<1>3. rowState' \in [Jobs -> States \cup {"absent"}]
  <2>1. PICK w \in late[j] :
           \/ w.col = "state" /\ WriteState(j, w.val)
           \/ Insert(j)
           \/ UNCHANGED rowState
    BY DEF LateWrite, rows
  <2>2. w.col = "state" => w.val \in States
    BY WriteTyped DEF Shape, TypeOK
  <2> QED BY <2>1, <2>2 DEF Shape, TypeOK, WriteState, Insert, States, Live
<1>4. rowDelivery' \in [Jobs -> Deliveries]
  <2>1. PICK w \in late[j] :
           \/ w.col \in {"claim", "delivery"} /\ WriteDelivery(j, w.val)
           \/ Insert(j)
           \/ UNCHANGED rowDelivery
    BY DEF LateWrite, rows
  <2>2. w.col \in {"claim", "delivery"} => w.val \in Deliveries
    BY WriteTyped DEF Shape, TypeOK
  <2> QED BY <2>1, <2>2 DEF Shape, TypeOK, WriteDelivery, Insert, Deliveries
<1>5. late' \in [Jobs -> SUBSET Write]
  <2>1. \E w \in late[j] : late' = [late EXCEPT ![j] = late[j] \ {w}]
    BY DEF LateWrite
  <2>2. late \in [Jobs -> SUBSET Write]
    BY DEF Shape, TypeOK
  <2> QED BY <2>1, <2>2
<1>6. stranded' \in SUBSET Jobs
  BY DEF LateWrite, Shape, TypeOK, rows, job, admission, env, ghosts, WriteState, WriteDelivery, Insert
<1>7. UNCHANGED <<call, task, state, delivery, stop, kill, known, closed, waiter, turn, turns, eligible, erased, wiped, crashes, ran, posted, pruned>>
  BY DEF LateWrite, rows, job, admission, env, ghosts, WriteState, WriteDelivery, Insert
<1>8. TypeOK'
  BY <1>2, <1>3, <1>4, <1>5, <1>6, <1>7 DEF Shape, TypeOK
<1>9. Callers' /\ Reasoned'
  BY DEF LateWrite, Shape, TypeOK, Callers, Reasoned, TaskStates, Alive, Holding, Settling, Running, rows, job, admission, env, ghosts, WriteState, WriteDelivery, Insert
<1> QED BY <1>2, <1>8, <1>9 DEF Shape

LEMMA PruneShape ==
  ASSUME Shape, NEW j \in Jobs, Prune(j)
  PROVE  Shape'
<1>1. /\ \A k \in Jobs \ {j} : task'[k] = task[k] /\ call'[k] = call[k]
      /\ \/ Holds(j)' = Holds(j) /\ UNCHANGED <<reserved, active>>
         \/ Holds(j) /\ ~Holds(j)' /\ Release(j)
         \/ /\ ~Holds(j) /\ Holds(j)'
            /\ UserOf(j) \notin reserved
            /\ reserved' = reserved \cup {UserOf(j)}
            /\ active' = active + Size[Src[j]]
  BY DEF Prune, Shape, Callers, TypeOK, Holds, Submitting, Holding, Running, Settling, rows, job, admission, env, ghosts
<1>2. ReservationsExact' /\ reserved' \in SUBSET Users /\ active' \in Nat
  BY <1>1, Accounting DEF Shape, TypeOK
<1>3. rowState' \in [Jobs -> States \cup {"absent"}]
  BY DEF Prune, Shape, TypeOK, States, Live, Reasons, rows, job, admission, env, ghosts
<1>4. pruned' \in SUBSET Sources
  BY DEF Prune, Shape, TypeOK, rows, job, admission, env, ghosts
<1>5. UNCHANGED <<rowDelivery, call, task, state, delivery, stop, kill, known, closed, waiter, late, turn, turns, eligible, erased, wiped, crashes, ran, posted, stranded>>
  BY DEF Prune, rows, job, admission, env, ghosts
<1>6. TypeOK'
  BY <1>2, <1>3, <1>4, <1>5 DEF Shape, TypeOK
<1>7. Callers' /\ Reasoned'
  BY DEF Prune, Shape, TypeOK, Callers, Reasoned, TaskStates, Alive, Holding, Settling, Running, rows, job, admission, env, ghosts
<1> QED BY <1>2, <1>6, <1>7 DEF Shape

LEMMA InterruptedShape ==
  ASSUME Shape, NEW j \in Jobs, Interrupted(j)
  PROVE  Shape'
<1>0. /\ kill' = kill \ {j}
      /\ UNCHANGED <<rows, stop, known, closed, waiter, env, ran, pruned, stranded, call>>
  BY DEF Interrupted, admission
<1>1. /\ StopState(j) \in States
      /\ "queued" \in States /\ "pending" \in Deliveries
  BY DEF StopState, Shape, TypeOK, States, Live, Deliveries, Reasons
<1>2. late' \in [Jobs -> SUBSET Write]
  BY AbandonTyped DEF Interrupted, Shape, TypeOK
<1>3. posted' \in [Jobs -> Nat]
  <2>1. posted' \in {posted, [posted EXCEPT ![j] = posted[j] + 1]}
    BY DEF Interrupted, MayPost
  <2>2. posted \in [Jobs -> Nat]
    BY DEF Shape, TypeOK
  <2> QED BY <2>1, <2>2
<1>4. \/ /\ task[j] \in {"new", "stopping"} /\ Release(j)
         /\ \E p \in {"stillborn", "over"} : task' = [task EXCEPT ![j] = p]
      \/ /\ task[j] \in Running \cup Settling /\ UNCHANGED <<reserved, active>>
         /\ \E p \in {"finishing", "stopping"} : task' = [task EXCEPT ![j] = p]
      \/ /\ task[j] = "parting" /\ UNCHANGED <<reserved, active>>
         /\ task' = [task EXCEPT ![j] = "over"]
  BY DEF Interrupted, Over, Conclude, admission
<1>5. task' \in [Jobs -> TaskStates]
  BY <1>4, ZenonT(60) DEF Shape, TypeOK, TaskStates, Alive, Holding, Settling
<1>6. state' \in [Jobs -> States] /\ delivery' \in [Jobs -> Deliveries]
  <2>1. /\ state' \in {state, [state EXCEPT ![j] = StopState(j)], [state EXCEPT ![j] = "queued"]}
        /\ delivery' \in {delivery, [delivery EXCEPT ![j] = "pending"]}
    BY DEF Interrupted, Over, Conclude
  <2>2. state \in [Jobs -> States] /\ delivery \in [Jobs -> Deliveries]
    BY DEF Shape, TypeOK
  <2> QED BY <1>1, <2>1, <2>2
<1>7. ReservationsExact' /\ reserved' \in SUBSET Users /\ active' \in Nat
  <2>1. task \in [Jobs -> TaskStates] /\ call' = call
    BY <1>0 DEF Shape, TypeOK
  <2>2. call[j] \notin {"creating", "undoing", "interrupting"}
    BY <1>4 DEF Shape, Callers, Running, Settling
  <2>3. \/ Holds(j) /\ ~Holds(j)' /\ Release(j)
        \/ Holds(j)' = Holds(j) /\ UNCHANGED <<reserved, active>>
    BY <1>4, <2>1, <2>2 DEF Holds, Submitting, Holding, Running, Settling
  <2>4. \A k \in Jobs \ {j} : task'[k] = task[k] /\ call'[k] = call[k]
    BY <1>4, <2>1
  <2> QED BY <2>3, <2>4, Accounting DEF Shape, TypeOK
<1>8. TypeOK'
  BY <1>0, <1>2, <1>3, <1>5, <1>6, <1>7 DEF Shape, TypeOK, rows, env
<1>9. Callers' /\ Reasoned'
  <2>1. \A k \in Jobs : task'[k] # "none" => task[k] # "none"
    BY <1>4 DEF Shape, TypeOK, Running, Settling
  <2> QED BY <1>0, <2>1 DEF Shape, Callers, Reasoned
<1> QED BY <1>7, <1>8, <1>9 DEF Shape

\* A step that starts, ends or accepts no task keeps the reservations.
LEMMA SameHolders ==
  ASSUME ReservationsExact, UNCHANGED <<task, call, reserved, active>>
  PROVE  ReservationsExact'
<1>1. Holders' = Holders
  BY DEF Holders, Submitting
<1> QED BY <1>1 DEF ReservationsExact, Slots, UserOf

LEMMA TurnShape ==
  ASSUME Shape, NEW s \in Sources, TurnStarts(s) \/ TurnEnds(s)
  PROVE  Shape'
<1>1. /\ turn' \in SUBSET Sources /\ turns' \in [Sources -> Nat]
      /\ UNCHANGED <<rows, job, admission, closed, waiter, late, eligible, erased, wiped, crashes, ghosts>>
  <2>1. turn \in SUBSET Sources /\ turns \in [Sources -> Nat]
    BY DEF Shape, TypeOK
  <2> QED BY <2>1 DEF TurnStarts, TurnEnds
<1>2. ReservationsExact'
  BY <1>1, SameHolders DEF Shape, job, admission
<1>3. TypeOK'
  BY <1>1 DEF Shape, TypeOK, rows, job, admission, ghosts
<1> QED BY <1>1, <1>2, <1>3 DEF Shape, Callers, Reasoned, job, admission

LEMMA CancelShape ==
  ASSUME Shape, NEW j \in Jobs, NEW c \in Sources \cup {Outside}, Cancel(j, c)
  PROVE  Shape'
<1>1. /\ UNCHANGED <<rows, task, delivery, known, admission, closed, late, env, ghosts>>
      /\ waiter' = [waiter EXCEPT ![j] = c]
      /\ \/ UNCHANGED <<stop, kill, state>> /\ stop[j] # ""
         \/ \E reason \in {"cancelled", "stopped"} :
              /\ stop' = [stop EXCEPT ![j] = reason] /\ kill' = kill \cup {j}
              /\ state' = [state EXCEPT ![j] = "cancelling"]
  BY DEF Cancel, Stop
<1>2. ReservationsExact'
  BY <1>1, SameHolders DEF Shape, admission
<1>3. state' \in [Jobs -> States] /\ kill' \in SUBSET Jobs
  BY <1>1 DEF Shape, TypeOK, States, Live
<1>4. /\ waiter' \in [Jobs -> Sources \cup {Nobody, Outside}]
      /\ stop' \in [Jobs -> Reasons \cup {""}]
  BY <1>1 DEF Shape, TypeOK, Reasons
<1>5. TypeOK'
  BY <1>1, <1>3, <1>4 DEF Shape, TypeOK, rows, admission, env, ghosts
<1>6. Callers' /\ Reasoned'
  BY <1>1 DEF Shape, TypeOK, Callers, Reasoned, admission
<1> QED BY <1>2, <1>5, <1>6 DEF Shape

LEMMA RefreshUserShape ==
  ASSUME Shape, NEW u \in Users, RefreshUser(u)
  PROVE  Shape'
<1>1. /\ UNCHANGED <<rows, task, state, delivery, admission, closed, waiter, late, env, ghosts>>
      /\ known' \in SUBSET known
      /\ \E S \in SUBSET Jobs :
           /\ stop' = [j \in Jobs |-> IF j \in S THEN "stopped" ELSE stop[j]]
           /\ kill' = kill \cup S
  <2> DEFINE gone == {j \in known : UserOf(j) = u /\ ~Present(j)}
             halted == {j \in gone : task[j] \in Alive /\ stop[j] = ""}
  <2>1. known \in SUBSET Jobs
    BY DEF Shape, TypeOK
  <2>2. halted \in SUBSET Jobs /\ known \ gone \in SUBSET known
    BY <2>1
  <2>3. /\ stop' = [j \in Jobs |-> IF j \in halted THEN "stopped" ELSE stop[j]]
        /\ kill' = kill \cup halted /\ known' = known \ gone
        /\ UNCHANGED <<rows, task, state, delivery, admission, closed, waiter, late, env, ghosts>>
    BY DEF RefreshUser
  <2> HIDE DEF gone, halted
  <2> QED BY <2>2, <2>3
<1>2. ReservationsExact'
  BY <1>1, SameHolders DEF Shape, admission
<1>3. /\ stop' \in [Jobs -> Reasons \cup {""}] /\ kill' \in SUBSET Jobs /\ known' \in SUBSET Jobs
  BY <1>1 DEF Shape, TypeOK, Reasons
<1>4. TypeOK'
  BY <1>1, <1>3 DEF Shape, TypeOK, rows, admission, env, ghosts
<1>5. Callers' /\ Reasoned'
  BY <1>1 DEF Shape, TypeOK, Callers, Reasoned, admission
<1> QED BY <1>2, <1>4, <1>5 DEF Shape

LEMMA OwnerShape ==
  ASSUME Shape, NEW u \in Users, Revoke(u) \/ Erase(u) \/ Wipe(u)
  PROVE  Shape'
<1>1. /\ UNCHANGED <<rowDelivery, task, state, delivery, stop, kill, admission, closed, waiter, late,
                     turn, turns, crashes, ghosts>>
      /\ known' \in SUBSET known /\ eligible' \in SUBSET eligible
      /\ erased' \in {erased, erased \cup {u}} /\ wiped' \in {wiped, wiped \cup {u}}
      /\ rowState' \in {rowState, [j \in Jobs |-> IF UserOf(j) = u THEN "absent" ELSE rowState[j]]}
  BY DEF Revoke, Erase, Wipe, rows, job
<1>2. ReservationsExact'
  BY <1>1, SameHolders DEF Shape, admission
<1>3. /\ rowState' \in [Jobs -> States \cup {"absent"}] /\ known' \in SUBSET Jobs
      /\ eligible' \in SUBSET Users /\ erased' \in SUBSET Users /\ wiped' \in SUBSET Users
  BY <1>1 DEF Shape, TypeOK
<1>4. TypeOK'
  BY <1>1, <1>3 DEF Shape, TypeOK, admission, ghosts
<1> QED BY <1>1, <1>2, <1>4 DEF Shape, Callers, Reasoned, admission

\* How far close() is, and whom it awaits.
LEMMA ClosingTyped ==
  /\ Open \in Closings
  /\ Shape => closed \in Closings /\ closed.awaits \in SUBSET Jobs
  /\ Shape /\ CloseReturns => closed' \in Closings
  /\ Shape /\ Close =>
       /\ closed' \in Closings /\ closed'.at = "closing"
       /\ closed'.awaits = {j \in known : task[j] \in Alive}
<1>1. Open \in Closings
  BY DEF Open, Closings
<1>2. Shape => closed \in Closings /\ closed.awaits \in SUBSET Jobs
  BY DEF Shape, TypeOK, Closings
<1>3. ASSUME Shape, CloseReturns PROVE closed' \in Closings
  <2>1. closed' = [closed EXCEPT !.at = "closed"] /\ closed \in Closings
    BY <1>2, <1>3 DEF CloseReturns
  <2> QED BY <2>1 DEF Closings
<1>4. ASSUME Shape, Close
      PROVE  /\ closed' \in Closings /\ closed'.at = "closing"
             /\ closed'.awaits = {j \in known : task[j] \in Alive}
  <2> DEFINE S == {j \in known : task[j] \in Alive}
  <2>1. closed' = [at |-> "closing", awaits |-> S]
    BY <1>4 DEF Close
  <2>2. S \in SUBSET Jobs
    <3>1. known \in SUBSET Jobs
      BY <1>4 DEF Shape, TypeOK
    <3> QED BY <3>1
  <2> HIDE DEF S
  <2>3. closed' \in Closings /\ closed'.at = "closing" /\ closed'.awaits = S
    BY <2>1, <2>2 DEF Closings
  <2> QED BY <2>3 DEF S
<1> QED BY <1>1, <1>2, <1>3, <1>4

LEMMA CloseShape ==
  ASSUME Shape, Close \/ CloseReturns
  PROVE  Shape'
<1>1. /\ UNCHANGED <<rowDelivery, task, state, delivery, admission, waiter, late, env, ghosts>>
      /\ known' \in SUBSET known /\ closed' \in Closings
      /\ \/ UNCHANGED <<stop, kill>>
         \/ \E S \in SUBSET Jobs :
              /\ stop' = [j \in Jobs |-> IF j \in S THEN "interrupted" ELSE stop[j]]
              /\ kill' = kill \cup S
  <2>1. CASE CloseReturns
    BY <2>1, ClosingTyped DEF CloseReturns, Shape, TypeOK
  <2>2. CASE Close
    <3> DEFINE halted == {j \in known : task[j] \in Alive /\ stop[j] = ""}
    <3>1. halted \in SUBSET Jobs
      BY DEF Shape, TypeOK
    <3>2. /\ stop' = [j \in Jobs |-> IF j \in halted THEN "interrupted" ELSE stop[j]]
          /\ kill' = kill \cup halted /\ closed' \in Closings
          /\ UNCHANGED <<rows, task, state, delivery, known, admission, waiter, late, env, ghosts>>
      BY <2>2, ClosingTyped DEF Close
    <3> HIDE DEF halted
    <3> QED BY <3>1, <3>2 DEF rows
  <2> QED BY <2>1, <2>2
<1>2. rowState' \in [Jobs -> States \cup {"absent"}]
  <2>1. CASE Close
    BY <2>1 DEF Close, rows, Shape, TypeOK
  <2>2. CASE CloseReturns
    <3>1. \A j \in Jobs : stop[j] # "" => stop[j] \in States
      BY DEF Shape, TypeOK, States
    <3> QED BY <2>2, <3>1 DEF CloseReturns, Shape, TypeOK
  <2> QED BY <2>1, <2>2
<1>3. ReservationsExact'
  BY <1>1, SameHolders DEF Shape, admission
<1>4. stop' \in [Jobs -> Reasons \cup {""}] /\ kill' \in SUBSET Jobs /\ known' \in SUBSET Jobs
  BY <1>1 DEF Shape, TypeOK, Reasons
<1>5. TypeOK'
  BY <1>1, <1>2, <1>4 DEF Shape, TypeOK, admission, env, ghosts
<1>6. Callers' /\ Reasoned'
  BY <1>1 DEF Shape, TypeOK, Callers, Reasoned, admission
<1> QED BY <1>3, <1>5, <1>6 DEF Shape

LEMMA CrashShape ==
  ASSUME Shape, Crash
  PROVE  Shape'
<1>1. Holders' = {}
  BY DEF Crash, Holders, Submitting, Holding, Running, Settling
<1>2. Slots({}) = {}
  BY DEF Slots
<1>3. reserved' = {} /\ active' = 0
  BY DEF Crash
<1>4. ReservationsExact'
  BY <1>1, <1>2, <1>3, FS_EmptySet DEF ReservationsExact, Slots
<1>5. /\ rowState' \in [Jobs -> States \cup {"absent"}] /\ rowDelivery' \in [Jobs -> Deliveries]
  BY DEF Crash, Shape, TypeOK, States, Reasons, Deliveries
<1>6. /\ call' \in [Jobs -> Calls] /\ task' \in [Jobs -> TaskStates]
      /\ state' \in [Jobs -> States] /\ delivery' \in [Jobs -> Deliveries]
      /\ stop' \in [Jobs -> Reasons \cup {""}] /\ waiter' \in [Jobs -> Sources \cup {Nobody, Outside}]
      /\ late' \in [Jobs -> SUBSET Write]
  BY DEF Crash, Calls, TaskStates, States, Live, Deliveries
<1>7. crashes' \in Nat
  <2>1. crashes \in Nat
    BY DEF Shape, TypeOK
  <2>2. crashes' = crashes + 1
    BY DEF Crash
  <2> QED BY <2>1, <2>2
<1>8. TypeOK'
  <2>1. /\ kill' = {} /\ known' = {} /\ closed' = Open /\ turn' = {}
        /\ UNCHANGED <<turns, eligible, erased, wiped, ran, posted, pruned, stranded>>
    BY DEF Crash, ghosts
  <2> QED BY <1>3, <1>5, <1>6, <1>7, <2>1, ClosingTyped DEF Shape, TypeOK
<1> QED BY <1>4, <1>8 DEF Crash, Shape, Callers, Reasoned

LEMMA ShapeKept == Shape /\ [Next]_vars => Shape'
<1> SUFFICES ASSUME Shape, [Next]_vars PROVE Shape'
  OBVIOUS
<1>1. ASSUME NEW j \in Jobs, Submit(j) \/ SubmitStep(j)
      PROVE  Shape'
  BY <1>1, SubmitShape, AcceptShape, RefusedShape, SubmitCancelledShape, UndoShape, UndoWriteShape,
     UndoCancelledShape DEF SubmitStep
<1>2. ASSUME NEW j \in Jobs, TaskStep(j)
      PROVE  Shape'
  BY <1>2, BeginShape, StartedShape, WorkedShape, FinishedShape, OriginAnsweredShape, ClaimedShape,
     SentShape, NotedShape, StoppedShape, EndedShape, DeliveryFailsShape, InterruptedShape DEF TaskStep
<1>3. ASSUME NEW j \in Jobs, NEW c \in Sources \cup {Outside}, Cancel(j, c)
      PROVE  Shape'
  BY <1>3, CancelShape
<1>4. ASSUME NEW j \in Jobs, \/ CancelReturns(j) \/ CallerCancelled(j) \/ Watch(j) \/ Forget(j)
                             \/ LateWrite(j) \/ Prune(j)
      PROVE  Shape'
  BY <1>4, CancelReturnsShape, CallerCancelledShape, WatchShape, ForgetShape, LateWriteShape, PruneShape
<1>5. ASSUME NEW s \in Sources, TurnStarts(s) \/ TurnEnds(s)
      PROVE  Shape'
  BY <1>5, TurnShape
<1>6. ASSUME NEW u \in Users, RefreshUser(u) \/ Revoke(u) \/ Erase(u) \/ Wipe(u)
      PROVE  Shape'
  BY <1>6, RefreshUserShape, OwnerShape
<1>7. ASSUME Close \/ CloseReturns \/ Crash
      PROVE  Shape'
  BY <1>7, CloseShape, CrashShape
<1>8. ASSUME UNCHANGED vars
      PROVE  Shape'
  <2>1. ReservationsExact'
    BY <1>8, SameHolders DEF Shape, vars, job, admission
  <2> QED BY <1>8, <2>1 DEF Shape, TypeOK, Callers, Reasoned, vars, rows, job, admission, env, ghosts
<1> QED BY <1>1, <1>2, <1>3, <1>4, <1>5, <1>6, <1>7, <1>8 DEF Next

-----------------------------------------------------------------------------
(* History: rows, runs and results.                                         *)

\* A message has one row at most, and a deleted user none.
Single == \A j, k \in Jobs : Present(j) /\ Present(k) /\ Src[j] = Src[k] => j = k

Erasures == wiped \subseteq erased /\ ErasedStaysErased

\* The row that keeps others from being created, or the reason why it is gone.
Lasting(j) == Present(j) \/ Src[j] \in pruned \/ UserOf(j) \in wiped

RanOnce == OneRun /\ \A j \in ran : Lasting(j)

\* A result is on its way or in the chat.
Delivering(j) == posted[j] = 1 \/ task[j] = "sending"

Posted == {"noting", "stopping", "parting", "over", "none"}

Posting ==
  /\ \A j \in Jobs : posted[j] \in {0, 1}
  /\ \A j \in Jobs : posted[j] = 1 => call[j] = "returned" /\ task[j] \in Posted
  /\ \A j \in Jobs : Delivering(j) => Lasting(j)
  /\ \A j, k \in Jobs :
       Delivering(j) /\ Delivering(k) /\ Src[j] = Src[k] /\ Src[j] \notin pruned => j = k

History == Single /\ Erasures /\ RanOnce /\ Posting

\* A step after which the same rows exist and nothing more has run or been sent.
Steady ==
  /\ \A k \in Jobs : Present(k)' = Present(k)
  /\ UNCHANGED <<ran, posted, pruned, wiped>> /\ erased \subseteq erased'
  /\ \A k \in Jobs : task'[k] = "sending" => task[k] = "sending"
  /\ \A k \in Jobs : posted[k] = 1 => call'[k] = "returned" /\ task'[k] \in Posted

LEMMA SteadyKeeps ==
  ASSUME History, Steady, ran \in SUBSET Jobs
  PROVE  History'
<1>1. Single'
  BY DEF History, Steady, Single
<1>2. Erasures'
  BY DEF History, Steady, Erasures, ErasedStaysErased, UserOf
<1>3. \A k \in Jobs : Lasting(k) => Lasting(k)'
  BY DEF Steady, Lasting, UserOf
<1>4. RanOnce'
  BY <1>3 DEF History, Steady, RanOnce, OneRun
<1>5. \A k \in Jobs : Delivering(k)' => Delivering(k)
  BY DEF Steady, Delivering
<1>6. Posting'
  <2>1. \A j \in Jobs : posted'[j] \in {0, 1}
    BY DEF History, Posting, Steady
  <2>2. \A j \in Jobs : posted'[j] = 1 => call'[j] = "returned" /\ task'[j] \in Posted
    BY DEF Steady
  <2>3. \A j \in Jobs : Delivering(j)' => Lasting(j)'
    BY <1>3, <1>5 DEF History, Posting
  <2>4. \A j, k \in Jobs :
          Delivering(j)' /\ Delivering(k)' /\ Src[j] = Src[k] /\ Src[j] \notin pruned' => j = k
    BY <1>5 DEF History, Posting, Steady
  <2> QED BY <2>1, <2>2, <2>3, <2>4 DEF Posting, Posted
<1> QED BY <1>1, <1>2, <1>4, <1>6 DEF History

\* Writing a state leaves the same rows.
LEMMA StateWritten ==
  ASSUME TypeOK, NEW j \in Jobs, NEW s \in States, WriteState(j, s)
  PROVE  \A k \in Jobs : Present(k)' = Present(k)
  BY DEF TypeOK, WriteState, Present, States, Live, Reasons

LEMMA HistoryInit == Init => History
<1> SUFFICES ASSUME Init PROVE History
  OBVIOUS
<1>1. Single /\ Erasures /\ RanOnce
  BY DEF Init, Single, Erasures, ErasedStaysErased, RanOnce, OneRun, Present
<1>2. \A j \in Jobs : posted[j] = 0 /\ task[j] = "none" /\ ~Delivering(j)
  <2>1. posted = [j \in Jobs |-> 0] /\ task = [j \in Jobs |-> "none"]
    BY DEF Init
  <2>2. \A j \in Jobs : posted[j] = 0 /\ task[j] = "none"
    BY <2>1
  <2> QED BY <2>2 DEF Delivering
<1>3. Posting
  BY <1>2 DEF Posting
<1> QED BY <1>1, <1>3 DEF History

\* Steps that leave the table alone, one for all.
LEMMA QuietHistory ==
  ASSUME Shape, History, UNCHANGED rowState, UNCHANGED <<ran, posted, pruned, wiped>>,
         erased \subseteq erased',
         \A k \in Jobs : task'[k] = "sending" => task[k] = "sending",
         \A k \in Jobs : posted[k] = 1 => call'[k] = "returned" /\ task'[k] \in Posted
  PROVE  History'
<1>1. Steady
  BY DEF Steady, Present
<1> QED BY <1>1, SteadyKeeps DEF Shape, TypeOK

\* Submission.
LEMMA SubmissionHistory ==
  ASSUME Shape, History, NEW j \in Jobs,
         \/ Submit(j) \/ Refused(j) \/ SubmitCancelled(j) \/ UndoCancelled(j) \/ UndoWrite(j)
  PROVE  History'
<1>1. /\ UNCHANGED <<job, ran, posted, pruned, wiped, erased>>
      /\ call[j] # "returned"
      /\ \E p \in Calls : call' = [call EXCEPT ![j] = p]
  BY DEF Submit, Refused, SubmitCancelled, UndoCancelled, UndoWrite, GiveBack, env, ghosts, Calls
<1>2. \A k \in Jobs : posted[k] = 1 => call'[k] = "returned" /\ task'[k] \in Posted
  BY <1>1 DEF History, Posting, Shape, TypeOK, job
<1>3. \A k \in Jobs : Present(k)' = Present(k)
  <2>1. CASE UNCHANGED rowState
    BY <2>1 DEF Present
  <2>2. CASE \E k \in Jobs : WriteState(k, "interrupted")
    BY <2>2, StateWritten DEF Shape, States, Reasons
  <2> QED BY <2>1, <2>2 DEF Submit, Refused, SubmitCancelled, UndoCancelled, UndoWrite, rows, SameSource
<1>4. Steady
  BY <1>1, <1>2, <1>3 DEF Steady, job
<1> QED BY <1>4, SteadyKeeps DEF Shape, TypeOK

\* A row is created, the only one of its message, for a user who is not deleted.
LEMMA InsertHistory ==
  ASSUME Shape, History, NEW j \in Jobs, Insertable(j), Insert(j),
         UNCHANGED <<ran, posted, pruned, wiped, erased>>,
         \A k \in Jobs : task'[k] = "sending" => task[k] = "sending",
         \A k \in Jobs : posted[k] = 1 => call'[k] = "returned" /\ task'[k] \in Posted
  PROVE  History'
<1>1. \A k \in Jobs : Present(k)' = (Present(k) \/ k = j)
  BY DEF Shape, TypeOK, Insert, Present
<1>2. UserOf(j) \notin wiped /\ \A k \in Jobs : Src[k] = Src[j] => ~Present(k)
  BY DEF Insertable, SameSource, History, Erasures
<1>3. Single'
  BY <1>1, <1>2 DEF History, Single
<1>4. Erasures'
  BY <1>1, <1>2 DEF History, Erasures, ErasedStaysErased, UserOf
<1>5. \A k \in Jobs : Lasting(k) => Lasting(k)'
  BY <1>1 DEF Lasting, UserOf
<1>6. RanOnce'
  BY <1>5 DEF History, RanOnce, OneRun, Shape, TypeOK
<1>7. \A k \in Jobs : Delivering(k)' => Delivering(k)
  BY DEF Delivering
<1>8. Posting'
  <2>1. \A k \in Jobs : Delivering(k)' => Lasting(k)'
    BY <1>5, <1>7 DEF History, Posting
  <2>2. \A i, k \in Jobs :
          Delivering(i)' /\ Delivering(k)' /\ Src[i] = Src[k] /\ Src[i] \notin pruned' => i = k
    BY <1>7 DEF History, Posting
  <2> QED BY <2>1, <2>2 DEF History, Posting, Posted
<1> QED BY <1>3, <1>4, <1>6, <1>8 DEF History

LEMMA AcceptHistory ==
  ASSUME Shape, History, NEW j \in Jobs, Accept(j) \/ Undo(j)
  PROVE  History'
<1>1. /\ UNCHANGED <<ran, posted, pruned, wiped, erased>>
      /\ call[j] \in {"creating", "undoing"}
      /\ \E p \in Calls : call' = [call EXCEPT ![j] = p]
      /\ task' \in {task, [task EXCEPT ![j] = "new"]}
  BY DEF Accept, Undo, job, env, ghosts, Calls
<1>2. \A k \in Jobs : task'[k] = "sending" => task[k] = "sending"
  BY <1>1 DEF Shape, TypeOK
<1>3. \A k \in Jobs : posted[k] = 1 => call'[k] = "returned" /\ task'[k] \in Posted
  BY <1>1 DEF History, Posting, Shape, TypeOK
<1>4. CASE UNCHANGED rows
  BY <1>1, <1>2, <1>3, <1>4, QuietHistory DEF rows
<1>5. CASE Insertable(j) /\ Insert(j)
  BY <1>1, <1>2, <1>3, <1>5, InsertHistory
<1> QED BY <1>4, <1>5 DEF Accept, Undo

LEMMA LateWriteHistory ==
  ASSUME Shape, History, NEW j \in Jobs, LateWrite(j)
  PROVE  History'
<1>1. UNCHANGED <<ran, posted, pruned, wiped, erased, task, call>>
  BY DEF LateWrite, job, env, admission
<1>2. \A k \in Jobs : posted[k] = 1 => call'[k] = "returned" /\ task'[k] \in Posted
  BY <1>1 DEF History, Posting
<1>3. CASE UNCHANGED rowState
  BY <1>1, <1>2, <1>3, QuietHistory
<1>4. CASE Insertable(j) /\ Insert(j)
  BY <1>1, <1>2, <1>4, InsertHistory
<1>5. CASE \E w \in late[j] : w.col = "state" /\ WriteState(j, w.val)
  <2>1. \E s \in States : WriteState(j, s)
    BY <1>5, WriteTyped DEF Shape, TypeOK
  <2>2. Steady
    BY <1>1, <1>2, <2>1, StateWritten DEF Steady, Shape
  <2> QED BY <2>2, SteadyKeeps DEF Shape, TypeOK
<1> QED BY <1>3, <1>4, <1>5 DEF LateWrite, rows

\* The task.
LEMMA CalmHistory ==
  ASSUME Shape, History, NEW j \in Jobs,
         \/ Begin(j) \/ Worked(j) \/ Finished(j) \/ OriginAnswered(j) \/ Noted(j) \/ Stopped(j) \/ Ended(j)
  PROVE  History'
<1>1. /\ UNCHANGED <<ran, posted, pruned, wiped, erased, call>>
      /\ \/ \E p \in {"starting", "finishing", "waiting", "claiming"} :
              task[j] \in {"new", "working", "finishing", "waiting"} /\ task' = [task EXCEPT ![j] = p]
         \/ \E p \in {"noting", "parting", "over"} : task' = [task EXCEPT ![j] = p]
  BY DEF Begin, Worked, Finished, OriginAnswered, Noted, Stopped, Ended, Steps, Conclude, Part, Over,
         ghosts, env, admission
<1>2. \A k \in Jobs : task'[k] = "sending" => task[k] = "sending"
  BY <1>1 DEF Shape, TypeOK
<1>3. \A k \in Jobs : posted[k] = 1 => call'[k] = "returned" /\ task'[k] \in Posted
  BY <1>1 DEF History, Posting, Posted, Shape, TypeOK
<1>4. \A k \in Jobs : Present(k)' = Present(k)
  <2>1. CASE UNCHANGED rowState
    BY <2>1 DEF Present
  <2>2. CASE WriteState(j, state[j])
    BY <2>2, StateWritten DEF Shape, TypeOK
  <2> QED BY <2>1, <2>2 DEF Begin, Worked, Finished, OriginAnswered, Noted, Stopped, Ended, rows
<1>5. Steady
  BY <1>1, <1>2, <1>3, <1>4 DEF Steady
<1> QED BY <1>5, SteadyKeeps DEF Shape, TypeOK

\* The workers start for a row that exists, so for no other job of the message.
LEMMA StartedHistory ==
  ASSUME Shape, History, NEW j \in Jobs, Started(j)
  PROVE  History'
<1>1. /\ UNCHANGED <<posted, pruned, wiped, erased, call>>
      /\ \E p \in {"working", "finishing"} : task' = [task EXCEPT ![j] = p]
      /\ task[j] = "starting"
  BY DEF Started, Steps, Conclude, ghosts, env, admission
<1>2. \A k \in Jobs : task'[k] = "sending" => task[k] = "sending"
  BY <1>1 DEF Shape, TypeOK
<1>3. \A k \in Jobs : posted[k] = 1 => call'[k] = "returned" /\ task'[k] \in Posted
  BY <1>1 DEF History, Posting, Posted, Shape, TypeOK
<1>4. CASE ~Present(j) /\ UNCHANGED <<rowState, ran>>
  BY <1>1, <1>2, <1>3, <1>4, QuietHistory
<1>5. CASE Present(j) /\ WriteState(j, "running") /\ ran' = ran \cup {j}
  <2>1. \A k \in Jobs : Present(k)' = Present(k)
    BY <1>5, StateWritten DEF Shape, States, Live
  <2>2. \A k \in Jobs : Lasting(k)' = Lasting(k)
    BY <1>1, <2>1 DEF Lasting, UserOf
  <2>3. Single' /\ Erasures'
    BY <1>1, <2>1 DEF History, Single, Erasures, ErasedStaysErased, UserOf
  <2>4. RanOnce'
    <3>1. \A k \in ran' : Lasting(k)'
      BY <1>5, <2>2 DEF History, RanOnce, Lasting, Shape, TypeOK
    <3>2. ASSUME NEW k \in ran, Src[k] = Src[j], Src[k] \notin pruned
          PROVE  k = j
      <4>1. k \in Jobs /\ (Present(k) \/ UserOf(k) \in wiped)
        BY <3>2 DEF History, RanOnce, Lasting, Shape, TypeOK
      <4>2. UserOf(j) \notin wiped
        BY <1>5 DEF History, Erasures, ErasedStaysErased
      <4>3. Present(k)
        BY <3>2, <4>1, <4>2 DEF UserOf
      <4> QED BY <1>5, <3>2, <4>1, <4>3 DEF History, Single
    <3>3. OneRun'
      BY <1>1, <1>5, <3>2 DEF History, RanOnce, OneRun
    <3> QED BY <3>1, <3>3 DEF RanOnce
  <2>5. \A k \in Jobs : Delivering(k)' => Delivering(k)
    BY <1>1, <1>2 DEF Delivering
  <2>6. Posting'
    <3>1. \A k \in Jobs : Delivering(k)' => Lasting(k)'
      BY <2>2, <2>5 DEF History, Posting
    <3>2. \A i, k \in Jobs :
            Delivering(i)' /\ Delivering(k)' /\ Src[i] = Src[k] /\ Src[i] \notin pruned' => i = k
      BY <1>1, <2>5 DEF History, Posting
    <3>3. \A k \in Jobs : posted'[k] \in {0, 1}
      BY <1>1 DEF History, Posting
    <3>4. \A k \in Jobs : posted'[k] = 1 => call'[k] = "returned" /\ task'[k] \in Posted
      BY <1>1, <1>3
    <3> QED BY <3>1, <3>2, <3>3, <3>4 DEF Posting, Posted
  <2> QED BY <2>3, <2>4, <2>6 DEF History
<1> QED BY <1>4, <1>5 DEF Started

\* A delivery is claimed in a row that exists.
LEMMA ClaimedHistory ==
  ASSUME Shape, History, NEW j \in Jobs, Claimed(j)
  PROVE  History'
<1>1. /\ UNCHANGED <<rowState, ran, posted, pruned, wiped, erased, call>>
      /\ \E p \in {"sending", "parting"} :
           task' = [task EXCEPT ![j] = p] /\ (p = "sending" => Present(j))
      /\ task[j] = "claiming"
  BY DEF Claimed, Claimable, Steps, Part, ghosts, env, admission
<1>2. posted[j] # 1
  BY <1>1 DEF History, Posting, Posted
<1>3. /\ \A k \in Jobs : Present(k)' = Present(k)
      /\ \A k \in Jobs : Lasting(k)' = Lasting(k)
  BY <1>1 DEF Present, Lasting, UserOf
<1>4. /\ \A k \in Jobs \ {j} : Delivering(k)' = Delivering(k)
      /\ Delivering(j)' => Present(j)
  BY <1>1, <1>2 DEF Delivering, Shape, TypeOK
<1>5. Single' /\ Erasures' /\ RanOnce'
  BY <1>1, <1>3 DEF History, Single, Erasures, ErasedStaysErased, RanOnce, OneRun, UserOf, Shape, TypeOK
<1>6. ASSUME NEW k \in Jobs \ {j}, Delivering(j)', Delivering(k), Src[k] = Src[j], Src[k] \notin pruned
      PROVE  FALSE
  <2>1. Present(j) /\ UserOf(j) \notin wiped
    BY <1>4, <1>6 DEF History, Erasures, ErasedStaysErased
  <2>2. Present(k) \/ UserOf(k) \in wiped
    BY <1>6 DEF History, Posting, Lasting
  <2> QED BY <1>6, <2>1, <2>2 DEF History, Single, UserOf
<1>7. Posting'
  <2>1. \A k \in Jobs : Delivering(k)' => Lasting(k)'
    BY <1>3, <1>4 DEF History, Posting, Lasting
  <2>2. \A i, k \in Jobs :
          Delivering(i)' /\ Delivering(k)' /\ Src[i] = Src[k] /\ Src[i] \notin pruned' => i = k
    BY <1>1, <1>4, <1>6 DEF History, Posting
  <2>3. \A k \in Jobs : posted'[k] \in {0, 1}
    BY <1>1 DEF History, Posting
  <2>4. \A k \in Jobs : posted'[k] = 1 => call'[k] = "returned" /\ task'[k] \in Posted
    BY <1>1, <1>2 DEF History, Posting, Shape, TypeOK
  <2> QED BY <2>1, <2>2, <2>3, <2>4 DEF Posting, Posted
<1> QED BY <1>5, <1>7 DEF History

\* A result may be posted by a job that was sending, which then sends no more.
LEMMA SendHistory ==
  ASSUME Shape, History, NEW j \in Jobs,
         UNCHANGED <<rowState, ran, pruned, wiped, erased, call>>,
         \E p \in TaskStates \ {"sending"} : /\ task' = [task EXCEPT ![j] = p]
                                             /\ posted'[j] = 1 => p \in Posted,
         \/ UNCHANGED posted
         \/ task[j] = "sending" /\ posted' = [posted EXCEPT ![j] = posted[j] + 1]
  PROVE  History'
<1>1. task[j] = "sending" => posted[j] = 0 /\ call[j] = "returned"
  BY DEF History, Posting, Posted, Shape, Callers
<1>2. /\ \A k \in Jobs : posted'[k] \in {0, 1}
      /\ \A k \in Jobs : Delivering(k)' => Delivering(k)
  <2>1. \A k \in Jobs : posted[k] \in {0, 1} /\ posted \in [Jobs -> Nat] /\ task \in [Jobs -> TaskStates]
    BY DEF History, Posting, Shape, TypeOK
  <2>2. CASE UNCHANGED posted
    BY <2>1, <2>2 DEF Delivering
  <2>3. CASE task[j] = "sending" /\ posted' = [posted EXCEPT ![j] = posted[j] + 1]
    BY <1>1, <2>1, <2>3 DEF Delivering
  <2> QED BY <2>2, <2>3
<1>3. /\ \A k \in Jobs : Present(k)' = Present(k)
      /\ \A k \in Jobs : Lasting(k)' = Lasting(k)
  BY DEF Present, Lasting, UserOf
<1>4. Single' /\ Erasures' /\ RanOnce'
  BY <1>3 DEF History, Single, Erasures, ErasedStaysErased, RanOnce, OneRun, UserOf, Shape, TypeOK
<1>5. \A k \in Jobs : posted'[k] = 1 => call'[k] = "returned" /\ task'[k] \in Posted
  BY <1>1, ZenonT(60) DEF History, Posting, Shape, TypeOK
<1>6. Posting'
  <2>1. \A k \in Jobs : Delivering(k)' => Lasting(k)'
    BY <1>2, <1>3 DEF History, Posting
  <2>2. \A i, k \in Jobs :
          Delivering(i)' /\ Delivering(k)' /\ Src[i] = Src[k] /\ Src[i] \notin pruned' => i = k
    BY <1>2 DEF History, Posting
  <2> QED BY <1>2, <1>5, <2>1, <2>2 DEF Posting, Posted
<1> QED BY <1>4, <1>6 DEF History

LEMMA SendingHistory ==
  ASSUME Shape, History, NEW j \in Jobs, Sent(j) \/ DeliveryFails(j) \/ Interrupted(j)
  PROVE  History'
<1>1. UNCHANGED <<rowState, ran, pruned, wiped, erased, call>>
  BY DEF Sent, DeliveryFails, Interrupted, Part, rows, env, admission
<1>2. \/ UNCHANGED posted
      \/ task[j] = "sending" /\ posted' = [posted EXCEPT ![j] = posted[j] + 1]
  BY DEF Sent, DeliveryFails, Interrupted, Steps, MayPost
<1>3. \/ \E p \in {"noting", "parting", "stopping", "over"} : task' = [task EXCEPT ![j] = p]
      \/ /\ task[j] \in {"new", "starting", "working"} /\ UNCHANGED posted
         /\ \E p \in {"stillborn", "finishing"} : task' = [task EXCEPT ![j] = p]
  BY DEF Sent, DeliveryFails, Interrupted, Part, Over, Conclude, Running
<1>4. \E p \in TaskStates \ {"sending"} : /\ task' = [task EXCEPT ![j] = p]
                                          /\ posted'[j] = 1 => p \in Posted
  <2>1. CASE \E p \in {"noting", "parting", "stopping", "over"} : task' = [task EXCEPT ![j] = p]
    BY <2>1 DEF Posted, TaskStates, Alive, Holding, Settling
  <2>2. CASE /\ task[j] \in {"new", "starting", "working"} /\ UNCHANGED posted
             /\ \E p \in {"stillborn", "finishing"} : task' = [task EXCEPT ![j] = p]
    <3>1. posted'[j] # 1
      BY <2>2 DEF History, Posting, Posted
    <3> QED BY <2>2, <3>1 DEF TaskStates, Alive, Holding, Settling
  <2> QED BY <1>3, <2>1, <2>2
<1> QED BY <1>1, <1>2, <1>4, SendHistory

\* Rows go with a reason that lasts: pruned, or their user is deleted.
LEMMA PruneHistory ==
  ASSUME Shape, History, NEW j \in Jobs, Prune(j)
  PROVE  History'
<1>1. /\ UNCHANGED <<ran, posted, wiped, erased, task, call>>
      /\ pruned' = pruned \cup {Src[j]}
  BY DEF Prune, job, admission, env
<1>2. /\ \A k \in Jobs : Present(k)' => Present(k)
      /\ \A k \in Jobs : Lasting(k) => Lasting(k)'
  BY <1>1 DEF Prune, Present, Lasting, UserOf, Shape, TypeOK
<1>3. Single' /\ Erasures' /\ RanOnce'
  BY <1>1, <1>2 DEF History, Single, Erasures, ErasedStaysErased, RanOnce, OneRun, UserOf, Shape, TypeOK
<1>4. \A k \in Jobs : Delivering(k)' = Delivering(k)
  BY <1>1 DEF Delivering
<1>5. Posting'
  BY <1>1, <1>2, <1>4 DEF History, Posting
<1> QED BY <1>3, <1>5 DEF History

LEMMA WipeHistory ==
  ASSUME Shape, History, NEW u \in Users, Wipe(u)
  PROVE  History'
<1>1. /\ UNCHANGED <<ran, posted, erased, pruned, task, call>>
      /\ wiped' = wiped \cup {u} /\ u \in erased
  BY DEF Wipe, admission, ghosts
<1>2. \A k \in Jobs : Present(k)' = (Present(k) /\ UserOf(k) # u)
  BY DEF Wipe, Present, Shape, TypeOK
<1>3. \A k \in Jobs : Lasting(k) => Lasting(k)'
  BY <1>1, <1>2 DEF Lasting, UserOf
<1>4. Single' /\ Erasures' /\ RanOnce'
  <2>1. Single'
    BY <1>2 DEF History, Single
  <2>2. Erasures'
    BY <1>1, <1>2 DEF History, Erasures, ErasedStaysErased, UserOf
  <2>3. RanOnce'
    BY <1>1, <1>3 DEF History, RanOnce, OneRun, Shape, TypeOK
  <2> QED BY <2>1, <2>2, <2>3
<1>5. \A k \in Jobs : Delivering(k)' = Delivering(k)
  BY <1>1 DEF Delivering
<1>6. Posting'
  BY <1>1, <1>3, <1>5 DEF History, Posting
<1> QED BY <1>4, <1>6 DEF History

\* The turns, the owners, the watchdog and the first half of shutdown leave the
\* table and the tasks where they are.
LEMMA BystanderHistory ==
  ASSUME Shape, History,
         \/ \E j \in Jobs : \/ \E c \in Sources \cup {Outside} : Cancel(j, c)
                            \/ CallerCancelled(j) \/ Watch(j) \/ Forget(j)
         \/ \E s \in Sources : TurnStarts(s) \/ TurnEnds(s)
         \/ \E u \in Users : RefreshUser(u) \/ Revoke(u) \/ Erase(u)
         \/ Close \/ UNCHANGED vars
  PROVE  History'
<1>1. UNCHANGED <<rowState, ran, posted, pruned, wiped, task, call>>
  <2>1. CASE \E j \in Jobs : \/ \E c \in Sources \cup {Outside} : Cancel(j, c)
                             \/ CallerCancelled(j) \/ Watch(j) \/ Forget(j)
    BY <2>1 DEF Cancel, CallerCancelled, Watch, Forget, rows, admission, env, ghosts
  <2>2. CASE \E s \in Sources : TurnStarts(s) \/ TurnEnds(s)
    BY <2>2 DEF TurnStarts, TurnEnds, rows, job, admission, env, ghosts
  <2>3. CASE \E u \in Users : RefreshUser(u) \/ Revoke(u) \/ Erase(u)
    BY <2>3 DEF RefreshUser, Revoke, Erase, rows, job, admission, env, ghosts
  <2>4. CASE Close \/ UNCHANGED vars
    BY <2>4 DEF Close, vars, rows, job, admission, env, ghosts
  <2> QED BY <2>1, <2>2, <2>3, <2>4
<1>2. erased \subseteq erased'
  BY DEF Cancel, CallerCancelled, Watch, Forget, TurnStarts, TurnEnds, RefreshUser, Revoke, Erase, Close, vars, env
<1>3. \A k \in Jobs : posted[k] = 1 => call'[k] = "returned" /\ task'[k] \in Posted
  BY <1>1 DEF History, Posting
<1> QED BY <1>1, <1>2, <1>3, QuietHistory

\* cancel() and close() write over rows that exist.
LEMMA ReturnsHistory ==
  ASSUME Shape, History, CloseReturns \/ \E j \in Jobs : CancelReturns(j)
  PROVE  History'
<1>1. UNCHANGED <<ran, posted, pruned, wiped, erased, task, call>>
  BY DEF CloseReturns, CancelReturns, admission, env, ghosts
<1>2. \A k \in Jobs : Present(k)' = Present(k)
  <2>1. CASE CloseReturns
    BY <2>1 DEF CloseReturns, Present, Shape, TypeOK, Reasons
  <2>2. ASSUME NEW j \in Jobs, CancelReturns(j)
        PROVE  \A k \in Jobs : Present(k)' = Present(k)
    <3>1. stop[j] \in Reasons
      BY <2>2 DEF CancelReturns, Shape, Reasoned, TypeOK
    <3> QED BY <2>2, <3>1, StateWritten DEF CancelReturns, Shape, States
  <2> QED BY <2>1, <2>2
<1>3. Steady
  BY <1>1, <1>2 DEF Steady, History, Posting
<1> QED BY <1>3, SteadyKeeps DEF Shape, TypeOK

\* A restart keeps the rows, and no submission or task.
LEMMA CrashHistory ==
  ASSUME Shape, History, Crash
  PROVE  History'
<1>1. /\ UNCHANGED <<ran, posted, pruned, wiped, erased>>
      /\ task' = [j \in Jobs |-> "none"]
      /\ call' = [j \in Jobs |-> IF call[j] = "idle" THEN "idle" ELSE "returned"]
  BY DEF Crash, ghosts
<1>2. \A k \in Jobs : Present(k)' = Present(k)
  BY DEF Crash, Present, Live
<1>3. \A k \in Jobs : posted[k] = 1 => call'[k] = "returned" /\ task'[k] \in Posted
  BY <1>1 DEF History, Posting, Posted
<1>4. \A k \in Jobs : task'[k] # "sending"
  BY <1>1
<1>5. Steady
  BY <1>1, <1>2, <1>3, <1>4 DEF Steady
<1> QED BY <1>5, SteadyKeeps DEF Shape, TypeOK

LEMMA HistoryKept ==
  ASSUME Shape, History, [Next]_vars
  PROVE  History'
<1>1. ASSUME NEW j \in Jobs, Submit(j) \/ SubmitStep(j)
      PROVE  History'
  BY <1>1, SubmissionHistory, AcceptHistory DEF SubmitStep
<1>2. ASSUME NEW j \in Jobs, TaskStep(j)
      PROVE  History'
  BY <1>2, CalmHistory, StartedHistory, ClaimedHistory, SendingHistory DEF TaskStep
<1>3. ASSUME NEW j \in Jobs, CancelReturns(j) \/ LateWrite(j) \/ Prune(j)
      PROVE  History'
  BY <1>3, ReturnsHistory, LateWriteHistory, PruneHistory
<1>4. ASSUME NEW j \in Jobs, \/ \E c \in Sources \cup {Outside} : Cancel(j, c)
                             \/ CallerCancelled(j) \/ Watch(j) \/ Forget(j)
      PROVE  History'
  BY <1>4, BystanderHistory
<1>5. ASSUME NEW s \in Sources, TurnStarts(s) \/ TurnEnds(s)
      PROVE  History'
  BY <1>5, BystanderHistory
<1>6. ASSUME NEW u \in Users, RefreshUser(u) \/ Revoke(u) \/ Erase(u) \/ Wipe(u)
      PROVE  History'
  BY <1>6, BystanderHistory, WipeHistory
<1>7. CASE Close \/ CloseReturns \/ Crash \/ UNCHANGED vars
  BY <1>7, BystanderHistory, ReturnsHistory, CrashHistory
<1> QED BY <1>1, <1>2, <1>3, <1>4, <1>5, <1>6, <1>7 DEF Next

-----------------------------------------------------------------------------
(* What the table says of a job, what its owner's cancel() silences, and what   *)
(* is left live: Records, pointwise in the jobs.                               *)

\* Job j has posted nothing, and its task, if there is one, goes on without
\* another send.
Mute(j) ==
  /\ call[j] = "returned" /\ posted[j] = 0
  /\ \/ task[j] \in {"none", "stillborn", "over", "parting", "stopping"}
     \/ task[j] \in {"new", "starting", "working"} /\ stop[j] # ""
     \/ task[j] = "finishing" /\ (stop[j] # "" \/ state[j] \in Reasons)

\* The update that an abandoned call still owes a cancelled job.
Cancelling == [col |-> "state", val |-> "cancelled"]

\* What is cancelled in memory, in the table or in an abandoned call is mute, and
\* a job that can still be cancelled has not come to its result.
Silent(j) ==
  /\ \/ stop[j] = "cancelled" \/ state[j] = "cancelled" \/ rowState[j] = "cancelled"
     \/ Cancelling \in late[j]
     => Mute(j)
  /\ task[j] \in Alive /\ stop[j] = "" /\ state[j] \in Live =>
       task[j] \in {"new", "starting", "working"}

\* The submission is over, and the task at or beyond its delivery.
Past(j) == call[j] = "returned" /\ task[j] \in Posted

\* Delivery d is a fair account of what was posted.
Truthful(j, d) ==
  /\ d \in {"sent", "failed", "suppressed"}
  /\ d = "sent" => posted[j] = 1
  /\ d = "suppressed" => posted[j] = 0

\* The table, and the delivery about to be written there, agree with the chat.
Faithful(j) ==
  /\ Present(j) /\ rowDelivery[j] = "sent" => posted[j] = 1
  /\ Present(j) /\ posted[j] = 1 => rowDelivery[j] \in {"attempting", "sent", "failed", "unknown"}
  /\ Present(j) /\ task[j] = "sending" => rowDelivery[j] = "attempting"
  /\ task[j] = "noting" => Truthful(j, delivery[j])

\* What an abandoned call would write is still true whenever it runs.
Belated(j) ==
  \A w \in late[j] :
    /\ w.col = "create" => call[j] = "returned" /\ task[j] = "none" /\ posted[j] = 0 /\ w.val \in Live
    /\ w.col = "claim" => w.val = "attempting"
    /\ w.col = "delivery" => Past(j) /\ Truthful(j, w.val)

\* The excuses of a row that stays live.
Excused(j) == j \in stranded \/ \E w \in late[j] : w.col = "state"

\* cancel() or close() will write the reason.
Awaiting(j) == waiter[j] # Nobody \/ (closed.at = "closing" /\ j \in known \cap closed.awaits)

\* A live row has an excuse, or something that is still to update it.
Settled(j) ==
  /\ rowState[j] \in Live =>
       \/ Excused(j)
       \/ call[j] = "interrupting"
       \/ task[j] \in {"new", "starting", "working", "finishing", "stopping"}
       \/ task[j] = "stillborn" /\ Awaiting(j)
  /\ task[j] = "new" /\ j \in kill /\ Present(j) => Awaiting(j) \/ j \in stranded
  /\ task[j] \in {"stillborn", "stopping"} => stop[j] # ""
  /\ task[j] = "finishing" => state[j] \notin Live \/ j \in kill
  /\ task[j] = "stopping" => state[j] \notin Live
  /\ j \in kill => task[j] \in Alive
  /\ Present(j) => call[j] \in {"interrupting", "returned"}

Recorded(j) == Silent(j) /\ Faithful(j) /\ Belated(j) /\ Settled(j)

Records == \A j \in Jobs : Recorded(j)

\* What History says of one job.
LEMMA PostedOnce ==
  ASSUME History, NEW k \in Jobs
  PROVE  /\ posted[k] \in {0, 1}
         /\ posted[k] = 1 => Past(k)
BY DEF History, Posting, Past

\* Nothing of k changes.
Untouched(k) ==
  /\ rowState'[k] = rowState[k] /\ rowDelivery'[k] = rowDelivery[k]
  /\ call'[k] = call[k] /\ task'[k] = task[k] /\ state'[k] = state[k]
  /\ delivery'[k] = delivery[k] /\ stop'[k] = stop[k] /\ posted'[k] = posted[k]
  /\ late'[k] = late[k] /\ waiter'[k] = waiter[k]
  /\ k \in kill' <=> k \in kill
  /\ k \in known' <=> k \in known
  /\ k \in stranded' <=> k \in stranded
  /\ closed' = closed

LEMMA UntouchedKeeps ==
  ASSUME NEW k \in Jobs, Recorded(k), Untouched(k)
  PROVE  Recorded(k)'
<1>1. (Mute(k) => Mute(k)') /\ Silent(k)'
  BY DEF Recorded, Untouched, Silent, Mute
<1>2. Faithful(k)'
  BY DEF Recorded, Untouched, Faithful, Truthful, Present
<1>3. Belated(k)'
  BY DEF Recorded, Untouched, Belated, Truthful, Past
<1>4. Settled(k)'
  BY DEF Recorded, Untouched, Settled, Excused, Awaiting, Present
<1> QED BY <1>1, <1>2, <1>3, <1>4 DEF Recorded

\* The store calls left behind stay true.
LEMMA BelatedKept ==
  ASSUME NEW k \in Jobs, Belated(k), late'[k] \subseteq late[k],
         call[k] = "returned" /\ task[k] = "none" => call'[k] = "returned" /\ task'[k] = "none",
         Past(k) => Past(k)' /\ posted'[k] = posted[k]
  PROVE  Belated(k)'
<1> SUFFICES ASSUME NEW w \in late'[k]
             PROVE  /\ w.col = "create" => call'[k] = "returned" /\ task'[k] = "none" /\ posted'[k] = 0 /\ w.val \in Live
                    /\ w.col = "claim" => w.val = "attempting"
                    /\ w.col = "delivery" => Past(k)' /\ Truthful(k, w.val)'
  BY DEF Belated
<1>1. w \in late[k]
  OBVIOUS
<1> QED BY <1>1 DEF Belated, Past, Posted, Truthful

\* A task before its result, and the state that its first try ends with.
LEMMA EarlySilent ==
  ASSUME Shape, History, Records, NEW j \in Jobs, task[j] \in {"new", "starting", "working"},
         call'[j] = call[j], stop'[j] = stop[j], late'[j] = late[j], posted'[j] = posted[j],
         rowState'[j] \in {rowState[j], "running"},
         \/ task'[j] \in {"starting", "working"} /\ state'[j] \in {state[j], "running"}
         \/ task'[j] = "finishing" /\ state'[j] \in {StopState(j), "completed"}
  PROVE  Silent(j)'
<1>1. Silent(j) /\ posted[j] = 0 /\ call[j] = "returned"
  BY PostedOnce DEF Records, Recorded, Shape, Callers, Past, Posted
<1>2. StopState(j) \in Reasons
  BY DEF StopState, Shape, TypeOK, Reasons
<1>3. Mute(j) => Mute(j)'
  BY DEF Mute
<1>4. task'[j] = "finishing" /\ state'[j] = "cancelled" => Mute(j)'
  BY <1>1 DEF Mute, Reasons
<1> QED BY <1>1, <1>2, <1>3, <1>4 DEF Silent, Live, Reasons

\* The actions that touch one job: the others stay Untouched, and the parts of
\* Recorded hold of this one.
LEMMA SubmitRecords ==
  ASSUME Shape, History, Records, NEW j \in Jobs, Submit(j)
  PROVE  Records'
<1>0. Recorded(j) /\ posted[j] \in {0, 1} /\ (posted[j] = 1 => Past(j))
  BY PostedOnce DEF Records
<1>1. \A k \in Jobs \ {j} : Untouched(k)
  BY DEF Submit, rows, job, env, ghosts, Untouched, Shape, TypeOK
<1>2. Mute(j) => Mute(j)'
  BY DEF Submit, rows, job, env, ghosts, Shape, TypeOK, Callers, Reasoned, Mute
<1>3. Silent(j)'
  BY <1>0, <1>2 DEF Submit, rows, job, env, ghosts, Shape, TypeOK, Callers, Reasoned, Recorded, Silent,
     Mute, Past, Posted, Cancelling, Live, Reasons, Alive, Holding, Running, Settling, Present
<1>4. Faithful(j)'
  BY <1>0 DEF Submit, rows, job, env, ghosts, Shape, TypeOK, Callers, Reasoned, Recorded, Faithful,
     Truthful, Past, Posted, Present
<1>5. Belated(j)'
  <2>1. late'[j] \subseteq late[j]
    BY DEF Submit, rows, job, env, ghosts, Shape, TypeOK, Callers, Reasoned
  <2>2. call[j] = "returned" /\ task[j] = "none" => call'[j] = "returned" /\ task'[j] = "none"
    BY DEF Submit, rows, job, env, ghosts, Shape, TypeOK, Callers, Reasoned
  <2>3. Past(j) => Past(j)' /\ posted'[j] = posted[j]
    BY DEF Submit, rows, job, env, ghosts, Shape, TypeOK, Callers, Reasoned, Past, Posted
  <2> QED BY <1>0, <2>1, <2>2, <2>3, BelatedKept DEF Recorded
<1>6. Settled(j)'
  BY <1>0 DEF Submit, rows, job, env, ghosts, Shape, TypeOK, Callers, Reasoned, Recorded, Settled,
     Excused, Awaiting, Live, Reasons, Alive, Holding, Running, Settling, Present
<1> QED BY <1>1, <1>3, <1>4, <1>5, <1>6, UntouchedKeeps DEF Records, Recorded

LEMMA AcceptRecords ==
  ASSUME Shape, History, Records, NEW j \in Jobs, Accept(j)
  PROVE  Records'
<1>0. Recorded(j) /\ posted[j] \in {0, 1} /\ (posted[j] = 1 => Past(j))
  BY PostedOnce DEF Records
<1>1. \A k \in Jobs \ {j} : Untouched(k)
  BY DEF Accept, Insert, env, ghosts, Untouched, Shape, TypeOK
<1>2. Mute(j) => Mute(j)'
  BY DEF Accept, Insert, env, ghosts, Shape, TypeOK, Callers, Reasoned, Mute
<1>3. Silent(j)'
  BY <1>0, <1>2 DEF Accept, Insert, env, ghosts, Shape, TypeOK, Callers, Reasoned, Recorded, Silent, Mute,
     Past, Posted, Cancelling, Live, Reasons, Alive, Holding, Running, Settling, Present
<1>4. Faithful(j)'
  BY <1>0 DEF Accept, Insert, env, ghosts, Shape, TypeOK, Callers, Reasoned, Recorded, Faithful, Truthful,
     Past, Posted, Present
<1>5. Belated(j)'
  <2>1. late'[j] \subseteq late[j]
    BY DEF Accept, Insert, env, ghosts, Shape, TypeOK, Callers, Reasoned
  <2>2. call[j] = "returned" /\ task[j] = "none" => call'[j] = "returned" /\ task'[j] = "none"
    BY DEF Accept, Insert, env, ghosts, Shape, TypeOK, Callers, Reasoned
  <2>3. Past(j) => Past(j)' /\ posted'[j] = posted[j]
    BY DEF Accept, Insert, env, ghosts, Shape, TypeOK, Callers, Reasoned, Past, Posted
  <2> QED BY <1>0, <2>1, <2>2, <2>3, BelatedKept DEF Recorded
<1>6. Settled(j)'
  BY <1>0 DEF Accept, Insert, env, ghosts, Shape, TypeOK, Callers, Reasoned, Recorded, Settled, Excused,
     Awaiting, Live, Reasons, Alive, Holding, Running, Settling, Present
<1> QED BY <1>1, <1>3, <1>4, <1>5, <1>6, UntouchedKeeps DEF Records, Recorded

LEMMA RefusedRecords ==
  ASSUME Shape, History, Records, NEW j \in Jobs, Refused(j)
  PROVE  Records'
<1>0. Recorded(j) /\ posted[j] \in {0, 1} /\ (posted[j] = 1 => Past(j))
  BY PostedOnce DEF Records
<1>1. \A k \in Jobs \ {j} : Untouched(k)
  BY DEF Refused, GiveBack, Release, job, env, ghosts, rows, Untouched, Shape, TypeOK
<1>2. Mute(j) => Mute(j)'
  BY DEF Refused, GiveBack, Release, job, env, ghosts, rows, Shape, TypeOK, Callers, Reasoned, Mute
<1>3. Silent(j)'
  BY <1>0, <1>2 DEF Refused, GiveBack, Release, job, env, ghosts, rows, Shape, TypeOK, Callers, Reasoned,
     Recorded, Silent, Mute, Past, Posted, Cancelling, Live, Reasons, Alive, Holding, Running, Settling,
     Present
<1>4. Faithful(j)'
  BY <1>0 DEF Refused, GiveBack, Release, job, env, ghosts, rows, Shape, TypeOK, Callers, Reasoned,
     Recorded, Faithful, Truthful, Past, Posted, Present
<1>5. Belated(j)'
  <2>1. late'[j] \subseteq late[j]
    BY DEF Refused, GiveBack, Release, job, env, ghosts, rows, Shape, TypeOK, Callers, Reasoned
  <2>2. call[j] = "returned" /\ task[j] = "none" => call'[j] = "returned" /\ task'[j] = "none"
    BY DEF Refused, GiveBack, Release, job, env, ghosts, rows, Shape, TypeOK, Callers, Reasoned
  <2>3. Past(j) => Past(j)' /\ posted'[j] = posted[j]
    BY DEF Refused, GiveBack, Release, job, env, ghosts, rows, Shape, TypeOK, Callers, Reasoned, Past,
       Posted
  <2> QED BY <1>0, <2>1, <2>2, <2>3, BelatedKept DEF Recorded
<1>6. Settled(j)'
  BY <1>0 DEF Refused, GiveBack, Release, job, env, ghosts, rows, Shape, TypeOK, Callers, Reasoned,
     Recorded, Settled, Excused, Awaiting, Live, Reasons, Alive, Holding, Running, Settling, Present
<1> QED BY <1>1, <1>3, <1>4, <1>5, <1>6, UntouchedKeeps DEF Records, Recorded

LEMMA SubmitCancelledRecords ==
  ASSUME Shape, History, Records, NEW j \in Jobs, SubmitCancelled(j)
  PROVE  Records'
<1>0. Recorded(j) /\ posted[j] \in {0, 1} /\ (posted[j] = 1 => Past(j))
  BY PostedOnce DEF Records
<1>1. \A k \in Jobs \ {j} : Untouched(k)
  BY DEF SubmitCancelled, rows, job, env, ghosts, Untouched, Shape, TypeOK
<1>2. Mute(j) => Mute(j)'
  BY DEF SubmitCancelled, rows, job, env, ghosts, Shape, TypeOK, Callers, Reasoned, Mute
<1>3. Silent(j)'
  BY <1>0, <1>2 DEF SubmitCancelled, rows, job, env, ghosts, Shape, TypeOK, Callers, Reasoned, Recorded,
     Silent, Mute, Past, Posted, Cancelling, Live, Reasons, Alive, Holding, Running, Settling, Present
<1>4. Faithful(j)'
  BY <1>0 DEF SubmitCancelled, rows, job, env, ghosts, Shape, TypeOK, Callers, Reasoned, Recorded,
     Faithful, Truthful, Past, Posted, Present
<1>5. Belated(j)'
  <2>1. late'[j] \subseteq late[j]
    BY DEF SubmitCancelled, rows, job, env, ghosts, Shape, TypeOK, Callers, Reasoned
  <2>2. call[j] = "returned" /\ task[j] = "none" => call'[j] = "returned" /\ task'[j] = "none"
    BY DEF SubmitCancelled, rows, job, env, ghosts, Shape, TypeOK, Callers, Reasoned
  <2>3. Past(j) => Past(j)' /\ posted'[j] = posted[j]
    BY DEF SubmitCancelled, rows, job, env, ghosts, Shape, TypeOK, Callers, Reasoned, Past, Posted
  <2> QED BY <1>0, <2>1, <2>2, <2>3, BelatedKept DEF Recorded
<1>6. Settled(j)'
  BY <1>0 DEF SubmitCancelled, rows, job, env, ghosts, Shape, TypeOK, Callers, Reasoned, Recorded,
     Settled, Excused, Awaiting, Live, Reasons, Alive, Holding, Running, Settling, Present
<1> QED BY <1>1, <1>3, <1>4, <1>5, <1>6, UntouchedKeeps DEF Records, Recorded

LEMMA UndoRecords ==
  ASSUME Shape, History, Records, NEW j \in Jobs, Undo(j)
  PROVE  Records'
<1>0. Recorded(j) /\ posted[j] \in {0, 1} /\ (posted[j] = 1 => Past(j))
  BY PostedOnce DEF Records
<1>1. \A k \in Jobs \ {j} : Untouched(k)
  BY DEF Undo, Insert, rows, job, env, ghosts, Untouched, Shape, TypeOK
<1>2. Mute(j) => Mute(j)'
  BY DEF Undo, Insert, rows, job, env, ghosts, Shape, TypeOK, Callers, Reasoned, Mute
<1>3. Silent(j)'
  <2>1. /\ UNCHANGED <<task, state, stop, late, posted>>
        /\ rowState'[j] \in {rowState[j], "queued"}
    BY DEF Undo, Insert, rows, job, ghosts, Shape, TypeOK
  <2> QED BY <1>0, <1>2, <2>1 DEF Recorded, Silent
<1>4. Faithful(j)'
  BY <1>0 DEF Undo, Insert, rows, job, env, ghosts, Shape, TypeOK, Callers, Reasoned, Recorded, Faithful,
     Truthful, Past, Posted, Present
<1>5. Belated(j)'
  <2>1. late'[j] \subseteq late[j]
    BY DEF Undo, Insert, rows, job, env, ghosts, Shape, TypeOK, Callers, Reasoned
  <2>2. call[j] = "returned" /\ task[j] = "none" => call'[j] = "returned" /\ task'[j] = "none"
    BY DEF Undo, Insert, rows, job, env, ghosts, Shape, TypeOK, Callers, Reasoned
  <2>3. Past(j) => Past(j)' /\ posted'[j] = posted[j]
    BY DEF Undo, Insert, rows, job, env, ghosts, Shape, TypeOK, Callers, Reasoned, Past, Posted
  <2> QED BY <1>0, <2>1, <2>2, <2>3, BelatedKept DEF Recorded
<1>6. Settled(j)'
  BY <1>0 DEF Undo, Insert, rows, job, env, ghosts, Shape, TypeOK, Callers, Reasoned, Recorded, Settled,
     Excused, Awaiting, Live, Reasons, Alive, Holding, Running, Settling, Present
<1> QED BY <1>1, <1>3, <1>4, <1>5, <1>6, UntouchedKeeps DEF Records, Recorded

LEMMA BeginRecords ==
  ASSUME Shape, History, Records, NEW j \in Jobs, Begin(j)
  PROVE  Records'
<1>0. Recorded(j) /\ posted[j] \in {0, 1} /\ (posted[j] = 1 => Past(j))
  BY PostedOnce DEF Records
<1>1. \A k \in Jobs \ {j} : Untouched(k)
  BY DEF Begin, Conclude, StopState, Steps, rows, job, admission, env, ghosts, Untouched, Shape, TypeOK
<1>2. /\ task[j] = "new" /\ j \notin kill
      /\ UNCHANGED <<rowState, call, stop, kill, known, closed, waiter, late, posted, stranded>>
      /\ \/ task'[j] = "starting" /\ state'[j] = "running"
         \/ task'[j] = "finishing" /\ state'[j] \in {StopState(j), "completed"}
  BY DEF Begin, Conclude, Steps, rows, admission, ghosts, Shape, TypeOK
<1>3. Silent(j)'
  BY <1>2, EarlySilent
<1>4. Faithful(j)'
  BY <1>0 DEF Begin, Conclude, StopState, Steps, rows, job, admission, env, ghosts, Shape, TypeOK,
     Callers, Reasoned, Recorded, Faithful, Truthful, Past, Posted, Present
<1>5. Belated(j)'
  <2>1. late'[j] \subseteq late[j]
    BY DEF Begin, Conclude, StopState, Steps, rows, job, admission, env, ghosts, Shape, TypeOK, Callers,
       Reasoned
  <2>2. call[j] = "returned" /\ task[j] = "none" => call'[j] = "returned" /\ task'[j] = "none"
    BY DEF Begin, Conclude, StopState, Steps, rows, job, admission, env, ghosts, Shape, TypeOK, Callers,
       Reasoned
  <2>3. Past(j) => Past(j)' /\ posted'[j] = posted[j]
    BY DEF Begin, Conclude, StopState, Steps, rows, job, admission, env, ghosts, Shape, TypeOK, Callers,
       Reasoned, Past, Posted
  <2> QED BY <1>0, <2>1, <2>2, <2>3, BelatedKept DEF Recorded
<1>6. Settled(j)'
  <2>1. call[j] = "returned" /\ StopState(j) \in Reasons
    BY <1>2 DEF Shape, Callers, StopState, TypeOK, Reasons
  <2> QED BY <1>0, <1>2, <2>1 DEF Recorded, Settled, Excused, Awaiting, Live, Reasons, Present
<1> QED BY <1>1, <1>3, <1>4, <1>5, <1>6, UntouchedKeeps DEF Records, Recorded

LEMMA StartedRecords ==
  ASSUME Shape, History, Records, NEW j \in Jobs, Started(j)
  PROVE  Records'
<1>0. Recorded(j) /\ posted[j] \in {0, 1} /\ (posted[j] = 1 => Past(j))
  BY PostedOnce DEF Records
<1>1. \A k \in Jobs \ {j} : Untouched(k)
  <2>1. \A k \in Jobs \ {j} : /\ rowState'[k] = rowState[k] /\ task'[k] = task[k]
                               /\ state'[k] = state[k]
    BY DEF Started, Conclude, WriteState, Shape, TypeOK
  <2> QED BY <2>1 DEF Started, admission, Untouched
<1>3. Silent(j)'
  <2>1. /\ task[j] = "starting" /\ UNCHANGED <<call, stop, late, posted>>
        /\ \/ rowState'[j] = "running" /\ task'[j] = "working" /\ state'[j] = state[j]
           \/ rowState'[j] = rowState[j] /\ task'[j] = "finishing" /\ state'[j] = StopState(j)
    BY DEF Started, Conclude, Steps, WriteState, admission, Shape, TypeOK
  <2> QED BY <2>1, EarlySilent
<1>4. Faithful(j)'
  BY <1>0 DEF Started, Conclude, StopState, Steps, WriteState, admission, env, Shape, TypeOK, Callers,
     Reasoned, Recorded, Faithful, Truthful, Past, Posted, Present
<1>5. Belated(j)'
  <2>1. late'[j] \subseteq late[j]
    BY DEF Started, Conclude, StopState, Steps, WriteState, admission, env, Shape, TypeOK, Callers, Reasoned
  <2>2. call[j] = "returned" /\ task[j] = "none" => call'[j] = "returned" /\ task'[j] = "none"
    BY DEF Started, Conclude, StopState, Steps, WriteState, admission, env, Shape, TypeOK, Callers, Reasoned
  <2>3. Past(j) => Past(j)' /\ posted'[j] = posted[j]
    BY DEF Started, Conclude, StopState, Steps, WriteState, admission, env, Shape, TypeOK, Callers,
       Reasoned, Past, Posted
  <2> QED BY <1>0, <2>1, <2>2, <2>3, BelatedKept DEF Recorded
<1>6. Settled(j)'
  BY <1>0 DEF Started, Conclude, StopState, Steps, WriteState, admission, env, Shape, TypeOK, Callers,
     Reasoned, Recorded, Settled, Excused, Awaiting, Live, Reasons, Alive, Holding, Running, Settling,
     Present
<1> QED BY <1>1, <1>3, <1>4, <1>5, <1>6, UntouchedKeeps DEF Records, Recorded

LEMMA WorkedRecords ==
  ASSUME Shape, History, Records, NEW j \in Jobs, Worked(j)
  PROVE  Records'
<1>0. Recorded(j) /\ posted[j] \in {0, 1} /\ (posted[j] = 1 => Past(j))
  BY PostedOnce DEF Records
<1>1. \A k \in Jobs \ {j} : Untouched(k)
  BY DEF Worked, Conclude, StopState, Steps, rows, admission, env, ghosts, Untouched, Shape, TypeOK
<1>3. Silent(j)'
  <2>1. /\ task[j] = "working" /\ UNCHANGED <<rowState, call, stop, late, posted>>
        /\ task'[j] = "finishing" /\ state'[j] \in {StopState(j), "completed"}
    BY DEF Worked, Conclude, Steps, rows, admission, ghosts, Shape, TypeOK
  <2> QED BY <2>1, EarlySilent
<1>4. Faithful(j)'
  BY <1>0 DEF Worked, Conclude, StopState, Steps, rows, admission, env, ghosts, Shape, TypeOK, Callers,
     Reasoned, Recorded, Faithful, Truthful, Past, Posted, Present
<1>5. Belated(j)'
  <2>1. late'[j] \subseteq late[j]
    BY DEF Worked, Conclude, StopState, Steps, rows, admission, env, ghosts, Shape, TypeOK, Callers,
       Reasoned
  <2>2. call[j] = "returned" /\ task[j] = "none" => call'[j] = "returned" /\ task'[j] = "none"
    BY DEF Worked, Conclude, StopState, Steps, rows, admission, env, ghosts, Shape, TypeOK, Callers,
       Reasoned
  <2>3. Past(j) => Past(j)' /\ posted'[j] = posted[j]
    BY DEF Worked, Conclude, StopState, Steps, rows, admission, env, ghosts, Shape, TypeOK, Callers,
       Reasoned, Past, Posted
  <2> QED BY <1>0, <2>1, <2>2, <2>3, BelatedKept DEF Recorded
<1>6. Settled(j)'
  BY <1>0 DEF Worked, Conclude, StopState, Steps, rows, admission, env, ghosts, Shape, TypeOK, Callers,
     Reasoned, Recorded, Settled, Excused, Awaiting, Live, Reasons, Alive, Holding, Running, Settling,
     Present
<1> QED BY <1>1, <1>3, <1>4, <1>5, <1>6, UntouchedKeeps DEF Records, Recorded

LEMMA FinishedRecords ==
  ASSUME Shape, History, Records, NEW j \in Jobs, Finished(j)
  PROVE  Records'
<1>0. Recorded(j) /\ posted[j] \in {0, 1} /\ (posted[j] = 1 => Past(j))
  BY PostedOnce DEF Records
<1>1. \A k \in Jobs \ {j} : Untouched(k)
  BY DEF Finished, Part, Release, job, Steps, WriteState, Due, admission, env, ghosts, Untouched, Shape,
     TypeOK
<1>2. Mute(j) => Mute(j)'
  BY DEF Finished, Part, Release, job, Steps, WriteState, Due, admission, env, ghosts, Shape, TypeOK,
     Callers, Reasoned, Mute
<1>3. Silent(j)'
  BY <1>0, <1>2 DEF Finished, Part, Release, job, Steps, WriteState, Due, admission, env, ghosts, Shape,
     TypeOK, Callers, Reasoned, Recorded, Silent, Mute, Past, Posted, Cancelling, Live, Reasons, Alive,
     Holding, Running, Settling, Present
<1>4. Faithful(j)'
  BY <1>0 DEF Finished, Part, Release, job, Steps, WriteState, Due, admission, env, ghosts, Shape, TypeOK,
     Callers, Reasoned, Recorded, Faithful, Truthful, Past, Posted, Present
<1>5. Belated(j)'
  <2>1. late'[j] \subseteq late[j]
    BY DEF Finished, Part, Release, job, Steps, WriteState, Due, admission, env, ghosts, Shape, TypeOK,
       Callers, Reasoned
  <2>2. call[j] = "returned" /\ task[j] = "none" => call'[j] = "returned" /\ task'[j] = "none"
    BY DEF Finished, Part, Release, job, Steps, WriteState, Due, admission, env, ghosts, Shape, TypeOK,
       Callers, Reasoned
  <2>3. Past(j) => Past(j)' /\ posted'[j] = posted[j]
    BY DEF Finished, Part, Release, job, Steps, WriteState, Due, admission, env, ghosts, Shape, TypeOK,
       Callers, Reasoned, Past, Posted
  <2> QED BY <1>0, <2>1, <2>2, <2>3, BelatedKept DEF Recorded
<1>6. Settled(j)'
  BY <1>0 DEF Finished, Part, Release, job, Steps, WriteState, Due, admission, env, ghosts, Shape, TypeOK,
     Callers, Reasoned, Recorded, Settled, Excused, Awaiting, Live, Reasons, Alive, Holding, Running,
     Settling, Present
<1> QED BY <1>1, <1>3, <1>4, <1>5, <1>6, UntouchedKeeps DEF Records, Recorded

LEMMA OriginAnsweredRecords ==
  ASSUME Shape, History, Records, NEW j \in Jobs, OriginAnswered(j)
  PROVE  Records'
<1>0. Recorded(j) /\ posted[j] \in {0, 1} /\ (posted[j] = 1 => Past(j))
  BY PostedOnce DEF Records
<1>1. \A k \in Jobs \ {j} : Untouched(k)
  BY DEF OriginAnswered, Steps, rows, admission, env, ghosts, Untouched, Shape, TypeOK
<1>2. Mute(j) => Mute(j)'
  BY DEF OriginAnswered, Steps, rows, admission, env, ghosts, Shape, TypeOK, Callers, Reasoned, Mute
<1>3. Silent(j)'
  BY <1>0, <1>2 DEF OriginAnswered, Steps, rows, admission, env, ghosts, Shape, TypeOK, Callers, Reasoned,
     Recorded, Silent, Mute, Past, Posted, Cancelling, Live, Reasons, Alive, Holding, Running, Settling,
     Present
<1>4. Faithful(j)'
  BY <1>0 DEF OriginAnswered, Steps, rows, admission, env, ghosts, Shape, TypeOK, Callers, Reasoned,
     Recorded, Faithful, Truthful, Past, Posted, Present
<1>5. Belated(j)'
  <2>1. late'[j] \subseteq late[j]
    BY DEF OriginAnswered, Steps, rows, admission, env, ghosts, Shape, TypeOK, Callers, Reasoned
  <2>2. call[j] = "returned" /\ task[j] = "none" => call'[j] = "returned" /\ task'[j] = "none"
    BY DEF OriginAnswered, Steps, rows, admission, env, ghosts, Shape, TypeOK, Callers, Reasoned
  <2>3. Past(j) => Past(j)' /\ posted'[j] = posted[j]
    BY DEF OriginAnswered, Steps, rows, admission, env, ghosts, Shape, TypeOK, Callers, Reasoned, Past,
       Posted
  <2> QED BY <1>0, <2>1, <2>2, <2>3, BelatedKept DEF Recorded
<1>6. Settled(j)'
  BY <1>0 DEF OriginAnswered, Steps, rows, admission, env, ghosts, Shape, TypeOK, Callers, Reasoned,
     Recorded, Settled, Excused, Awaiting, Live, Reasons, Alive, Holding, Running, Settling, Present
<1> QED BY <1>1, <1>3, <1>4, <1>5, <1>6, UntouchedKeeps DEF Records, Recorded

LEMMA StoppedRecords ==
  ASSUME Shape, History, Records, NEW j \in Jobs, Stopped(j)
  PROVE  Records'
<1>0. Recorded(j) /\ posted[j] \in {0, 1} /\ (posted[j] = 1 => Past(j))
  BY PostedOnce DEF Records
<1>1. \A k \in Jobs \ {j} : Untouched(k)
  BY DEF Stopped, Part, Release, job, Steps, WriteState, env, ghosts, Untouched, Shape, TypeOK
<1>2. Mute(j) => Mute(j)'
  BY DEF Stopped, Part, Release, job, Steps, WriteState, env, ghosts, Shape, TypeOK, Callers, Reasoned, Mute
<1>3. Silent(j)'
  BY <1>0, <1>2 DEF Stopped, Part, Release, job, Steps, WriteState, env, ghosts, Shape, TypeOK, Callers,
     Reasoned, Recorded, Silent, Mute, Past, Posted, Cancelling, Live, Reasons, Alive, Holding, Running,
     Settling, Present
<1>4. Faithful(j)'
  BY <1>0 DEF Stopped, Part, Release, job, Steps, WriteState, env, ghosts, Shape, TypeOK, Callers,
     Reasoned, Recorded, Faithful, Truthful, Past, Posted, Present
<1>5. Belated(j)'
  <2>1. late'[j] \subseteq late[j]
    BY DEF Stopped, Part, Release, job, Steps, WriteState, env, ghosts, Shape, TypeOK, Callers, Reasoned
  <2>2. call[j] = "returned" /\ task[j] = "none" => call'[j] = "returned" /\ task'[j] = "none"
    BY DEF Stopped, Part, Release, job, Steps, WriteState, env, ghosts, Shape, TypeOK, Callers, Reasoned
  <2>3. Past(j) => Past(j)' /\ posted'[j] = posted[j]
    BY DEF Stopped, Part, Release, job, Steps, WriteState, env, ghosts, Shape, TypeOK, Callers,
       Reasoned, Past, Posted
  <2> QED BY <1>0, <2>1, <2>2, <2>3, BelatedKept DEF Recorded
<1>6. Settled(j)'
  BY <1>0 DEF Stopped, Part, Release, job, Steps, WriteState, env, ghosts, Shape, TypeOK, Callers,
     Reasoned, Recorded, Settled, Excused, Awaiting, Live, Reasons, Alive, Holding, Running, Settling,
     Present
<1> QED BY <1>1, <1>3, <1>4, <1>5, <1>6, UntouchedKeeps DEF Records, Recorded

LEMMA EndedRecords ==
  ASSUME Shape, History, Records, NEW j \in Jobs, Ended(j)
  PROVE  Records'
<1>0. Recorded(j) /\ posted[j] \in {0, 1} /\ (posted[j] = 1 => Past(j))
  BY PostedOnce DEF Records
<1>1. \A k \in Jobs \ {j} : Untouched(k)
  BY DEF Ended, Over, job, Steps, rows, admission, env, ghosts, Untouched, Shape, TypeOK
<1>2. Mute(j) => Mute(j)'
  BY DEF Ended, Over, job, Steps, rows, admission, env, ghosts, Shape, TypeOK, Callers, Reasoned, Mute
<1>3. Silent(j)'
  BY <1>0, <1>2 DEF Ended, Over, job, Steps, rows, admission, env, ghosts, Shape, TypeOK, Callers,
     Reasoned, Recorded, Silent, Mute, Past, Posted, Cancelling, Live, Reasons, Alive, Holding, Running,
     Settling, Present
<1>4. Faithful(j)'
  BY <1>0 DEF Ended, Over, job, Steps, rows, admission, env, ghosts, Shape, TypeOK, Callers, Reasoned,
     Recorded, Faithful, Truthful, Past, Posted, Present
<1>5. Belated(j)'
  <2>1. late'[j] \subseteq late[j]
    BY DEF Ended, Over, job, Steps, rows, admission, env, ghosts, Shape, TypeOK, Callers, Reasoned
  <2>2. call[j] = "returned" /\ task[j] = "none" => call'[j] = "returned" /\ task'[j] = "none"
    BY DEF Ended, Over, job, Steps, rows, admission, env, ghosts, Shape, TypeOK, Callers, Reasoned
  <2>3. Past(j) => Past(j)' /\ posted'[j] = posted[j]
    BY DEF Ended, Over, job, Steps, rows, admission, env, ghosts, Shape, TypeOK, Callers, Reasoned,
       Past, Posted
  <2> QED BY <1>0, <2>1, <2>2, <2>3, BelatedKept DEF Recorded
<1>6. Settled(j)'
  BY <1>0 DEF Ended, Over, job, Steps, rows, admission, env, ghosts, Shape, TypeOK, Callers, Reasoned,
     Recorded, Settled, Excused, Awaiting, Live, Reasons, Alive, Holding, Running, Settling, Present
<1> QED BY <1>1, <1>3, <1>4, <1>5, <1>6, UntouchedKeeps DEF Records, Recorded

LEMMA CancelReturnsRecords ==
  ASSUME Shape, History, Records, NEW j \in Jobs, CancelReturns(j)
  PROVE  Records'
<1>0. Recorded(j) /\ posted[j] \in {0, 1} /\ (posted[j] = 1 => Past(j))
  BY PostedOnce DEF Records
<1>1. \A k \in Jobs \ {j} : Untouched(k)
  BY DEF CancelReturns, WriteState, admission, env, ghosts, Untouched, Shape, TypeOK
<1>2. Mute(j) => Mute(j)'
  BY DEF CancelReturns, WriteState, admission, env, ghosts, Shape, TypeOK, Callers, Reasoned, Mute
<1>3. Silent(j)'
  BY <1>0, <1>2 DEF CancelReturns, WriteState, admission, env, ghosts, Shape, TypeOK, Callers, Reasoned,
     Recorded, Silent, Mute, Past, Posted, Cancelling, Live, Reasons, Alive, Holding, Running, Settling,
     Present
<1>4. Faithful(j)'
  BY <1>0 DEF CancelReturns, WriteState, admission, env, ghosts, Shape, TypeOK, Callers, Reasoned,
     Recorded, Faithful, Truthful, Past, Posted, Present
<1>5. Belated(j)'
  <2>1. late'[j] \subseteq late[j]
    BY DEF CancelReturns, WriteState, admission, env, ghosts, Shape, TypeOK, Callers, Reasoned
  <2>2. call[j] = "returned" /\ task[j] = "none" => call'[j] = "returned" /\ task'[j] = "none"
    BY DEF CancelReturns, WriteState, admission, env, ghosts, Shape, TypeOK, Callers, Reasoned
  <2>3. Past(j) => Past(j)' /\ posted'[j] = posted[j]
    BY DEF CancelReturns, WriteState, admission, env, ghosts, Shape, TypeOK, Callers, Reasoned, Past, Posted
  <2> QED BY <1>0, <2>1, <2>2, <2>3, BelatedKept DEF Recorded
<1>6. Settled(j)'
  BY <1>0 DEF CancelReturns, WriteState, admission, env, ghosts, Shape, TypeOK, Callers, Reasoned,
     Recorded, Settled, Excused, Awaiting, Live, Reasons, Alive, Holding, Running, Settling, Present
<1> QED BY <1>1, <1>3, <1>4, <1>5, <1>6, UntouchedKeeps DEF Records, Recorded

LEMMA CallerCancelledRecords ==
  ASSUME Shape, History, Records, NEW j \in Jobs, CallerCancelled(j)
  PROVE  Records'
<1>0. Recorded(j) /\ posted[j] \in {0, 1} /\ (posted[j] = 1 => Past(j))
  BY PostedOnce DEF Records
<1>1. \A k \in Jobs \ {j} : Untouched(k)
  BY DEF CallerCancelled, rows, admission, env, Untouched, Shape, TypeOK
<1>2. Mute(j) => Mute(j)'
  BY DEF CallerCancelled, rows, admission, env, Shape, TypeOK, Callers, Reasoned, Mute
<1>3. Silent(j)'
  BY <1>0, <1>2 DEF CallerCancelled, rows, admission, env, Shape, TypeOK, Callers, Reasoned, Recorded,
     Silent, Mute, Past, Posted, Cancelling, Live, Reasons, Alive, Holding, Running, Settling, Present
<1>4. Faithful(j)'
  BY <1>0 DEF CallerCancelled, rows, admission, env, Shape, TypeOK, Callers, Reasoned, Recorded, Faithful,
     Truthful, Past, Posted, Present
<1>5. Belated(j)'
  <2>1. late'[j] \subseteq late[j]
    BY DEF CallerCancelled, rows, admission, env, Shape, TypeOK, Callers, Reasoned
  <2>2. call[j] = "returned" /\ task[j] = "none" => call'[j] = "returned" /\ task'[j] = "none"
    BY DEF CallerCancelled, rows, admission, env, Shape, TypeOK, Callers, Reasoned
  <2>3. Past(j) => Past(j)' /\ posted'[j] = posted[j]
    BY DEF CallerCancelled, rows, admission, env, Shape, TypeOK, Callers, Reasoned, Past, Posted
  <2> QED BY <1>0, <2>1, <2>2, <2>3, BelatedKept DEF Recorded
<1>6. Settled(j)'
  BY <1>0 DEF CallerCancelled, rows, admission, env, Shape, TypeOK, Callers, Reasoned, Recorded, Settled,
     Excused, Awaiting, Live, Reasons, Alive, Holding, Running, Settling, Present
<1> QED BY <1>1, <1>3, <1>4, <1>5, <1>6, UntouchedKeeps DEF Records, Recorded

LEMMA WatchRecords ==
  ASSUME Shape, History, Records, NEW j \in Jobs, Watch(j)
  PROVE  Records'
<1>0. Recorded(j) /\ posted[j] \in {0, 1} /\ (posted[j] = 1 => Past(j))
  BY PostedOnce DEF Records
<1>1. \A k \in Jobs \ {j} : Untouched(k)
  BY DEF Watch, Stop, job, rows, admission, env, ghosts, Untouched, Shape, TypeOK
<1>2. Mute(j) => Mute(j)'
  BY DEF Watch, Stop, job, rows, admission, env, ghosts, Shape, TypeOK, Callers, Reasoned, Mute
<1>3. Silent(j)'
  BY <1>0, <1>2 DEF Watch, Stop, job, rows, admission, env, ghosts, Shape, TypeOK, Callers, Reasoned,
     Recorded, Silent, Mute, Past, Posted, Cancelling, Live, Reasons, Alive, Holding, Running, Settling,
     Present
<1>4. Faithful(j)'
  BY <1>0 DEF Watch, Stop, job, rows, admission, env, ghosts, Shape, TypeOK, Callers, Reasoned, Recorded,
     Faithful, Truthful, Past, Posted, Present
<1>5. Belated(j)'
  <2>1. late'[j] \subseteq late[j]
    BY DEF Watch, Stop, job, rows, admission, env, ghosts, Shape, TypeOK, Callers, Reasoned
  <2>2. call[j] = "returned" /\ task[j] = "none" => call'[j] = "returned" /\ task'[j] = "none"
    BY DEF Watch, Stop, job, rows, admission, env, ghosts, Shape, TypeOK, Callers, Reasoned
  <2>3. Past(j) => Past(j)' /\ posted'[j] = posted[j]
    BY DEF Watch, Stop, job, rows, admission, env, ghosts, Shape, TypeOK, Callers, Reasoned, Past, Posted
  <2> QED BY <1>0, <2>1, <2>2, <2>3, BelatedKept DEF Recorded
<1>6. Settled(j)'
  BY <1>0 DEF Watch, Stop, job, rows, admission, env, ghosts, Shape, TypeOK, Callers, Reasoned, Recorded,
     Settled, Excused, Awaiting, Live, Reasons, Alive, Holding, Running, Settling, Present
<1> QED BY <1>1, <1>3, <1>4, <1>5, <1>6, UntouchedKeeps DEF Records, Recorded

LEMMA ForgetRecords ==
  ASSUME Shape, History, Records, NEW j \in Jobs, Forget(j)
  PROVE  Records'
<1>0. Recorded(j) /\ posted[j] \in {0, 1} /\ (posted[j] = 1 => Past(j))
  BY PostedOnce DEF Records
<1>1. \A k \in Jobs \ {j} : Untouched(k)
  BY DEF Forget, rows, admission, env, ghosts, Untouched, Shape, TypeOK
<1>2. Mute(j) => Mute(j)'
  BY DEF Forget, rows, admission, env, ghosts, Shape, TypeOK, Callers, Reasoned, Mute
<1>3. Silent(j)'
  BY <1>0, <1>2 DEF Forget, rows, admission, env, ghosts, Shape, TypeOK, Callers, Reasoned, Recorded,
     Silent, Mute, Past, Posted, Cancelling, Live, Reasons, Alive, Holding, Running, Settling, Present
<1>4. Faithful(j)'
  BY <1>0 DEF Forget, rows, admission, env, ghosts, Shape, TypeOK, Callers, Reasoned, Recorded, Faithful,
     Truthful, Past, Posted, Present
<1>5. Belated(j)'
  <2>1. late'[j] \subseteq late[j]
    BY DEF Forget, rows, admission, env, ghosts, Shape, TypeOK, Callers, Reasoned
  <2>2. call[j] = "returned" /\ task[j] = "none" => call'[j] = "returned" /\ task'[j] = "none"
    BY DEF Forget, rows, admission, env, ghosts, Shape, TypeOK, Callers, Reasoned
  <2>3. Past(j) => Past(j)' /\ posted'[j] = posted[j]
    BY DEF Forget, rows, admission, env, ghosts, Shape, TypeOK, Callers, Reasoned, Past, Posted
  <2> QED BY <1>0, <2>1, <2>2, <2>3, BelatedKept DEF Recorded
<1>6. Settled(j)'
  BY <1>0 DEF Forget, rows, admission, env, ghosts, Shape, TypeOK, Callers, Reasoned, Recorded, Settled,
     Excused, Awaiting, Live, Reasons, Alive, Holding, Running, Settling, Present
<1> QED BY <1>1, <1>3, <1>4, <1>5, <1>6, UntouchedKeeps DEF Records, Recorded

LEMMA PruneRecords ==
  ASSUME Shape, History, Records, NEW j \in Jobs, Prune(j)
  PROVE  Records'
<1>0. Recorded(j) /\ posted[j] \in {0, 1} /\ (posted[j] = 1 => Past(j))
  BY PostedOnce DEF Records
<1>1. \A k \in Jobs \ {j} : Untouched(k)
  BY DEF Prune, job, admission, env, Untouched, Shape, TypeOK
<1>2. Mute(j) => Mute(j)'
  BY DEF Prune, job, admission, env, Shape, TypeOK, Callers, Reasoned, Mute
<1>3. Silent(j)'
  BY <1>0, <1>2 DEF Prune, job, admission, env, Shape, TypeOK, Callers, Reasoned, Recorded, Silent, Mute,
     Past, Posted, Cancelling, Live, Reasons, Alive, Holding, Running, Settling, Present
<1>4. Faithful(j)'
  BY <1>0 DEF Prune, job, admission, env, Shape, TypeOK, Callers, Reasoned, Recorded, Faithful, Truthful,
     Past, Posted, Present
<1>5. Belated(j)'
  <2>1. late'[j] \subseteq late[j]
    BY DEF Prune, job, admission, env, Shape, TypeOK, Callers, Reasoned
  <2>2. call[j] = "returned" /\ task[j] = "none" => call'[j] = "returned" /\ task'[j] = "none"
    BY DEF Prune, job, admission, env, Shape, TypeOK, Callers, Reasoned
  <2>3. Past(j) => Past(j)' /\ posted'[j] = posted[j]
    BY DEF Prune, job, admission, env, Shape, TypeOK, Callers, Reasoned, Past, Posted
  <2> QED BY <1>0, <2>1, <2>2, <2>3, BelatedKept DEF Recorded
<1>6. Settled(j)'
  BY <1>0 DEF Prune, job, admission, env, Shape, TypeOK, Callers, Reasoned, Recorded, Settled, Excused,
     Awaiting, Live, Reasons, Alive, Holding, Running, Settling, Present
<1> QED BY <1>1, <1>3, <1>4, <1>5, <1>6, UntouchedKeeps DEF Records, Recorded

\* What a submission that was cancelled writes over the row of its message.
LEMMA UndoWriteRecords ==
  ASSUME Shape, History, Records, NEW j \in Jobs, UndoWrite(j)
  PROVE  Records'
<1>1. /\ UNCHANGED <<rowDelivery, late, job, closed, waiter, ghosts>>
      /\ call' = [call EXCEPT ![j] = "returned"] /\ call[j] = "interrupting"
  BY DEF UndoWrite, GiveBack
<1>2. \/ \E x \in SameSource(j) : Present(x) /\ WriteState(x, "interrupted")
      \/ (\A x \in SameSource(j) : ~Present(x)) /\ UNCHANGED rowState
  BY DEF UndoWrite
<1>3. \A k \in Jobs : rowState'[k] \in {rowState[k], "interrupted"} /\ Present(k)' = Present(k)
  BY <1>2 DEF WriteState, Present, Shape, TypeOK, SameSource
<1>4. rowState'[j] \notin Live
  <2>1. ASSUME NEW x \in SameSource(j), Present(x), WriteState(x, "interrupted"), Present(j)
        PROVE  rowState'[j] \notin Live
    <3>1. x = j
      BY <2>1 DEF SameSource, History, Single
    <3> QED BY <2>1, <3>1 DEF WriteState, Live, Shape, TypeOK
  <2>2. ASSUME ~Present(j) PROVE rowState'[j] \notin Live
    BY <1>3, <2>2 DEF Present, Live
  <2>3. j \in SameSource(j)
    BY DEF SameSource
  <2> QED BY <1>2, <2>1, <2>2, <2>3
<1>5. \A k \in Jobs \ {j} : call'[k] = call[k]
  BY <1>1 DEF Shape, TypeOK
<1> SUFFICES ASSUME NEW k \in Jobs PROVE Recorded(k)'
  BY DEF Records
<1>6. Recorded(k) /\ posted[k] \in {0, 1} /\ (posted[k] = 1 => Past(k))
  BY PostedOnce DEF Records
<1>7. call'[k] = "returned" \/ call'[k] = call[k]
  BY <1>1, <1>5 DEF Shape, TypeOK
<1>8. (Mute(k) => Mute(k)') /\ Silent(k)'
  <2>1. Mute(k) => Mute(k)'
    BY <1>1, <1>7 DEF Mute, job, ghosts
  <2> QED BY <1>1, <1>3, <1>6, <2>1 DEF Recorded, Silent, job, ghosts, Cancelling
<1>9. Faithful(k)'
  BY <1>1, <1>3, <1>6 DEF Recorded, Faithful, Truthful, job, ghosts
<1>10. Belated(k)'
  BY <1>1, <1>6, <1>7, BelatedKept DEF Recorded, job, ghosts, Past
<1>11. Settled(k)'
  <2>1. k # j => call'[k] = call[k]
    BY <1>5
  <2> QED BY <1>1, <1>3, <1>4, <1>6, <1>7, <2>1 DEF Recorded, Settled, Excused, Awaiting, job, ghosts, Live
<1> QED BY <1>8, <1>9, <1>10, <1>11 DEF Recorded

\* The abandoned call of a submission is a creation, or the write of a row.
LEMMA UndoCancelledRecords ==
  ASSUME Shape, History, Records, NEW j \in Jobs, UndoCancelled(j)
  PROVE  Records'
<1>1. /\ UNCHANGED <<rows, job, closed, waiter, ghosts>>
      /\ call' = [call EXCEPT ![j] = "returned"] /\ call[j] \in {"undoing", "interrupting"}
  BY DEF UndoCancelled, GiveBack
<1>2. PICK x \in Jobs, w \in {[col |-> "create", val |-> "queued"], [col |-> "state", val |-> "interrupted"]} :
        /\ Abandon(x, w)
        /\ w.col = "create" => x = j /\ call[j] = "undoing"
        /\ w.col = "state" => call[j] = "interrupting" /\ Present(x) /\ Src[x] = Src[j]
  <2>1. CASE call[j] = "undoing"
    BY <2>1 DEF UndoCancelled
  <2>2. CASE call[j] = "interrupting"
    BY <2>2 DEF UndoCancelled, SameSource
  <2> QED BY <1>1, <2>1, <2>2
<1>3. /\ \A k \in Jobs \ {x} : late'[k] = late[k]
      /\ late'[x] = late[x] \cup {w}
  BY <1>2 DEF Abandon, Shape, TypeOK
<1>4. \A k \in Jobs \ {j} : call'[k] = call[k]
  BY <1>1 DEF Shape, TypeOK
<1> SUFFICES ASSUME NEW k \in Jobs PROVE Recorded(k)'
  BY DEF Records
<1>5. Recorded(k) /\ posted[k] \in {0, 1} /\ (posted[k] = 1 => Past(k))
  BY PostedOnce DEF Records
<1>6. call'[k] = "returned" \/ call'[k] = call[k]
  BY <1>1, <1>4 DEF Shape, TypeOK
<1>7. \A v \in late'[k] : v \in late[k] \/ (v = w /\ k = x)
  BY <1>3
<1>8. Silent(k)'
  <2>1. Mute(k) => Mute(k)'
    BY <1>1, <1>6 DEF Mute, job, ghosts
  <2>2. Cancelling \in late'[k] => Cancelling \in late[k]
    BY <1>7 DEF Cancelling
  <2> QED BY <1>1, <1>5, <2>1, <2>2 DEF Recorded, Silent, job, ghosts, rows
<1>9. Faithful(k)'
  BY <1>1, <1>5 DEF Recorded, Faithful, Truthful, job, ghosts, rows, Present
<1>10. Belated(k)'
  <2>1. task[j] = "none" /\ posted[j] = 0 /\ call'[j] = "returned"
    <3>1. posted[j] \in {0, 1} /\ (posted[j] = 1 => Past(j))
      BY PostedOnce
    <3> QED BY <1>1, <3>1 DEF Shape, Callers, Past, TypeOK
  <2> SUFFICES ASSUME NEW v \in late'[k]
               PROVE  /\ v.col = "create" => call'[k] = "returned" /\ task'[k] = "none" /\ posted'[k] = 0 /\ v.val \in Live
                      /\ v.col = "claim" => v.val = "attempting"
                      /\ v.col = "delivery" => Past(k)' /\ Truthful(k, v.val)'
    BY DEF Belated
  <2>2. CASE v \in late[k]
    BY <1>1, <1>5, <1>6, <2>2 DEF Recorded, Belated, Past, Truthful, job, ghosts
  <2>3. CASE v = w /\ k = x
    BY <1>1, <1>2, <2>1, <2>3 DEF job, ghosts, Live
  <2> QED BY <1>7, <2>2, <2>3
<1>11. Settled(k)'
  <2>1. rowState[k] \in Live => Present(k)
    BY DEF Live, Present
  <2>2. k = j /\ Present(j) => k = x /\ w.col = "state"
    <3>1. Present(j) => call[j] = "interrupting"
      BY <1>1, Zenon DEF Records, Recorded, Settled
    <3>2. call[j] = "interrupting" => w.col = "state"
      BY <1>2
    <3>3. w.col = "state" /\ Present(j) => x = j
      BY <1>2 DEF History, Single
    <3> QED BY <3>1, <3>2, <3>3
  <2>3. Excused(k) => Excused(k)'
    BY <1>1, <1>3 DEF Excused, ghosts
  <2>4. k = x /\ w.col = "state" => Excused(k)'
    BY <1>3 DEF Excused
  <2> QED BY <1>1, <1>4, <1>5, <1>6, <2>1, <2>2, <2>3, <2>4
          DEF Recorded, Settled, Awaiting, Present, rows, job, ghosts
<1> QED BY <1>8, <1>9, <1>10, <1>11 DEF Recorded

\* A claim turns the delivery of a job that has posted nothing.
LEMMA ClaimedRecords ==
  ASSUME Shape, History, Records, NEW j \in Jobs, Claimed(j)
  PROVE  Records'
<1>1. PICK p \in {"sending", "parting"} :
        /\ task[j] = "claiming" /\ task' = [task EXCEPT ![j] = p]
        /\ \/ p = "sending" /\ Present(j) /\ rowDelivery[j] = "pending"
              /\ rowDelivery' = [rowDelivery EXCEPT ![j] = "attempting"]
              /\ delivery' = [delivery EXCEPT ![j] = "attempting"]
           \/ p = "parting" /\ UNCHANGED <<rowDelivery, delivery>>
  BY DEF Claimed, Part, Steps, Claimable, WriteDelivery
<1>2. UNCHANGED <<rowState, call, state, stop, kill, known, closed, waiter, late, posted, stranded>>
  BY DEF Claimed, Part, admission, ghosts
<1>3. Recorded(j) /\ posted[j] \in {0, 1} /\ (posted[j] = 1 => Past(j))
  BY PostedOnce DEF Records
<1>4. posted[j] = 0 /\ ~Mute(j)
  BY <1>1, <1>3 DEF Past, Posted, Mute
<1>5. /\ task'[j] = p
      /\ \A k \in Jobs \ {j} : /\ task'[k] = task[k] /\ rowDelivery'[k] = rowDelivery[k]
                              /\ delivery'[k] = delivery[k]
  BY <1>1 DEF Shape, TypeOK
<1>6. \A k \in Jobs \ {j} : Untouched(k)
  BY <1>2, <1>5 DEF Untouched
<1>7. Silent(j)'
  BY <1>1, <1>2, <1>3, <1>4, <1>5 DEF Recorded, Silent, Alive, Holding, Running, Settling
<1>8. Faithful(j)'
  <2>1. p = "sending" => rowDelivery'[j] = "attempting"
    BY <1>1 DEF Shape, TypeOK
  <2>2. p = "parting" => rowDelivery'[j] = rowDelivery[j]
    BY <1>1
  <2> QED BY <1>1, <1>2, <1>3, <1>4, <1>5, <2>1, <2>2 DEF Recorded, Faithful, Present
<1>9. Belated(j)'
  BY <1>1, <1>2, <1>3, BelatedKept DEF Recorded, Past, Posted
<1>10. Settled(j)'
  BY <1>1, <1>2, <1>3, <1>5 DEF Recorded, Settled, Excused, Awaiting, Present, Alive, Holding, Running,
     Settling
<1> QED BY <1>6, <1>7, <1>8, <1>9, <1>10, UntouchedKeeps DEF Records, Recorded

\* The request to post adds one or none.
LEMMA PostedMore ==
  ASSUME Shape, NEW j \in Jobs, MayPost(j), posted[j] = 0
  PROVE  /\ \A k \in Jobs \ {j} : posted'[k] = posted[k]
         /\ posted'[j] \in {0, 1}
         /\ posted' = [posted EXCEPT ![j] = @ + 1] => posted'[j] = 1
<1>1. posted \in [Jobs -> Nat]
  BY DEF Shape, TypeOK
<1>2. CASE posted' = posted
  <2>1. posted # [posted EXCEPT ![j] = @ + 1]
    BY <1>1
  <2> QED BY <1>1, <1>2, <2>1
<1>3. CASE posted' = [posted EXCEPT ![j] = @ + 1]
  BY <1>1, <1>3
<1> QED BY <1>2, <1>3 DEF MayPost

\* What is noted after a send is a fair account of it.
LEMMA SentRecords ==
  ASSUME Shape, History, Records, NEW j \in Jobs, Sent(j)
  PROVE  Records'
<1>1. /\ task[j] = "sending" /\ task' = [task EXCEPT ![j] = "noting"]
      /\ UNCHANGED <<rows, call, state, stop, kill, known, closed, waiter, late, stranded>>
  BY DEF Sent, Steps, admission
<1>2. Recorded(j) /\ posted[j] = 0
  BY <1>1, PostedOnce DEF Records, Past, Posted
<1>3. PICK d \in {"sent", "failed", "suppressed"} :
        /\ delivery' = [delivery EXCEPT ![j] = d]
        /\ posted' \in {posted, [posted EXCEPT ![j] = @ + 1]}
        /\ d = "sent" => posted' = [posted EXCEPT ![j] = @ + 1]
        /\ d = "suppressed" => posted' = posted
  BY DEF Sent, MayPost
<1>4. /\ task'[j] = "noting" /\ delivery'[j] = d
      /\ \A k \in Jobs \ {j} : task'[k] = task[k] /\ delivery'[k] = delivery[k] /\ posted'[k] = posted[k]
      /\ posted'[j] \in {0, 1}
      /\ d = "sent" => posted'[j] = 1
      /\ d = "suppressed" => posted'[j] = 0
  <2>1. MayPost(j)
    BY <1>3 DEF MayPost
  <2> QED BY <1>1, <1>2, <1>3, <2>1, PostedMore DEF Shape, TypeOK
<1>5. \A k \in Jobs \ {j} : Untouched(k)
  BY <1>1, <1>4 DEF Untouched, rows
<1>6. Silent(j)'
  <2>1. ~Mute(j)
    BY <1>1 DEF Mute
  <2> QED BY <1>1, <1>2, <1>4, <2>1 DEF Recorded, Silent, Alive, Holding, Running, Settling, rows
<1>7. Faithful(j)'
  <2>1. Truthful(j, delivery[j])'
    BY <1>4 DEF Truthful
  <2> QED BY <1>1, <1>2, <1>4, <2>1 DEF Recorded, Faithful, Present, rows
<1>8. Belated(j)'
  BY <1>1, <1>2, BelatedKept DEF Recorded, Past, Posted
<1>9. Settled(j)'
  BY <1>1, <1>2, <1>4 DEF Recorded, Settled, Excused, Awaiting, Present, Alive, Holding, Running,
     Settling, rows
<1> QED BY <1>5, <1>6, <1>7, <1>8, <1>9, UntouchedKeeps DEF Records, Recorded

\* That account reaches the table.
LEMMA NotedRecords ==
  ASSUME Shape, History, Records, NEW j \in Jobs, Noted(j)
  PROVE  Records'
<1>1. /\ task[j] = "noting" /\ task' = [task EXCEPT ![j] = "parting"]
      /\ WriteDelivery(j, delivery[j])
      /\ UNCHANGED <<rowState, call, state, delivery, stop, kill, known, closed, waiter, late, posted, stranded>>
  BY DEF Noted, Part, Steps, ghosts
<1>2. Recorded(j) /\ posted[j] \in {0, 1} /\ (posted[j] = 1 => Past(j))
  BY PostedOnce DEF Records
<1>3. /\ task'[j] = "parting"
      /\ \A k \in Jobs \ {j} : task'[k] = task[k] /\ rowDelivery'[k] = rowDelivery[k]
      /\ Present(j) => rowDelivery'[j] = delivery[j]
  BY <1>1 DEF WriteDelivery, Shape, TypeOK
<1>4. \A k \in Jobs \ {j} : Untouched(k)
  BY <1>1, <1>3 DEF Untouched
<1>5. Silent(j)'
  <2>1. ~Mute(j)
    BY <1>1 DEF Mute
  <2> QED BY <1>1, <1>2, <1>3, <2>1 DEF Recorded, Silent, Alive, Holding, Running, Settling
<1>6. Faithful(j)'
  <2>1. Truthful(j, delivery[j])
    BY <1>1, <1>2 DEF Recorded, Faithful
  <2> QED BY <1>1, <1>2, <1>3, <2>1 DEF Faithful, Truthful, Present
<1>7. Belated(j)'
  BY <1>1, <1>2, <1>3, BelatedKept DEF Recorded, Past, Posted
<1>8. Settled(j)'
  BY <1>1, <1>2, <1>3 DEF Recorded, Settled, Excused, Awaiting, Present, Alive, Holding, Running, Settling
<1> QED BY <1>4, <1>5, <1>6, <1>7, <1>8, UntouchedKeeps DEF Records, Recorded

\* The store call that the task leaves behind when it is interrupted.
LEMMA Abandoned ==
  ASSUME Shape, NEW j \in Jobs, AbandonAwaited(j)
  PROVE  /\ \A k \in Jobs \ {j} : late'[k] = late[k]
         /\ late[j] \subseteq late'[j]
         /\ task[j] \in {"starting", "finishing", "stopping"} => \E w \in late'[j] : w.col = "state"
         /\ \A w \in late'[j] \ late[j] :
              \/ task[j] = "starting" /\ w = [col |-> "state", val |-> "running"]
              \/ task[j] \in {"finishing", "stopping"} /\ w = [col |-> "state", val |-> state[j]]
              \/ task[j] = "claiming" /\ w = [col |-> "claim", val |-> "attempting"]
              \/ task[j] = "noting" /\ w = [col |-> "delivery", val |-> delivery[j]]
<1> DEFINE storing == {"starting", "finishing", "claiming", "noting", "stopping"}
<1>1. late' = IF task[j] \in storing THEN [late EXCEPT ![j] = @ \cup {Awaited(j)}] ELSE late
  BY DEF AbandonAwaited, Abandon
<1>2. /\ \A k \in Jobs \ {j} : late'[k] = late[k]
      /\ late'[j] = IF task[j] \in storing THEN late[j] \cup {Awaited(j)} ELSE late[j]
  BY <1>1 DEF Shape, TypeOK
<1>3. /\ task[j] = "starting" => Awaited(j) = [col |-> "state", val |-> "running"]
      /\ task[j] \in {"finishing", "stopping"} => Awaited(j) = [col |-> "state", val |-> state[j]]
      /\ task[j] = "claiming" => Awaited(j) = [col |-> "claim", val |-> "attempting"]
      /\ task[j] = "noting" => Awaited(j) = [col |-> "delivery", val |-> delivery[j]]
  BY DEF Awaited
<1>4. task[j] \in {"starting", "finishing", "stopping"} => Awaited(j).col = "state" /\ Awaited(j) \in late'[j]
  BY <1>2, <1>3
<1> QED BY <1>2, <1>3, <1>4

\* A task that is interrupted or that drops its delivery, left with p.
LEMMA BelatedAbandoned ==
  ASSUME Shape, NEW j \in Jobs, Recorded(j), AbandonAwaited(j), task[j] \in Alive,
         call'[j] = call[j],
         Past(j) \/ task[j] = "noting" => Past(j)' /\ posted'[j] = posted[j]
  PROVE  Belated(j)'
<1> SUFFICES ASSUME NEW w \in late'[j]
             PROVE  /\ w.col = "create" => call'[j] = "returned" /\ task'[j] = "none" /\ posted'[j] = 0 /\ w.val \in Live
                    /\ w.col = "claim" => w.val = "attempting"
                    /\ w.col = "delivery" => Past(j)' /\ Truthful(j, w.val)'
  BY DEF Belated
<1>1. CASE w \in late[j]
  <2>1. w.col # "create"
    BY <1>1 DEF Recorded, Belated, Alive, Holding, Running, Settling
  <2> QED BY <1>1, <2>1 DEF Recorded, Belated, Truthful
<1>2. CASE w \notin late[j] /\ task[j] # "noting"
  BY <1>2, Abandoned
<1>3. CASE w \notin late[j] /\ task[j] = "noting"
  <2>1. w.col = "delivery" /\ w.val = delivery[j]
    BY <1>3, Abandoned
  <2>2. Truthful(j, delivery[j])
    BY <1>3 DEF Recorded, Faithful
  <2> QED BY <1>3, <2>1, <2>2 DEF Truthful
<1> QED BY <1>1, <1>2, <1>3

\* A delivery that times out leaves the row attempting, or owes it the truth.
LEMMA DeliveryFailsRecords ==
  ASSUME Shape, History, Records, NEW j \in Jobs, DeliveryFails(j)
  PROVE  Records'
<1>1. /\ task[j] \in {"waiting", "claiming", "sending", "noting"} /\ j \notin kill
      /\ task' = [task EXCEPT ![j] = "parting"] /\ AbandonAwaited(j)
      /\ delivery' = [delivery EXCEPT ![j] = "failed"]
      /\ IF task[j] = "sending" THEN MayPost(j) ELSE UNCHANGED posted
      /\ UNCHANGED <<rows, call, state, stop, kill, known, closed, waiter, stranded>>
  BY DEF DeliveryFails, Steps, Part
<1>2. Recorded(j) /\ posted[j] \in {0, 1} /\ (posted[j] = 1 => Past(j)) /\ ~Mute(j)
  BY <1>1, PostedOnce DEF Records, Mute
<1>3. /\ task'[j] = "parting"
      /\ \A k \in Jobs \ {j} : /\ task'[k] = task[k] /\ delivery'[k] = delivery[k]
                              /\ posted'[k] = posted[k] /\ late'[k] = late[k]
      /\ task[j] # "sending" => posted'[j] = posted[j]
      /\ task[j] = "sending" => posted[j] = 0 /\ posted'[j] \in {0, 1}
  <2>1. task[j] = "sending" => posted[j] = 0
    BY <1>2 DEF Past, Posted
  <2>2. task[j] = "sending" => posted'[j] \in {0, 1} /\ \A k \in Jobs \ {j} : posted'[k] = posted[k]
    BY <1>1, <2>1, PostedMore
  <2>3. \A k \in Jobs \ {j} : late'[k] = late[k]
    BY <1>1, Abandoned
  <2>4. task'[j] = "parting" /\ \A k \in Jobs \ {j} : task'[k] = task[k] /\ delivery'[k] = delivery[k]
    BY <1>1 DEF Shape, TypeOK
  <2> QED BY <1>1, <2>1, <2>2, <2>3, <2>4
<1>4. \A k \in Jobs \ {j} : Untouched(k)
  BY <1>1, <1>3 DEF Untouched, rows
<1>5. Silent(j)'
  <2>1. Cancelling \notin late'[j]
    <3>1. Cancelling \notin late[j]
      BY <1>2 DEF Recorded, Silent
    <3>2. Cancelling.col = "state"
      BY DEF Cancelling
    <3> QED BY <1>1, <3>1, <3>2, Abandoned
  <2> QED BY <1>1, <1>2, <1>3, <2>1 DEF Recorded, Silent, Alive, Holding, Running, Settling, rows
<1>6. Faithful(j)'
  BY <1>1, <1>2, <1>3 DEF Recorded, Faithful, Present, rows
<1>7. Belated(j)'
  <2>1. task[j] \in Alive
    BY <1>1 DEF Alive, Holding, Running, Settling
  <2>2. call[j] = "returned"
    BY <1>1 DEF Shape, Callers
  <2>3. Past(j) \/ task[j] = "noting" => Past(j)' /\ posted'[j] = posted[j]
    BY <1>1, <1>3, <2>2 DEF Past, Posted
  <2> QED BY <1>1, <1>2, <2>1, <2>3, BelatedAbandoned
<1>8. Settled(j)'
  <2>1. Excused(j) => Excused(j)'
    BY <1>1, Abandoned DEF Excused
  <2> QED BY <1>1, <1>2, <1>3, <2>1 DEF Recorded, Settled, Awaiting, Present, Alive, Holding, Running, Settling, rows
<1> QED BY <1>4, <1>5, <1>6, <1>7, <1>8, UntouchedKeeps DEF Records, Recorded

\* A CancelledError ends or turns the task; where it leads, p, no send follows.
LEMMA InterruptedRecords ==
  ASSUME Shape, History, Records, NEW j \in Jobs, Interrupted(j)
  PROVE  Records'
<1>1. /\ j \in kill /\ kill' = kill \ {j} /\ stop[j] # ""
      /\ UNCHANGED <<rows, call, stop, known, closed, waiter, stranded>>
  <2>1. stop[j] # ""
    BY DEF Interrupted, Shape, Reasoned
  <2>2. UNCHANGED call
    BY DEF Interrupted, admission
  <2> QED BY <2>1, <2>2 DEF Interrupted
<1>2. PICK p \in TaskStates, s \in States :
        /\ task' = [task EXCEPT ![j] = p] /\ state' = [state EXCEPT ![j] = s]
        /\ delivery' \in {delivery, [delivery EXCEPT ![j] = "pending"]}
        /\ \/ task[j] = "new" /\ p = "stillborn" /\ s = "queued" /\ late' = late
           \/ task[j] \in Running /\ p = "finishing" /\ s = stop[j] /\ AbandonAwaited(j)
           \/ task[j] \in Settling /\ p = "stopping" /\ s = stop[j] /\ AbandonAwaited(j)
           \/ task[j] = "stopping" /\ p = "over" /\ s = "queued" /\ AbandonAwaited(j)
           \/ task[j] = "parting" /\ p = "over" /\ s = "queued" /\ late' = late
        /\ IF task[j] = "sending" THEN MayPost(j) ELSE posted' = posted
  <2>1. "queued" \in States /\ {"stillborn", "finishing", "stopping", "over"} \subseteq TaskStates
    BY DEF States, Live, TaskStates, Alive, Holding, Settling
  <2>2. stop[j] \in States /\ StopState(j) = stop[j]
    BY <1>1 DEF Shape, TypeOK, States, StopState
  <2>3. task[j] \in {"new", "stopping", "parting"} \cup Running \cup Settling
    BY DEF Interrupted
  <2>4. CASE task[j] = "new"
    BY <2>1, <2>4 DEF Interrupted, Over, Running, Settling
  <2>5. CASE task[j] \in Running
    BY <2>1, <2>2, <2>5 DEF Interrupted, Conclude, Running, Settling
  <2>6. CASE task[j] \in Settling
    BY <2>1, <2>2, <2>6 DEF Interrupted, Running, Settling
  <2>7. CASE task[j] = "stopping"
    BY <2>1, <2>7 DEF Interrupted, Over, Running, Settling
  <2>8. CASE task[j] = "parting"
    BY <2>1, <2>8 DEF Interrupted, Over, Running, Settling
  <2> QED BY <2>3, <2>4, <2>5, <2>6, <2>7, <2>8
<1>3. Recorded(j) /\ posted[j] \in {0, 1} /\ (posted[j] = 1 => Past(j))
  BY PostedOnce DEF Records
<1>4. task'[j] = p /\ state'[j] = s /\ stop[j] \in Reasons /\ task[j] \in Alive
  BY <1>1, <1>2 DEF Shape, TypeOK, Alive, Holding
<1>5. /\ task[j] # "sending" => posted' = posted
      /\ task[j] = "sending" => posted[j] = 0 /\ posted'[j] \in {0, 1}
      /\ \A k \in Jobs \ {j} : posted'[k] = posted[k]
  <2>1. task[j] = "sending" => posted[j] = 0
    BY <1>3 DEF Past, Posted
  <2>2. task[j] = "sending" => posted'[j] \in {0, 1} /\ \A k \in Jobs \ {j} : posted'[k] = posted[k]
    BY <1>2, <2>1, PostedMore
  <2> QED BY <1>2, <2>1, <2>2
<1>6. /\ \A k \in Jobs \ {j} : late'[k] = late[k]
      /\ late[j] \subseteq late'[j]
      /\ task[j] \in {"starting", "finishing", "stopping"} => \E w \in late'[j] : w.col = "state"
  <2>1. CASE AbandonAwaited(j)
    BY <2>1, Abandoned
  <2>2. CASE late' = late /\ task[j] \in {"new", "parting"}
    BY <2>2
  <2> QED BY <1>2, <2>1, <2>2
<1>7. \A k \in Jobs \ {j} : Untouched(k)
  <2>1. \A k \in Jobs \ {j} : task'[k] = task[k] /\ state'[k] = state[k] /\ delivery'[k] = delivery[k]
    BY <1>2 DEF Shape, TypeOK
  <2> QED BY <1>1, <1>5, <1>6, <2>1 DEF Untouched, rows
<1>8. call[j] = "returned"
  BY <1>4 DEF Shape, Callers, Alive, Holding, Running, Settling
<1>9. Mute(j) => Mute(j)'
  BY <1>1, <1>2, <1>4, <1>5, <1>8 DEF Mute, Running, Settling
<1>10. Silent(j)'
  <2>1. Cancelling \in late'[j] => Mute(j)
    <3>1. CASE Cancelling \in late[j]
      BY <1>3, <3>1 DEF Recorded, Silent
    <3>2. CASE Cancelling \in late'[j] \ late[j]
      <4>1. AbandonAwaited(j)
        BY <1>2, <3>2
      <4>2. task[j] \in {"finishing", "stopping"} /\ state[j] = "cancelled"
        BY <3>2, <4>1, Abandoned DEF Cancelling
      <4> QED BY <1>3, <4>2 DEF Recorded, Silent
    <3> QED BY <3>1, <3>2
  <2>2. state'[j] = "cancelled" => stop[j] = "cancelled"
    BY <1>2, <1>4
  <2> QED BY <1>1, <1>3, <1>4, <1>9, <2>1, <2>2 DEF Recorded, Silent, rows
<1>11. Faithful(j)'
  <2>1. p # "noting" /\ p # "sending"
    BY <1>2
  <2> QED BY <1>1, <1>3, <1>4, <1>5, <2>1 DEF Recorded, Faithful, Present, rows
<1>12. Belated(j)'
  <2>1. Past(j) \/ task[j] = "noting" => Past(j)' /\ posted'[j] = posted[j]
    BY <1>1, <1>2, <1>4, <1>5, <1>8 DEF Past, Posted, Running, Settling
  <2>2. CASE AbandonAwaited(j)
    BY <1>1, <1>3, <1>4, <2>1, <2>2, BelatedAbandoned
  <2>3. CASE late' = late
    <3>1. task[j] # "none"
      BY <1>4 DEF Alive, Holding, Running, Settling
    <3> QED BY <1>3, <2>1, <2>3, <3>1, BelatedKept DEF Recorded
  <2> QED BY <1>2, <2>2, <2>3
<1>13. Settled(j)'
  <2>1. Excused(j) => Excused(j)'
    BY <1>1, <1>6 DEF Excused
  <2>2. task[j] \in {"starting", "finishing", "stopping"} => Excused(j)'
    BY <1>6 DEF Excused
  <2>3. Present(j)' = Present(j) /\ rowState'[j] = rowState[j] /\ (rowState[j] \in Live => Present(j))
    BY <1>1 DEF rows, Present, Live
  <2>4. stop[j] \notin Live
    BY <1>4 DEF Reasons, Live
  <2>5. j \notin kill'
    BY <1>1
  <2>6. Awaiting(j)' = Awaiting(j)
    BY <1>1 DEF Awaiting
  <2>7. rowState'[j] \in Live =>
          \/ Excused(j)'
          \/ call'[j] = "interrupting"
          \/ task'[j] \in {"new", "starting", "working", "finishing", "stopping"}
          \/ task'[j] = "stillborn" /\ Awaiting(j)'
    <3>1. CASE task[j] = "new"
      <4>1. p = "stillborn"
        BY <1>2, <3>1 DEF Running, Settling
      <4>2. Present(j) => Awaiting(j) \/ j \in stranded
        BY <1>1, <1>3, <3>1 DEF Recorded, Settled
      <4> QED BY <1>1, <1>4, <2>3, <2>6, <4>1, <4>2 DEF Excused
    <3>2. CASE task[j] \in Running \cup Settling
      BY <1>2, <1>4, <3>2 DEF Running, Settling
    <3>3. CASE task[j] = "stopping"
      BY <2>2, <3>3
    <3>4. CASE task[j] = "parting"
      BY <1>3, <1>8, <2>1, <2>3, <3>4 DEF Recorded, Settled
    <3> QED BY <1>2, <3>1, <3>2, <3>3, <3>4
  <2>8. p \in {"finishing", "stopping"} => s = stop[j]
    BY <1>2
  <2>9. p \in {"stillborn", "finishing", "stopping", "over"}
    BY <1>2
  <2> QED BY <1>1, <1>3, <1>4, <1>8, <2>3, <2>4, <2>5, <2>7, <2>8, <2>9 DEF Settled
<1> QED BY <1>7, <1>10, <1>11, <1>12, <1>13, UntouchedKeeps DEF Records, Recorded

\* What an abandoned call writes was true when it was left behind, and is still.
LEMMA LateWriteRecords ==
  ASSUME Shape, History, Records, NEW j \in Jobs, LateWrite(j)
  PROVE  Records'
<1>1. PICK w \in late[j] :
        /\ late' = [late EXCEPT ![j] = @ \ {w}]
        /\ \/ w.col = "state" /\ WriteState(j, w.val) /\ UNCHANGED rowDelivery
           \/ w.col = "delivery" /\ WriteDelivery(j, w.val) /\ UNCHANGED rowState
           \/ w.col = "claim" /\ Claimable(j) /\ WriteDelivery(j, w.val) /\ UNCHANGED rowState
           \/ w.col = "claim" /\ ~Claimable(j) /\ UNCHANGED rows
           \/ w.col = "create" /\ Insertable(j) /\ Insert(j)
           \/ w.col = "create" /\ ~Insertable(j) /\ UNCHANGED rows
        /\ stranded' = IF w.val \in Live THEN stranded \cup {j} ELSE stranded
  BY DEF LateWrite
<1>2. UNCHANGED <<call, task, state, delivery, stop, kill, known, closed, waiter, posted>>
  BY DEF LateWrite, job, admission
<1>3. Recorded(j) /\ posted[j] \in {0, 1} /\ (posted[j] = 1 => Past(j))
  BY PostedOnce DEF Records
<1>4. w \in Write /\ late'[j] = late[j] \ {w} /\ \A k \in Jobs \ {j} : late'[k] = late[k]
  BY <1>1 DEF Shape, TypeOK
<1>5. /\ \A k \in Jobs \ {j} : rowState'[k] = rowState[k] /\ rowDelivery'[k] = rowDelivery[k]
      /\ w.col = "state" => /\ rowState'[j] = (IF Present(j) THEN w.val ELSE "absent")
                            /\ rowDelivery'[j] = rowDelivery[j]
      /\ w.col = "delivery" => /\ rowState'[j] = rowState[j]
                               /\ rowDelivery'[j] = (IF Present(j) THEN w.val ELSE rowDelivery[j])
      /\ w.col = "claim" => /\ rowState'[j] = rowState[j]
                            /\ rowDelivery'[j] \in {rowDelivery[j], w.val}
      /\ w.col = "create" => \/ rowState'[j] = rowState[j] /\ rowDelivery'[j] = rowDelivery[j]
                             \/ rowState'[j] = "queued" /\ rowDelivery'[j] = "pending"
  <2>1. CASE w.col = "state"
    BY <1>1, <2>1 DEF WriteState, Present, Shape, TypeOK
  <2>2. CASE w.col = "delivery"
    BY <1>1, <2>2 DEF WriteDelivery, Present, Shape, TypeOK
  <2>3. CASE w.col = "claim"
    BY <1>1, <2>3 DEF WriteDelivery, Claimable, Present, rows, Shape, TypeOK
  <2>4. CASE w.col = "create"
    BY <1>1, <2>4 DEF Insert, rows, Shape, TypeOK
  <2>5. w.col \in {"state", "delivery", "claim", "create"}
    BY <1>1
  <2> QED BY <2>1, <2>2, <2>3, <2>4, <2>5
<1>6. \A k \in Jobs \ {j} : Untouched(k)
  <2>1. \A k \in Jobs \ {j} : k \in stranded' <=> k \in stranded
    BY <1>1
  <2> QED BY <1>2, <1>4, <1>5, <2>1 DEF Untouched
<1>7. w.col \in {"create", "state", "claim", "delivery"}
  BY <1>1
<1>8. Silent(j)'
  <2>1. Mute(j) => Mute(j)'
    BY <1>2 DEF Mute
  <2>2. rowState'[j] = "cancelled" => rowState[j] = "cancelled" \/ w = Cancelling
    <3>1. CASE w.col = "state"
      <4>1. w.val = "cancelled" => w = Cancelling
        BY <1>4, <3>1 DEF Write, Cancelling
      <4> QED BY <1>5, <3>1, <4>1
    <3> QED BY <1>5, <1>7, <3>1
  <2> QED BY <1>2, <1>3, <1>4, <2>1, <2>2 DEF Recorded, Silent
<1>9. Faithful(j)'
  <2>1. w.col = "create" => posted[j] = 0 /\ task[j] = "none"
    BY <1>3 DEF Recorded, Belated
  <2>2. w.col = "claim" => w.val = "attempting"
    BY <1>3 DEF Recorded, Belated
  <2>3. w.col = "delivery" => Past(j) /\ Truthful(j, w.val)
    BY <1>3 DEF Recorded, Belated
  <2>4. task[j] = "noting" => Truthful(j, delivery[j])'
    BY <1>2, <1>3 DEF Recorded, Faithful, Truthful
  <2>5. CASE w.col = "state"
    <3>1. Present(j)' => Present(j)
      BY <1>5, <2>5 DEF Present
    <3> QED BY <1>2, <1>3, <1>5, <2>4, <2>5, <3>1 DEF Recorded, Faithful
  <2>6. CASE w.col = "delivery"
    BY <1>2, <1>3, <1>5, <2>3, <2>4, <2>6 DEF Recorded, Faithful, Present, Truthful, Past, Posted
  <2>7. CASE w.col = "claim"
    BY <1>2, <1>3, <1>5, <2>2, <2>4, <2>7 DEF Recorded, Faithful, Present
  <2>8. CASE w.col = "create"
    BY <1>2, <1>3, <1>5, <2>1, <2>4, <2>8 DEF Recorded, Faithful, Present
  <2> QED BY <1>7, <2>5, <2>6, <2>7, <2>8
<1>10. Belated(j)'
  BY <1>2, <1>3, <1>4, BelatedKept DEF Recorded, Past
<1>11. Settled(j)'
  <2>1. CASE w.val \in Live
    <3>1. Excused(j)'
      BY <1>1, <2>1 DEF Excused
    <3>2. Present(j)' => Present(j) \/ (w.col = "create" /\ call[j] = "returned" /\ task[j] = "none")
      BY <1>3, <1>5, <1>7 DEF Present, Recorded, Belated
    <3>3. Awaiting(j)' = Awaiting(j) /\ stranded \subseteq stranded'
      BY <1>1, <1>2 DEF Awaiting
    <3> QED BY <1>2, <1>3, <3>1, <3>2, <3>3 DEF Recorded, Settled
  <2>2. CASE w.val \notin Live
    <3>1. w.col # "create"
      BY <1>3, <2>2 DEF Recorded, Belated
    <3>2. Present(j)' => Present(j)
      BY <1>5, <1>7, <3>1 DEF Present
    <3>3. rowState'[j] \in Live => rowState[j] \in Live /\ w.col # "state"
      BY <1>5, <1>7, <2>2, <3>1 DEF Live
    <3>4. w.col # "state" /\ Excused(j) => Excused(j)'
      BY <1>1, <1>4, <2>2 DEF Excused
    <3>5. Awaiting(j)' = Awaiting(j) /\ stranded' = stranded
      BY <1>1, <1>2, <2>2 DEF Awaiting
    <3> QED BY <1>2, <1>3, <3>2, <3>3, <3>4, <3>5 DEF Recorded, Settled
  <2> QED BY <2>1, <2>2
<1> QED BY <1>6, <1>8, <1>9, <1>10, <1>11, UntouchedKeeps DEF Records, Recorded

\* The owner's cancel() finds a job that has sent nothing and takes its next
\* send away.
LEMMA CancelRecords ==
  ASSUME Shape, History, Records, NEW j \in Jobs, NEW c \in Sources \cup {Outside}, Cancel(j, c)
  PROVE  Records'
<1>1. /\ UNCHANGED <<rows, task, delivery, known, call, closed, late, posted, stranded>>
      /\ waiter' = [waiter EXCEPT ![j] = c] /\ task[j] \in Alive /\ c # Nobody
  <2>1. c # Nobody
    BY JobsAssumption, Zenon
  <2>2. /\ UNCHANGED <<rows, task, delivery, known, admission, closed, late, ghosts>>
        /\ waiter' = [waiter EXCEPT ![j] = c] /\ task[j] \in Alive
    BY DEF Cancel
  <2> QED BY <2>1, <2>2 DEF admission, ghosts
<1>2. \/ UNCHANGED <<stop, kill, state>>
      \/ /\ stop[j] = "" /\ kill' = kill \cup {j} /\ state' = [state EXCEPT ![j] = "cancelling"]
         /\ \/ stop' = [stop EXCEPT ![j] = "cancelled"] /\ state[j] \in Live
            \/ stop' = [stop EXCEPT ![j] = "stopped"]
  BY DEF Cancel, Stop
<1>3. Recorded(j) /\ posted[j] \in {0, 1} /\ (posted[j] = 1 => Past(j))
  BY PostedOnce DEF Records
<1>4. waiter'[j] = c /\ \A k \in Jobs \ {j} : /\ waiter'[k] = waiter[k] /\ stop'[k] = stop[k]
                                             /\ state'[k] = state[k] /\ (k \in kill' <=> k \in kill)
  BY <1>1, <1>2 DEF Shape, TypeOK
<1>5. \A k \in Jobs \ {j} : Untouched(k)
  BY <1>1, <1>4 DEF Untouched, rows
<1>6. Faithful(j)' /\ Belated(j)'
  <2>1. Faithful(j)'
    BY <1>1, <1>3 DEF Recorded, Faithful, Truthful, Present, rows
  <2>2. Belated(j)'
    BY <1>1, <1>3, BelatedKept DEF Recorded, Past
  <2> QED BY <2>1, <2>2
<1>7. Awaiting(j)' /\ (Excused(j)' <=> Excused(j)) /\ (Present(j)' <=> Present(j)) /\ rowState'[j] = rowState[j]
  BY <1>1, <1>4 DEF Awaiting, Excused, Present, rows
<1>8. CASE UNCHANGED <<stop, kill, state>>
  <2>1. Silent(j)'
    BY <1>1, <1>3, <1>8 DEF Recorded, Silent, Mute, rows
  <2>2. Settled(j)'
    BY <1>1, <1>3, <1>7, <1>8 DEF Recorded, Settled
  <2> QED BY <1>5, <1>6, <2>1, <2>2, UntouchedKeeps DEF Records, Recorded
<1>9. CASE /\ stop[j] = "" /\ kill' = kill \cup {j} /\ state' = [state EXCEPT ![j] = "cancelling"]
           /\ \/ stop' = [stop EXCEPT ![j] = "cancelled"] /\ state[j] \in Live
              \/ stop' = [stop EXCEPT ![j] = "stopped"]
  <2>1. /\ state'[j] = "cancelling" /\ stop'[j] \in {"cancelled", "stopped"} /\ j \in kill'
        /\ stop'[j] = "cancelled" => state[j] \in Live
    BY <1>9 DEF Shape, TypeOK
  <2>2. Mute(j) => Mute(j)'
    BY <1>1, <1>9, <2>1 DEF Mute
  <2>3. stop'[j] = "cancelled" => Mute(j)'
    <3>1. stop'[j] = "cancelled" => task[j] \in {"new", "starting", "working"}
      BY <1>1, <1>3, <1>9, <2>1 DEF Recorded, Silent
    <3>2. task[j] \in {"new", "starting", "working"} => call[j] = "returned" /\ posted[j] = 0
      BY <1>3 DEF Shape, Callers, Past, Posted
    <3> QED BY <1>1, <2>1, <3>1, <3>2 DEF Mute
  <2>4. Silent(j)'
    BY <1>1, <1>3, <2>1, <2>2, <2>3 DEF Recorded, Silent, rows
  <2>5. Settled(j)'
    BY <1>1, <1>3, <1>7, <1>9, <2>1 DEF Recorded, Settled
  <2> QED BY <1>5, <1>6, <2>4, <2>5, UntouchedKeeps DEF Records, Recorded
<1> QED BY <1>2, <1>8, <1>9

\* Jobs are stopped and forgotten, with a reason that silences nothing by itself:
\* those that are stopped go on waiting for close(), or have no row.
LEMMA HaltRecords ==
  ASSUME Shape, History, Records, (\E u \in Users : RefreshUser(u)) \/ Close
  PROVE  Records'
<1>1. UNCHANGED <<rows, task, state, delivery, call, waiter, late, posted, stranded>>
  BY DEF RefreshUser, Close, admission, ghosts
<1> SUFFICES ASSUME NEW k \in Jobs PROVE Recorded(k)'
  BY DEF Records
<1>2. \/ /\ stop'[k] = stop[k] /\ (k \in kill' <=> k \in kill)
      \/ /\ stop[k] = "" /\ stop'[k] \in {"stopped", "interrupted"} /\ k \in kill' /\ task[k] \in Alive
         /\ ~Present(k) \/ Awaiting(k)'
  <2>1. CASE Close
    <3> DEFINE halted == {j \in known : task[j] \in Alive /\ stop[j] = ""}
    <3>1. /\ closed'.at = "closing" /\ closed'.awaits = {j \in known : task[j] \in Alive}
          /\ known' = known /\ kill' = kill \cup halted
          /\ stop'[k] = IF k \in halted THEN "interrupted" ELSE stop[k]
      BY <2>1, ClosingTyped DEF Close
    <3> QED BY <3>1 DEF Awaiting
  <2>2. ASSUME NEW u \in Users, RefreshUser(u)
        PROVE  \/ stop'[k] = stop[k] /\ (k \in kill' <=> k \in kill)
               \/ /\ stop[k] = "" /\ stop'[k] = "stopped" /\ k \in kill' /\ task[k] \in Alive
                  /\ ~Present(k)
    BY <2>2 DEF RefreshUser
  <2> QED BY <2>1, <2>2
<1>3. Present(k) /\ Awaiting(k) => Awaiting(k)'
  BY <1>1 DEF RefreshUser, Close, Awaiting
<1>4. Recorded(k) /\ posted[k] \in {0, 1} /\ (posted[k] = 1 => Past(k))
  BY PostedOnce DEF Records
<1>5. Silent(k)'
  <2>1. Mute(k) => Mute(k)'
    BY <1>1, <1>2 DEF Mute
  <2> QED BY <1>1, <1>2, <1>4, <2>1 DEF Recorded, Silent, rows
<1>6. Faithful(k)'
  BY <1>1, <1>4 DEF Recorded, Faithful, Truthful, Present, rows
<1>7. Belated(k)'
  BY <1>1, <1>4, BelatedKept DEF Recorded, Past
<1>8. Settled(k)'
  <2>1. /\ (Excused(k)' <=> Excused(k)) /\ (Present(k)' <=> Present(k)) /\ rowState'[k] = rowState[k]
        /\ rowState[k] \in Live => Present(k)
    BY <1>1 DEF Excused, Present, rows, Live
  <2> QED BY <1>1, <1>2, <1>3, <1>4, <2>1 DEF Recorded, Settled
<1> QED BY <1>5, <1>6, <1>7, <1>8 DEF Recorded

\* A wiped row takes with it what was said of it.
LEMMA WipeRecords ==
  ASSUME Shape, History, Records, NEW u \in Users, Wipe(u)
  PROVE  Records'
<1>1. UNCHANGED <<rowDelivery, task, state, delivery, stop, kill, call, closed, waiter, late, posted, stranded>>
  BY DEF Wipe, admission, ghosts
<1> SUFFICES ASSUME NEW k \in Jobs PROVE Recorded(k)'
  BY DEF Records
<1>2. \/ rowState'[k] = rowState[k] /\ (k \in known' <=> k \in known)
      \/ rowState'[k] = "absent"
  BY DEF Wipe
<1>3. Recorded(k) /\ posted[k] \in {0, 1} /\ (posted[k] = 1 => Past(k))
  BY PostedOnce DEF Records
<1>4. CASE rowState'[k] = rowState[k] /\ (k \in known' <=> k \in known)
  <2>1. Untouched(k)
    BY <1>1, <1>4 DEF Untouched
  <2> QED BY <1>3, <2>1, UntouchedKeeps
<1>5. CASE rowState'[k] = "absent"
  <2>1. Silent(k)'
    BY <1>1, <1>3, <1>5 DEF Recorded, Silent, Mute
  <2>2. Faithful(k)'
    BY <1>1, <1>3, <1>5 DEF Recorded, Faithful, Truthful, Present
  <2>3. Belated(k)'
    BY <1>1, <1>3, BelatedKept DEF Recorded, Past
  <2>4. Settled(k)'
    BY <1>1, <1>3, <1>5 DEF Recorded, Settled, Present, Live
  <2> QED BY <2>1, <2>2, <2>3, <2>4 DEF Recorded
<1> QED BY <1>2, <1>4, <1>5

\* close() writes the reasons of jobs that are done.
LEMMA CloseReturnsRecords ==
  ASSUME Shape, History, Records, CloseReturns
  PROVE  Records'
<1>1. /\ UNCHANGED <<rowDelivery, task, state, delivery, stop, kill, call, waiter, late, posted, stranded>>
      /\ known' = {} /\ closed.at = "closing" /\ \A k \in closed.awaits : task[k] \notin Alive
  BY DEF CloseReturns, admission, ghosts
<1> SUFFICES ASSUME NEW k \in Jobs PROVE Recorded(k)'
  BY DEF Records
<1>2. rowState'[k] = IF k \in known /\ stop[k] # "" /\ Present(k) THEN stop[k] ELSE rowState[k]
  BY DEF CloseReturns
<1>3. Recorded(k) /\ posted[k] \in {0, 1} /\ (posted[k] = 1 => Past(k))
  BY PostedOnce DEF Records
<1>4. stop[k] # "" => stop[k] \in Reasons
  BY DEF Shape, TypeOK
<1>5. Present(k)' <=> Present(k)
  BY <1>2, <1>4 DEF Present, Reasons
<1>6. Silent(k)'
  BY <1>1, <1>2, <1>3 DEF Recorded, Silent, Mute
<1>7. Faithful(k)'
  BY <1>1, <1>3, <1>5 DEF Recorded, Faithful, Truthful
<1>8. Belated(k)'
  BY <1>1, <1>3, BelatedKept DEF Recorded, Past
<1>9. Settled(k)'
  <2>1. Excused(k)' <=> Excused(k)
    BY <1>1 DEF Excused
  <2>2. k \notin known \cap closed.awaits => (Awaiting(k)' <=> Awaiting(k))
    BY <1>1 DEF Awaiting
  <2>3. CASE k \notin known \cap closed.awaits
    <3>1. rowState'[k] \in Live => rowState'[k] = rowState[k]
      BY <1>2, <1>4 DEF Reasons, Live
    <3> QED BY <1>1, <1>3, <1>5, <2>1, <2>2, <2>3, <3>1 DEF Recorded, Settled
  <2>4. CASE k \in known \cap closed.awaits
    <3>1. task[k] \notin Alive
      BY <1>1, <2>4
    <3>2. rowState'[k] \in Live => stop[k] = "" /\ rowState'[k] = rowState[k]
      BY <1>2, <1>4, <2>4 DEF Reasons, Live, Present
    <3> QED BY <1>1, <1>3, <1>5, <2>1, <3>1, <3>2 DEF Recorded, Settled, Alive, Holding, Running, Settling
  <2> QED BY <2>3, <2>4
<1> QED BY <1>6, <1>7, <1>8, <1>9 DEF Recorded

\* After a restart nothing is under way, and recovery calls no row live.
LEMMA CrashRecords ==
  ASSUME Shape, History, Records, Crash
  PROVE  Records'
<1>1. UNCHANGED <<posted, stranded>>
  BY DEF Crash, ghosts
<1> SUFFICES ASSUME NEW k \in Jobs PROVE Recorded(k)'
  BY DEF Records
<1>2. /\ rowState'[k] = IF rowState[k] \in Live THEN "interrupted" ELSE rowState[k]
      /\ rowDelivery'[k] = IF rowDelivery[k] = "attempting" THEN "unknown" ELSE rowDelivery[k]
      /\ call'[k] = IF call[k] = "idle" THEN "idle" ELSE "returned"
      /\ task'[k] = "none" /\ state'[k] = "queued" /\ stop'[k] = "" /\ late'[k] = {} /\ k \notin kill'
  BY DEF Crash
<1>3. Recorded(k) /\ posted[k] \in {0, 1} /\ (posted[k] = 1 => Past(k))
  BY PostedOnce DEF Records
<1>4. (Present(k)' <=> Present(k)) /\ rowState'[k] \notin Live
  BY <1>2 DEF Present, Live
<1>5. Silent(k)'
  BY <1>1, <1>2, <1>3 DEF Recorded, Silent, Mute, Alive, Holding, Running, Settling
<1>6. Faithful(k)'
  BY <1>1, <1>2, <1>3, <1>4 DEF Recorded, Faithful
<1>7. Belated(k)'
  BY <1>2 DEF Belated
<1>8. Settled(k)'
  BY <1>2, <1>3, <1>4 DEF Recorded, Settled
<1> QED BY <1>5, <1>6, <1>7, <1>8 DEF Recorded

\* The turns and the users' settings say nothing of a job.
LEMMA BystanderRecords ==
  ASSUME Shape, History, Records,
         \/ \E s \in Sources : TurnStarts(s) \/ TurnEnds(s)
         \/ \E u \in Users : Revoke(u) \/ Erase(u)
         \/ UNCHANGED vars
  PROVE  Records'
<1>1. UNCHANGED <<rows, job, admission, closed, waiter, late, ghosts>>
  BY DEF TurnStarts, TurnEnds, Revoke, Erase, vars
<1>2. \A k \in Jobs : Untouched(k)
  BY <1>1 DEF Untouched, rows, job, admission, ghosts
<1> QED BY <1>2, UntouchedKeeps DEF Records

LEMMA RecordsInit == Init => Records
<1> SUFFICES ASSUME Init, NEW k \in Jobs PROVE Recorded(k)
  BY DEF Records
<1>1. /\ rowState[k] = "absent" /\ rowDelivery[k] = "pending" /\ call[k] = "idle" /\ task[k] = "none"
      /\ state[k] = "queued" /\ stop[k] = "" /\ late[k] = {} /\ posted[k] = 0 /\ k \notin kill
  BY DEF Init
<1> QED BY <1>1 DEF Recorded, Silent, Faithful, Belated, Settled, Present, Live, Alive, Holding, Running, Settling

LEMMA RecordsKept ==
  ASSUME Shape, History, Records, [Next]_vars
  PROVE  Records'
<1>1. ASSUME NEW j \in Jobs, Submit(j) \/ SubmitStep(j)
      PROVE  Records'
  BY <1>1, SubmitRecords, AcceptRecords, RefusedRecords, SubmitCancelledRecords, UndoRecords,
     UndoWriteRecords, UndoCancelledRecords DEF SubmitStep
<1>2. ASSUME NEW j \in Jobs, TaskStep(j)
      PROVE  Records'
  BY <1>2, BeginRecords, StartedRecords, WorkedRecords, FinishedRecords, OriginAnsweredRecords,
     ClaimedRecords, SentRecords, NotedRecords, StoppedRecords, EndedRecords, DeliveryFailsRecords,
     InterruptedRecords DEF TaskStep
<1>3. ASSUME NEW j \in Jobs, \/ CancelReturns(j) \/ CallerCancelled(j) \/ Watch(j) \/ Forget(j)
                             \/ LateWrite(j) \/ Prune(j)
      PROVE  Records'
  BY <1>3, CancelReturnsRecords, CallerCancelledRecords, WatchRecords, ForgetRecords,
     LateWriteRecords, PruneRecords
<1>4. ASSUME NEW j \in Jobs, NEW c \in Sources \cup {Outside}, Cancel(j, c)
      PROVE  Records'
  BY <1>4, CancelRecords
<1>5. ASSUME NEW s \in Sources, TurnStarts(s) \/ TurnEnds(s)
      PROVE  Records'
  BY <1>5, BystanderRecords
<1>6. ASSUME NEW u \in Users, RefreshUser(u) \/ Revoke(u) \/ Erase(u) \/ Wipe(u)
      PROVE  Records'
  BY <1>6, HaltRecords, BystanderRecords, WipeRecords
<1>7. CASE Close \/ CloseReturns \/ Crash \/ UNCHANGED vars
  BY <1>7, HaltRecords, CloseReturnsRecords, CrashRecords, BystanderRecords
<1> QED BY <1>1, <1>2, <1>3, <1>4, <1>5, <1>6, <1>7 DEF Next

-----------------------------------------------------------------------------
(* The theorems, for any jobs, messages, users, sizes and limits.           *)

IInv == Shape /\ History /\ Records

LEMMA Inductive == Spec => []IInv
<1>1. Init => IInv
  BY ShapeInit, HistoryInit, RecordsInit DEF IInv
<1>2. IInv /\ [Next]_vars => IInv'
  BY ShapeKept, HistoryKept, RecordsKept DEF IInv
<1> QED BY <1>1, <1>2, PTL DEF Spec

\* Rows, calls, tasks, reasons and reservations always have the values that the
\* code can give them.
THEOREM TypeCorrect == Spec => []TypeOK
<1>1. IInv => TypeOK
  BY DEF IInv, Shape
<1> QED BY <1>1, Inductive, PTL

\* Every unfinished submission and job holds its user and its worker slots once,
\* whatever cancels it.
THEOREM NothingLeaks == Spec => []ReservationsExact
<1>1. IInv => ReservationsExact
  BY DEF IInv, Shape
<1> QED BY <1>1, Inductive, PTL

\* A message starts workers once, over turns, cancelled submissions and restarts.
THEOREM NeverReplayed == Spec => []OneRun
<1>1. IInv => OneRun
  BY DEF IInv, History, RanOnce
<1> QED BY <1>1, Inductive, PTL

\* A message gets one completion notification at most.
THEOREM OneNotification == Spec => []OneResult
<1>1. IInv => OneResult
  <2> SUFFICES ASSUME IInv PROVE OneResult
    OBVIOUS
  <2>1. \A j \in Jobs : posted[j] <= 1
    BY DEF IInv, History, Posting
  <2>2. \A j, k \in Jobs : /\ posted[j] = 1 /\ posted[k] = 1
                            /\ Src[j] = Src[k] /\ Src[j] \notin pruned => j = k
    BY DEF IInv, History, Posting, Delivering
  <2> QED BY <2>1, <2>2 DEF OneResult
<1> QED BY <1>1, Inductive, PTL

\* No submission and no abandoned thread brings a deleted user's row back.
THEOREM DeletionHolds == Spec => []ErasedStaysErased
<1>1. IInv => ErasedStaysErased
  BY DEF IInv, History, Erasures
<1> QED BY <1>1, Inductive, PTL

\* A job that its owner cancelled before the result, in memory or in the table,
\* has posted nothing, and no abandoned call and no restart brings it to post.
THEOREM CancelledPostsNothing == Spec => []CancelledSilent
<1>1. IInv => CancelledSilent
  BY DEF IInv, Records, Recorded, Silent, Mute, CancelledSilent
<1> QED BY <1>1, Inductive, PTL

\* The delivery that the table records never contradicts the chat.
THEOREM LedgerTrue == Spec => []LedgerHonest
<1>1. IInv => LedgerHonest
  BY DEF IInv, Records, Recorded, Faithful, LedgerHonest
<1> QED BY <1>1, Inductive, PTL

\* A job that nothing works on is live in the table only if one of its writes or
\* its cancel() was abandoned.
THEOREM NothingLeftLive == Spec => []SettledUnlessAbandoned
<1>1. IInv => SettledUnlessAbandoned
  <2> SUFFICES ASSUME IInv, NEW j \in Jobs, Quiet(j), rowState[j] \in Live
               PROVE  late[j] # {} \/ j \in stranded
    BY DEF SettledUnlessAbandoned
  <2>1. Excused(j)
    <3>1. ~Awaiting(j) /\ call[j] # "interrupting"
      BY DEF Quiet, Awaiting, Submitting
    <3>2. task[j] \notin {"new", "starting", "working", "finishing", "stopping"}
      BY DEF Quiet, Alive, Holding, Running, Settling
    <3> QED BY <3>1, <3>2 DEF IInv, Records, Recorded, Settled
  <2> QED BY <2>1 DEF Excused
<1> QED BY <1>1, Inductive, PTL
=============================================================================
