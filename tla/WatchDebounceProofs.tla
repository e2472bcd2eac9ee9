------------------------ MODULE WatchDebounceProofs ------------------------
(* Theorems about WatchDebounce, for any messages, authors and mentions.    *)
EXTENDS WatchDebounce, QueueFilterProofs

USE WatchAssumption

-----------------------------------------------------------------------------
(* The inductive invariant.                                                 *)

\* A line waits only once its handling is over, and it has not been dispatched.
Waits ==
  \A m \in Messages : at[m] # "handled" \/ waiting = m => calls[m] = 0

\* What has not been dispatched is in no task, in no queue and has no turn.
Undispatched ==
  \A m \in Messages :
    calls[m] = 0 => /\ call[m] = "none"
                    /\ \A i \in DOMAIN queue : queue[i].msg # m
                    /\ running # m

Settled == waiting # None => at[waiting] = "handled"

IInv == TypeOK /\ OneTimer /\ DispatchedOnce /\ Waits /\ Undispatched /\ Settled

\* drop_author() leaves entries of the queue.
LEMMA WithoutWithin ==
  ASSUME TypeOK, NEW m \in Messages, NEW q \in Without(m)
  PROVE  /\ q \in Seq(Entry)
         /\ \A i \in DOMAIN q : \E j \in DOMAIN queue : q[i] = queue[j]
<1> DEFINE K == {i \in DOMAIN queue : ~Same(queue[i].msg, m)}
<1>1. queue \in Seq(Entry) /\ K \in SUBSET DOMAIN queue /\ q \in Kept(queue, K)
  BY DEF TypeOK, Without
<1> HIDE DEF K
<1>2. q \in Seq(Entry)
  BY <1>1, KeptEntries
<1> QED BY <1>1, <1>2, KeptWithin

\* The members of a queue, and of what a step makes of it.
LEMMA QueueElements ==
  ASSUME NEW q \in Seq(Entry)
  PROVE  /\ \A i \in DOMAIN q : q[i] \in Entry /\ q[i].msg \in Messages
         /\ q # <<>> => /\ Head(q) \in Entry /\ Head(q).msg \in Messages
                        /\ Tail(q) \in Seq(Entry)
                        /\ \A i \in DOMAIN Tail(q) : \E j \in DOMAIN q : Tail(q)[i] = q[j]
                        /\ \E j \in DOMAIN q : Head(q) = q[j]
<1>a. \A i \in DOMAIN q : q[i] \in Entry
  BY ElementOfSeq, LenProperties
<1>1. \A i \in DOMAIN q : q[i] \in Entry /\ q[i].msg \in Messages
  BY <1>a DEF Entry
<1>2. ASSUME q # <<>>
      PROVE  /\ Head(q) \in Entry /\ Head(q).msg \in Messages
             /\ Tail(q) \in Seq(Entry)
             /\ \A i \in DOMAIN Tail(q) : \E j \in DOMAIN q : Tail(q)[i] = q[j]
             /\ \E j \in DOMAIN q : Head(q) = q[j]
  <2>1. Len(q) \in Nat /\ Len(q) > 0 /\ DOMAIN q = 1 .. Len(q)
    BY <1>2, LenProperties, EmptySeq
  <2>2. Head(q) = q[1] /\ 1 \in DOMAIN q
    BY <1>2, <2>1, HeadTailProperties
  <2>3. Tail(q) \in Seq(Entry) /\ Len(Tail(q)) = Len(q) - 1
        /\ \A i \in 1 .. Len(Tail(q)) : Tail(q)[i] = q[i + 1]
    BY <1>2, HeadTailProperties
  <2>4. DOMAIN Tail(q) = 1 .. Len(Tail(q))
    BY <2>3, LenProperties
  <2>5. \A i \in DOMAIN Tail(q) : i + 1 \in DOMAIN q /\ Tail(q)[i] = q[i + 1]
    BY <2>1, <2>3, <2>4
  <2> QED BY <1>1, <2>2, <2>3, <2>5
<1> QED BY <1>1, <1>2

\* What the journal writes are statuses.
LEMMA RecordedTyped ==
  ASSUME NEW rows \in [Messages -> Statuses], NEW S, NEW outcome \in Statuses
  PROVE  Recorded(rows, S, outcome) \in [Messages -> Statuses]
  BY DEF Recorded

THEOREM Initially == Init => IInv
<1> SUFFICES ASSUME Init PROVE IInv
  OBVIOUS
<1>1. TypeOK
  <2>1. queue \in Seq(Entry)
    BY DEF Init
  <2> QED BY <2>1 DEF Init, TypeOK, Stages, CallStates, Statuses
<1>2. OneTimer /\ DispatchedOnce /\ Waits /\ Settled
  BY DEF Init, OneTimer, DispatchedOnce, Waits, Settled
<1>3. Undispatched
  BY DEF Init, Undispatched
<1> QED BY <1>1, <1>2, <1>3 DEF IInv

-----------------------------------------------------------------------------
(* One lemma per action.                                                    *)

\* The status column of a row that changes, or of several.
LEMMA StatusTyped ==
  ASSUME TypeOK, NEW m \in Messages, NEW s \in Statuses
  PROVE  [status EXCEPT ![m] = s] \in [Messages -> Statuses]
  BY DEF TypeOK

\* What is dispatched had not been.
LEMMA CalledCounts ==
  ASSUME TypeOK, NEW S \in SUBSET Messages, NEW how \in [Messages -> CallStates], Called(S, how)
  PROVE  /\ call' \in [Messages -> CallStates] /\ calls' \in [Messages -> Nat]
         /\ \A m \in Messages : calls'[m] = IF m \in S THEN calls[m] + 1 ELSE calls[m]
         /\ \A m \in Messages : call'[m] = IF m \in S THEN how[m] ELSE call[m]
  BY DEF TypeOK, Called

LEMMA ReceiveKeeps ==
  ASSUME IInv, NEW m \in Messages, Receive(m)
  PROVE  IInv'
<1> USE DEF IInv
<1>1. /\ status' \in [Messages -> Statuses] /\ queue' \in Seq(Entry)
      /\ \A i \in DOMAIN queue' : \E j \in DOMAIN queue : queue'[i] = queue[j]
      /\ marked' \in SUBSET Direct /\ latest' \in Messages \cup {0}
      /\ \/ Popped
         \/ UNCHANGED <<waiting, timers>>
  <2>1. [status EXCEPT ![m] = "received"] \in [Messages -> Statuses]
    BY StatusTyped DEF Statuses
  <2>2. CASE Interrupts(m) /\ Interrupt(m)
    <3>1. status' \in [Messages -> Statuses]
      <4> DEFINE S == Dropped(m) \cup {k \in {running} \ {None} : Same(k, m)} \cup ({waiting} \ {None})
      <4>1. "superseded" \in Statuses /\ status' = Recorded([status EXCEPT ![m] = "received"], S, "superseded")
        BY <2>2 DEF Interrupt, Statuses, Closed
      <4> HIDE DEF S
      <4> QED BY <2>1, <4>1, RecordedTyped
    <3>2. queue' \in Without(m)
      BY <2>2 DEF Interrupt
    <3> QED BY <2>2, <3>1, <3>2, WithoutWithin DEF Interrupt, Interrupts, TypeOK
  <2>3. CASE status' = [status EXCEPT ![m] = "received"] /\ UNCHANGED <<latest, marked, queue, bucket>>
    BY <2>1, <2>3 DEF TypeOK, bucket
  <2> QED BY <2>2, <2>3 DEF Receive, bucket
<1>2. /\ at' = [at EXCEPT ![m] = "admitted"] /\ at[m] = "unsent"
      /\ UNCHANGED <<call, running, draining, calls>>
  BY DEF Receive
<1>3. cut' \in SUBSET Messages
  BY DEF Receive, Interrupt, TypeOK, bucket
<1>4. TypeOK' /\ OneTimer'
  BY <1>1, <1>2, <1>3, SMTT(30) DEF TypeOK, OneTimer, Popped, Stages
<1>5. DispatchedOnce' /\ Waits' /\ Settled'
  BY <1>1, <1>2 DEF TypeOK, DispatchedOnce, Waits, Settled, Popped
<1>6. Undispatched'
  <2> SUFFICES ASSUME NEW k \in Messages, calls'[k] = 0
               PROVE  call'[k] = "none" /\ (\A i \in DOMAIN queue' : queue'[i].msg # k) /\ running' # k
    BY DEF Undispatched
  <2> QED BY <1>1, <1>2 DEF Undispatched
<1> QED BY <1>4, <1>5, <1>6

\* What a step that dispatches the messages of S and leaves w waiting keeps.
LEMMA DispatchKeeps ==
  ASSUME IInv, NEW S \in SUBSET Messages, NEW how \in [Messages -> CallStates], Called(S, how),
         \A k \in S : calls[k] = 0 /\ at'[k] = "handled" /\ waiting' # k,
         \A k \in Messages : at'[k] # "handled" \/ waiting' = k => at[k] # "handled" \/ waiting = k,
         waiting' # None => at'[waiting'] = "handled",
         waiting' \in Messages \cup {None},
         UNCHANGED running,
         \A i \in DOMAIN queue' : \E j \in DOMAIN queue : queue'[i] = queue[j]
  PROVE  DispatchedOnce' /\ Waits' /\ Undispatched' /\ Settled'
<1>1. /\ \A m \in Messages : calls'[m] = IF m \in S THEN calls[m] + 1 ELSE calls[m]
      /\ \A m \in Messages : call'[m] = IF m \in S THEN how[m] ELSE call[m]
      /\ calls \in [Messages -> Nat]
  BY CalledCounts DEF IInv, TypeOK
<1>2. DispatchedOnce'
  BY <1>1 DEF IInv, DispatchedOnce
<1>3. Waits'
  BY <1>1 DEF IInv, Waits
<1>4. Undispatched'
  <2> SUFFICES ASSUME NEW k \in Messages, calls'[k] = 0
               PROVE  call'[k] = "none" /\ (\A i \in DOMAIN queue' : queue'[i].msg # k) /\ running' # k
    BY DEF Undispatched
  <2>1. k \notin S /\ calls[k] = 0
    BY <1>1
  <2> QED BY <1>1, <2>1 DEF IInv, Undispatched
<1>5. Settled'
  BY DEF Settled
<1> QED BY <1>2, <1>3, <1>4, <1>5

LEMMA WaitKeeps ==
  ASSUME IInv, NEW m \in Messages, Handle(m), Wait(m)
  PROVE  IInv'
<1> DEFINE how == [k \in Messages |-> "created"]
<1>1. /\ at' = [at EXCEPT ![m] = "handled"] /\ at[m] = "admitted"
      /\ m \notin Direct /\ waiting' = m /\ timers' = 1
      /\ UNCHANGED <<marked, running, draining, cut, latest, queue>>
      /\ Called(Released(m), how)
  BY DEF Handle, Wait, TimerReset
<1>2. /\ Released(m) \in SUBSET Messages /\ how \in [Messages -> CallStates]
      /\ \A k \in Released(m) : k = waiting /\ k # m
  BY DEF Released, IInv, TypeOK, CallStates
<1>3. status' \in [Messages -> Statuses]
  <2> DEFINE rows == Recorded(status, MakesWay(m), "superseded")
  <2>1. rows \in [Messages -> Statuses]
    BY RecordedTyped DEF IInv, TypeOK, Statuses, Closed
  <2>2. status' = Recorded(rows, {m}, "queued") /\ "queued" \in Statuses
    BY DEF Wait, Statuses
  <2> HIDE DEF rows
  <2> QED BY <2>1, <2>2, RecordedTyped
<1>4. call' \in [Messages -> CallStates] /\ calls' \in [Messages -> Nat]
  BY <1>1, <1>2, CalledCounts DEF IInv
<1>5. TypeOK'
  BY <1>1, <1>3, <1>4 DEF IInv, TypeOK, Stages
<1>6. OneTimer'
  BY <1>1 DEF OneTimer
<1> HIDE DEF how
<1>7. DispatchedOnce' /\ Waits' /\ Undispatched' /\ Settled'
  <2>1. \A k \in Released(m) : calls[k] = 0 /\ at'[k] = "handled" /\ waiting' # k
    BY <1>1, <1>2 DEF IInv, Waits, Settled, TypeOK
  <2>2. \A k \in Messages : at'[k] # "handled" \/ waiting' = k => at[k] # "handled" \/ waiting = k
    BY <1>1 DEF IInv, TypeOK
  <2>3. at'[waiting'] = "handled" /\ waiting' \in Messages \cup {None}
    BY <1>1 DEF IInv, TypeOK
  <2>4. \A i \in DOMAIN queue' : \E j \in DOMAIN queue : queue'[i] = queue[j]
    BY <1>1
  <2>5. UNCHANGED running
    BY <1>1
  <2> QED BY <1>1, <1>2, <2>1, <2>2, <2>3, <2>4, <2>5, DispatchKeeps
<1> QED BY <1>5, <1>6, <1>7 DEF IInv

LEMMA PassKeeps ==
  ASSUME IInv, NEW m \in Messages, Handle(m), Pass(m) \/ Overtaken(m)
  PROVE  IInv'
<1>1. /\ at' = [at EXCEPT ![m] = "handled"] /\ at[m] = "admitted"
      /\ \/ UNCHANGED <<waiting, timers>>
         \/ waiting # None /\ timers' = 1 /\ UNCHANGED waiting
      /\ UNCHANGED <<marked, running, draining, cut, latest, queue, call, calls>>
  BY DEF Handle, Pass, Overtaken, TimerReset, bucket
<1>2. status' \in [Messages -> Statuses]
  BY RecordedTyped DEF Pass, Overtaken, IInv, TypeOK, Statuses, Closed
<1>3. TypeOK' /\ OneTimer'
  BY <1>1, <1>2 DEF IInv, TypeOK, OneTimer, Stages
<1>4. DispatchedOnce' /\ Waits' /\ Settled' /\ Undispatched'
  BY <1>1 DEF IInv, TypeOK, DispatchedOnce, Waits, Settled, Undispatched
<1> QED BY <1>3, <1>4 DEF IInv

LEMMA GoAheadKeeps ==
  ASSUME IInv, NEW m \in Messages, Handle(m), GoAhead(m)
  PROVE  IInv'
<1> DEFINE S == IF draining THEN Released(m) ELSE Released(m) \cup {m}
           how == [k \in Messages |-> IF ~draining /\ k = m THEN "directed" ELSE "created"]
<1>1. /\ at' = [at EXCEPT ![m] = "handled"] /\ at[m] = "admitted"
      /\ m \in Direct /\ waiting' = None /\ timers' = IF timers = 0 THEN 0 ELSE timers - 1
      /\ latest' \in {m, latest}
      /\ UNCHANGED <<marked, running, draining, cut>>
  BY DEF Handle, GoAhead, Popped
<1>2. Called(S, how)
  BY DEF GoAhead
<1>3. /\ S \in SUBSET Messages /\ how \in [Messages -> CallStates]
      /\ \A k \in S : k \in Messages /\ (k = waiting \/ k = m)
  BY DEF Released, IInv, TypeOK, CallStates
<1>4. /\ queue' \in Seq(Entry)
      /\ \A i \in DOMAIN queue' : \E j \in DOMAIN queue : queue'[i] = queue[j]
  <2>1. queue' = queue \/ queue' \in Without(m)
    BY DEF GoAhead
  <2> QED BY <2>1, WithoutWithin DEF IInv, TypeOK
<1>5. status' \in [Messages -> Statuses]
  <2> DEFINE rows == Recorded(status, MakesWay(m), "superseded")
  <2>1. rows \in [Messages -> Statuses]
    BY RecordedTyped DEF IInv, TypeOK, Statuses, Closed
  <2>2. "suppressed" \in Statuses /\ "superseded" \in Statuses /\ status \in [Messages -> Statuses]
    BY DEF IInv, TypeOK, Statuses, Closed
  <2>3. \/ status' = Recorded(rows, {m}, "suppressed")
        \/ \E T : status' = Recorded(status, T, "superseded")
    BY DEF GoAhead
  <2> HIDE DEF rows
  <2> QED BY <2>1, <2>2, <2>3, RecordedTyped
<1> HIDE DEF S, how
<1>6. call' \in [Messages -> CallStates] /\ calls' \in [Messages -> Nat]
  BY <1>2, <1>3, CalledCounts DEF IInv
<1>7. TypeOK' /\ OneTimer'
  <2>1. at' \in [Messages -> Stages] /\ latest' \in Messages \cup {0}
    BY <1>1 DEF IInv, TypeOK, Stages
  <2>2. timers' \in {0, 1} /\ OneTimer'
    BY <1>1 DEF IInv, TypeOK, OneTimer
  <2>3. /\ waiting' \in (Messages \ Direct) \cup {None}
        /\ UNCHANGED <<marked, running, draining, cut>>
    BY <1>1
  <2> QED BY <1>4, <1>5, <1>6, <2>1, <2>2, <2>3 DEF IInv, TypeOK
<1>8. DispatchedOnce' /\ Waits' /\ Undispatched' /\ Settled'
  <2>1. \A k \in S : calls[k] = 0 /\ at'[k] = "handled" /\ waiting' # k
    BY <1>1, <1>3 DEF IInv, Waits, Settled, TypeOK
  <2>2. \A k \in Messages : at'[k] # "handled" \/ waiting' = k => at[k] # "handled" \/ waiting = k
    BY <1>1 DEF IInv, TypeOK
  <2>3. waiting' = None
    BY <1>1
  <2>4. UNCHANGED running
    BY <1>1
  <2> QED BY <1>2, <1>3, <1>4, <2>1, <2>2, <2>3, <2>4, DispatchKeeps
<1> QED BY <1>7, <1>8 DEF IInv

LEMMA FlushKeeps ==
  ASSUME IInv, Flush
  PROVE  IInv'
<1> DEFINE S == IF UNCHANGED <<call, calls>> THEN {} ELSE {waiting}
           how == [k \in Messages |-> "soft"]
<1>1. /\ waiting' = None /\ timers' = IF timers = 0 THEN 0 ELSE timers - 1
      /\ UNCHANGED <<at, marked, latest, queue, running, draining, cut>>
  BY DEF Flush, Popped, inbound, turns
<1>2. CASE UNCHANGED <<call, calls>>
  <2>1. status' \in [Messages -> Statuses]
    BY RecordedTyped DEF Flush, IInv, TypeOK, Statuses, Closed
  <2>2. TypeOK' /\ OneTimer'
    BY <1>1, <1>2, <2>1 DEF IInv, TypeOK, OneTimer
  <2> QED BY <1>1, <1>2, <2>2 DEF IInv, DispatchedOnce, Waits, Settled, Undispatched
<1>3. CASE waiting # None /\ Called({waiting}, how) /\ UNCHANGED status
  <2>1. waiting \in Messages /\ how \in [Messages -> CallStates]
    BY <1>3 DEF IInv, TypeOK, CallStates
  <2> HIDE DEF how
  <2>2. call' \in [Messages -> CallStates] /\ calls' \in [Messages -> Nat]
    BY <1>3, <2>1, CalledCounts DEF IInv
  <2>3. TypeOK' /\ OneTimer'
    BY <1>1, <1>3, <2>2 DEF IInv, TypeOK, OneTimer
  <2>4. /\ {waiting} \in SUBSET Messages
        /\ \A k \in {waiting} : calls[k] = 0 /\ at'[k] = "handled" /\ waiting' # k
    BY <1>1, <1>3, <2>1 DEF IInv, Waits, Settled, TypeOK
  <2>5. /\ \A k \in Messages : at'[k] # "handled" \/ waiting' = k => at[k] # "handled" \/ waiting = k
        /\ waiting' # None => at'[waiting'] = "handled"
        /\ waiting' \in Messages \cup {None}
        /\ UNCHANGED running
        /\ \A i \in DOMAIN queue' : \E j \in DOMAIN queue : queue'[i] = queue[j]
    BY <1>1 DEF IInv, TypeOK
  <2> DEFINE T == {waiting}
  <2>6. T \in SUBSET Messages /\ Called(T, how) /\ \A k \in T : calls[k] = 0 /\ at'[k] = "handled" /\ waiting' # k
    BY <1>3, <2>4
  <2> HIDE DEF T
  <2>7. DispatchedOnce' /\ Waits' /\ Undispatched' /\ Settled'
    BY <2>1, <2>5, <2>6, DispatchKeeps
  <2> QED BY <2>3, <2>7 DEF IInv
<1> QED BY <1>2, <1>3 DEF Flush

LEMMA SleepKeeps ==
  ASSUME IInv, Sleep
  PROVE  IInv'
<1>1. /\ waiting # None /\ waiting' = None /\ timers' = IF timers = 0 THEN 0 ELSE timers - 1
      /\ UNCHANGED <<at, marked, latest, queue, running, draining, call, calls>>
      /\ cut' = cut \cup {waiting}
  BY DEF Sleep, Popped, inbound, turns
<1>2. status' \in [Messages -> Statuses]
  BY RecordedTyped DEF Sleep, IInv, TypeOK, Statuses, Closed
<1>3. TypeOK' /\ OneTimer'
  BY <1>1, <1>2 DEF IInv, TypeOK, OneTimer
<1>4. DispatchedOnce' /\ Waits' /\ Settled'
  BY <1>1 DEF IInv, DispatchedOnce, Waits, Settled
<1>5. Undispatched'
  BY <1>1 DEF IInv, Undispatched
<1> QED BY <1>3, <1>4, <1>5 DEF IInv

LEMMA BeginKeeps ==
  ASSUME IInv, NEW m \in Messages, Begin(m)
  PROVE  IInv'
<1>1. /\ UNCHANGED <<at, marked, latest, waiting, timers, queue, running, draining, calls, cut>>
      /\ call[m] = "created"
      /\ \E p \in {"none", "directed"} : call' = [call EXCEPT ![m] = p]
  BY DEF Begin, inbound, bucket, turns, ghosts
<1>2. status' \in [Messages -> Statuses]
  BY RecordedTyped DEF Begin, IInv, TypeOK, Statuses, Closed
<1>3. TypeOK' /\ OneTimer'
  BY <1>1, <1>2 DEF IInv, TypeOK, OneTimer, CallStates
<1>4. calls[m] # 0
  BY <1>1 DEF IInv, Undispatched
<1>5. DispatchedOnce' /\ Waits' /\ Settled'
  BY <1>1 DEF IInv, DispatchedOnce, Waits, Settled
<1>6. Undispatched'
  <2> SUFFICES ASSUME NEW k \in Messages, calls[k] = 0
               PROVE  call'[k] = "none" /\ (\A i \in DOMAIN queue : queue[i].msg # k) /\ running # k
    BY <1>1 DEF Undispatched
  <2>1. k # m
    BY <1>4
  <2>2. call'[k] = call[k]
    BY <1>1, <2>1 DEF IInv, TypeOK
  <2> QED BY <2>2 DEF IInv, Undispatched
<1> QED BY <1>3, <1>5, <1>6 DEF IInv

LEMMA SubmitKeeps ==
  ASSUME IInv, NEW m \in Messages, Submit(m)
  PROVE  IInv'
<1> DEFINE e == [msg |-> m, directed |-> call[m] = "directed"]
<1>1. /\ UNCHANGED <<at, marked, latest, waiting, timers, running, draining, calls, cut>>
      /\ call[m] \in {"directed", "soft"} /\ call' = [call EXCEPT ![m] = "none"]
  BY DEF Submit, inbound, bucket, ghosts
<1>2. e \in Entry /\ e.msg = m
  BY DEF Entry
<1>3. /\ queue' \in Seq(Entry)
      /\ \A i \in DOMAIN queue' : queue'[i].msg = m \/ \E j \in DOMAIN queue : queue'[i] = queue[j]
  <2> HIDE DEF e
  <2>1. queue \in Seq(Entry)
    BY DEF IInv, TypeOK
  <2>2. CASE queue' = queue
    BY <2>1, <2>2
  <2>3. CASE queue' = Append(queue, e)
    <3>1. /\ queue' \in Seq(Entry) /\ Len(queue') = Len(queue) + 1 /\ queue'[Len(queue) + 1] = e
          /\ \A i \in 1 .. Len(queue) : queue'[i] = queue[i]
      BY <1>2, <2>1, <2>3, AppendProperties
    <3>2. /\ DOMAIN queue = 1 .. Len(queue) /\ DOMAIN queue' = 1 .. Len(queue') /\ Len(queue) \in Nat
      BY <2>1, <3>1, LenProperties
    <3>3. \A i \in DOMAIN queue' : i \in DOMAIN queue \/ i = Len(queue) + 1
      BY <3>1, <3>2
    <3> QED BY <1>2, <3>1, <3>2, <3>3
  <2>4. CASE \E i \in DOMAIN queue : queue' = [queue EXCEPT ![i] = e]
    <3>1. PICK i \in DOMAIN queue : queue' = [queue EXCEPT ![i] = e]
      BY <2>4
    <3>2. DOMAIN queue = 1 .. Len(queue)
      BY <2>1, LenProperties
    <3>3. queue' \in Seq(Entry) /\ DOMAIN queue' = DOMAIN queue
      BY <1>2, <2>1, <3>1, <3>2, ExceptSeq
    <3> QED BY <1>2, <3>1, <3>3
  <2> QED BY <2>2, <2>3, <2>4 DEF Submit, e
<1>4. status' \in [Messages -> Statuses]
  <2> DEFINE rows == [status EXCEPT ![m] = "queued"]
  <2>1. rows \in [Messages -> Statuses] /\ status \in [Messages -> Statuses]
    BY StatusTyped DEF IInv, TypeOK, Statuses
  <2>2. \/ status' = status \/ status' = rows
        \/ \E T : status' = Recorded(rows, T, "superseded")
    BY DEF Submit
  <2>3. "superseded" \in Statuses
    BY DEF Statuses, Closed
  <2> HIDE DEF rows
  <2> QED BY <2>1, <2>2, <2>3, RecordedTyped
<1>5. TypeOK' /\ OneTimer'
  BY <1>1, <1>3, <1>4 DEF IInv, TypeOK, OneTimer, CallStates
<1>6. calls[m] # 0
  BY <1>1 DEF IInv, Undispatched
<1>7. Undispatched'
  <2> SUFFICES ASSUME NEW k \in Messages, calls'[k] = 0
               PROVE  call'[k] = "none" /\ (\A i \in DOMAIN queue' : queue'[i].msg # k) /\ running' # k
    BY DEF Undispatched
  <2>1. k # m
    BY <1>1, <1>6
  <2> QED BY <1>1, <1>3, <2>1 DEF IInv, Undispatched, TypeOK
<1> QED BY <1>1, <1>5, <1>7 DEF IInv, DispatchedOnce, Waits, Settled

LEMMA TurnKeeps ==
  ASSUME IInv, TurnStarts \/ TurnEnds \/ Drain
  PROVE  IInv'
<1>1. /\ UNCHANGED <<at, marked, latest, waiting, timers, call, calls, cut>>
      /\ draining' \in BOOLEAN
  BY DEF TurnStarts, TurnEnds, Drain, inbound, bucket, turns, ghosts, IInv, TypeOK
<1>2. queue \in Seq(Entry)
  BY DEF IInv, TypeOK
<1>3. /\ queue' \in Seq(Entry) /\ running' \in Messages \cup {None}
      /\ \A i \in DOMAIN queue' : \E j \in DOMAIN queue : queue'[i] = queue[j]
      /\ running' \in {running, None} \/ \E j \in DOMAIN queue : running' = queue[j].msg
  <2>1. CASE TurnStarts
    BY <1>2, <2>1, QueueElements DEF TurnStarts
  <2>2. CASE TurnEnds \/ Drain
    BY <2>2 DEF TurnEnds, Drain, turns, IInv, TypeOK
  <2> QED BY <2>1, <2>2
<1>4. status' \in [Messages -> Statuses]
  BY RecordedTyped, SMTT(30) DEF TurnStarts, TurnEnds, Drain, IInv, TypeOK, Statuses, Closed
<1>5. TypeOK' /\ OneTimer'
  BY <1>1, <1>3, <1>4 DEF IInv, TypeOK, OneTimer
<1>6. Undispatched'
  <2> SUFFICES ASSUME NEW k \in Messages, calls'[k] = 0
               PROVE  call'[k] = "none" /\ (\A i \in DOMAIN queue' : queue'[i].msg # k) /\ running' # k
    BY DEF Undispatched
  <2> QED BY <1>1, <1>3 DEF IInv, Undispatched
<1> QED BY <1>1, <1>5, <1>6 DEF IInv, DispatchedOnce, Waits, Settled

THEOREM Inductive == IInv /\ [Next]_vars => IInv'
<1> SUFFICES ASSUME IInv, [Next]_vars PROVE IInv'
  OBVIOUS
<1>1. CASE UNCHANGED vars
  BY <1>1 DEF vars, inbound, bucket, turns, ghosts, IInv, TypeOK, OneTimer, DispatchedOnce, Waits,
              Undispatched, Settled
<1>2. ASSUME NEW m \in Messages, Handle(m)
      PROVE  IInv'
  <2>1. Wait(m) \/ Pass(m) \/ GoAhead(m) \/ Overtaken(m)
    BY <1>2 DEF Handle
  <2> QED BY <1>2, <2>1, WaitKeeps, PassKeeps, GoAheadKeeps
<1>3. ASSUME NEW m \in Messages, Receive(m) \/ Begin(m) \/ Submit(m)
      PROVE  IInv'
  BY <1>3, ReceiveKeeps, BeginKeeps, SubmitKeeps
<1> QED BY <1>1, <1>2, <1>3, FlushKeeps, SleepKeeps, TurnKeeps DEF Next

-----------------------------------------------------------------------------
(* A waiting line gives way to its own author only.                         *)

\* The journal changes the rows of S only, and what it writes is the outcome.
LEMMA RecordedRow ==
  ASSUME NEW rows, NEW S, NEW outcome, NEW k \in Messages, rows[k] # "superseded",
         Recorded(rows, S, outcome)[k] = "superseded"
  PROVE  k \in S /\ outcome = "superseded"
  BY DEF Recorded

GivesWay(m) == \E k \in Messages \ {m} : Same(k, m) /\ at[k] = "admitted" /\ at'[k] = "handled"

LEMMA OwnAuthor ==
  ASSUME IInv, [Next]_vars, NEW m \in Messages,
         waiting = m, status[m] # "superseded", status'[m] = "superseded", m \notin cut'
  PROVE  GivesWay(m)
<1>1. /\ calls[m] = 0 /\ at[m] = "handled" /\ running # m /\ call[m] = "none"
      /\ \A i \in DOMAIN queue : queue[i].msg # m
      /\ m # None /\ status \in [Messages -> Statuses]
  BY DEF IInv, Waits, Settled, Undispatched, TypeOK
<1>2. \A k \in Messages : m \notin Dropped(k)
  BY <1>1 DEF Dropped
<1>3. ASSUME NEW k \in Messages, Receive(k)
      PROVE  FALSE
  <2> DEFINE rows == [status EXCEPT ![k] = "received"]
             lost == {waiting} \ {None}
             ended == Dropped(k) \cup {x \in {running} \ {None} : Same(x, k)}
  <2>1. k # m /\ rows[m] = status[m]
    BY <1>1, <1>3 DEF Receive
  <2>2. m \in lost /\ m \notin ended
    BY <1>1, <1>2
  <2>3. \/ status' = rows
        \/ cut' = cut \cup lost
    BY <1>3 DEF Receive, Interrupt
  <2> HIDE DEF rows, lost, ended
  <2> QED BY <2>1, <2>2, <2>3
<1>4. ASSUME NEW k \in Messages, Handle(k)
      PROVE  GivesWay(m)
  <2>1. k # m /\ at[k] = "admitted" /\ at'[k] = "handled"
    BY <1>1, <1>4 DEF Handle, IInv, TypeOK
  <2>2. m \in MakesWay(k)
    <3> DEFINE rows == Recorded(status, MakesWay(k), "superseded")
               ended == IF k \in marked THEN Dropped(k) ELSE {}
    <3>1. \/ \E o \in {"queued", "suppressed"} : status' = Recorded(rows, {k}, o)
          \/ \E o : status' = Recorded(status, {k}, o)
          \/ status' = Recorded(status, MakesWay(k) \cup ended, "superseded")
      BY <1>4 DEF Handle, Wait, Pass, GoAhead, Overtaken
    <3>2. m \notin {k} /\ m \notin ended
      BY <1>2, <2>1
    <3> HIDE DEF ended
    <3>3. CASE \E o \in {"queued", "suppressed"} : status' = Recorded(rows, {k}, o)
      <4>1. rows[m] = "superseded"
        BY <3>2, <3>3, RecordedRow
      <4> QED BY <4>1, RecordedRow
    <3>4. CASE \E o : status' = Recorded(status, {k}, o)
      BY <3>2, <3>4, RecordedRow
    <3>5. CASE status' = Recorded(status, MakesWay(k) \cup ended, "superseded")
      BY <3>2, <3>5, RecordedRow
    <3> QED BY <3>1, <3>3, <3>4, <3>5
  <2>3. Same(k, m)
    BY <1>1, <2>1, <2>2 DEF MakesWay, Released, Same
  <2> QED BY <2>1, <2>3 DEF GivesWay
<1>5. ASSUME Flush
      PROVE  FALSE
  <2>1. status' = status \/ status' = Recorded(status, {waiting}, "suppressed")
    BY <1>5 DEF Flush
  <2>2. "suppressed" # "superseded"
    OBVIOUS
  <2> QED BY <2>1, <2>2, RecordedRow
<1>6. ASSUME Sleep
      PROVE  FALSE
  BY <1>6 DEF Sleep
<1>7. ASSUME NEW k \in Messages, Begin(k)
      PROVE  FALSE
  <2>1. status' = status \/ status' = Recorded(status, {k}, "suppressed")
    BY <1>7 DEF Begin
  <2>2. "suppressed" # "superseded"
    OBVIOUS
  <2> QED BY <2>1, <2>2, RecordedRow
<1>8. ASSUME NEW k \in Messages, Submit(k)
      PROVE  FALSE
  <2> DEFINE rows == [status EXCEPT ![k] = "queued"]
  <2>1. \/ status' = status \/ status' = rows
        \/ \E i \in DOMAIN queue : status' = Recorded(rows, {queue[i].msg}, "superseded")
    BY <1>8 DEF Submit
  <2>2. rows[m] # "superseded"
    BY <1>1
  <2> HIDE DEF rows
  <2>3. ASSUME NEW i \in DOMAIN queue, status' = Recorded(rows, {queue[i].msg}, "superseded")
        PROVE  FALSE
    <3>1. m \in {queue[i].msg}
      BY <2>2, <2>3, RecordedRow
    <3> QED BY <1>1, <3>1
  <2> QED BY <2>1, <2>2, <2>3
<1>9. ASSUME TurnStarts \/ TurnEnds \/ Drain
      PROVE  FALSE
  <2>1. status' = status \/ status' = Recorded(status, {running}, "delivered")
    BY <1>9 DEF TurnStarts, TurnEnds, Drain
  <2>2. "delivered" # "superseded"
    OBVIOUS
  <2> QED BY <2>1, <2>2, RecordedRow
<1>10. ASSUME UNCHANGED vars
       PROVE  FALSE
  BY <1>10 DEF vars
<1> QED BY <1>3, <1>4, <1>5, <1>6, <1>7, <1>8, <1>9, <1>10 DEF Next

-----------------------------------------------------------------------------
(* The theorems.                                                            *)

\* Every reachable state is well formed (_watch_debounce, the queue, the journal).
THEOREM TypeCorrect == Spec => []TypeOK
<1>1. IInv => TypeOK
  BY DEF IInv
<1> QED BY <1>1, Initially, Inductive, PTL DEF Spec

\* A line waits exactly while its timer runs (_queue_watch_reply, cancel_watch).
THEOREM TimerExact == Spec => []OneTimer
<1>1. IInv => OneTimer
  BY DEF IInv
<1> QED BY <1>1, Initially, Inductive, PTL DEF Spec

\* No message is dispatched twice (_flush_watch_reply, _release_other_directed).
THEOREM OneDispatch == Spec => []DispatchedOnce
<1>1. IInv => DispatchedOnce
  BY DEF IInv
<1> QED BY <1>1, Initially, Inductive, PTL DEF Spec

\* A waiting line is superseded for its own author's message only
\* (_release_other_directed), unless an interrupt or sleep cuts it off.
THEOREM OthersKeepTheirPlace == Spec => OthersKept
<1> DEFINE A == \A m \in Messages :
                  waiting = m /\ status[m] # "superseded" /\ status'[m] = "superseded" /\ m \notin cut' =>
                    \E k \in Messages \ {m} : Same(k, m) /\ at[k] = "admitted" /\ at'[k] = "handled"
<1>1. IInv /\ [Next]_vars => A
  BY OwnAuthor DEF GivesWay
<1>2. Spec => [][A]_vars
  <2> HIDE DEF A
  <2> QED BY <1>1, Initially, Inductive, PTL DEF Spec
<1> QED BY <1>2 DEF OthersKept
=============================================================================
