-------------------------- MODULE ReplyQueueProofs --------------------------
(* Theorems about ReplyQueue, for every set of channels and messages and     *)
(* for all limits.                                                          *)
EXTENDS ReplyQueue, QueueFilterProofs

-----------------------------------------------------------------------------
(* Filtering a queue.                                                       *)

\* What _expire leaves is shorter by the stale entries.
LEMMA FreshLength ==
  ASSUME NEW q \in Seq(Entry), NEW r \in Kept(q, Fresh(q))
  PROVE  /\ r \in Seq(Entry)
         /\ Cardinality(StaleAt(q)) \in Nat
         /\ Len(r) = Len(q) - Cardinality(StaleAt(q))
<1>1. Fresh(q) \in SUBSET DOMAIN q /\ DOMAIN q \ Fresh(q) = StaleAt(q)
  BY DEF Fresh, StaleAt, SoftAt
<1>2. /\ r \in Seq(Entry)
      /\ Cardinality(DOMAIN q \ Fresh(q)) \in Nat
      /\ Len(r) = Len(q) - Cardinality(DOMAIN q \ Fresh(q))
  BY <1>1, KeptLength, Zenon
<1> QED BY <1>1, <1>2

-----------------------------------------------------------------------------
(* Counting the retained turns.                                             *)

\* A channel's slots are as many as its waiting entries.
LEMMA ChannelSlots ==
  ASSUME NEW c, NEW q \in Seq(Entry)
  PROVE  /\ IsFiniteSet({c} \X DOMAIN q)
         /\ Cardinality({c} \X DOMAIN q) = Len(q)
<1>1. IsFiniteSet({c}) /\ Cardinality({c}) = 1
  BY FS_Singleton
<1>2. Cardinality({c} \X DOMAIN q) = 1 * Len(q) /\ IsFiniteSet({c} \X DOMAIN q)
  BY <1>1, Indices, FS_Product
<1> QED BY <1>2, Indices

\* Replacing the queue of one channel changes the count by the difference.
LEMMA SlotsChange ==
  ASSUME IsFiniteSet(Channels),
         queue \in [Channels -> Seq(Entry)],
         NEW c \in Channels, NEW q \in Seq(Entry),
         queue' = [queue EXCEPT ![c] = q]
  PROVE  /\ Cardinality(Slots) \in Nat
         /\ Cardinality(Slots') \in Nat
         /\ Cardinality(Slots') = Cardinality(Slots) - Len(queue[c]) + Len(q)
<1> DEFINE Others == UNION {{d} \X DOMAIN queue[d] : d \in Channels \ {c}}
<1>1. IsFiniteSet(Others)
  <2>1. IsFiniteSet({{d} \X DOMAIN queue[d] : d \in Channels \ {c}})
    <3>1. IsFiniteSet(Channels \ {c})
      BY FS_RemoveElement
    <3> DEFINE Blocks == {{d} \X DOMAIN queue[d] : d \in Channels \ {c}}
               block == [d \in Channels \ {c} |-> {d} \X DOMAIN queue[d]]
    <3>2. block \in Surjection(Channels \ {c}, Blocks)
      BY DEF Surjection
    <3> QED BY <3>1, <3>2, FS_Surjection
  <2>2. \A d \in Channels : IsFiniteSet({d} \X DOMAIN queue[d])
    <3> TAKE d \in Channels
    <3>1. queue[d] \in Seq(Entry)
      OBVIOUS
    <3> QED BY <3>1, ChannelSlots
  <2> QED BY <2>1, <2>2, FS_UNION
<1>2. \A s \in Seq(Entry) :
        /\ IsFiniteSet(Others \cup ({c} \X DOMAIN s))
        /\ Cardinality(Others \cup ({c} \X DOMAIN s)) = Cardinality(Others) + Len(s)
  <2> TAKE s \in Seq(Entry)
  <2>1. Others \cap ({c} \X DOMAIN s) = {}
    OBVIOUS
  <2>2. Cardinality(Others \cap ({c} \X DOMAIN s)) = 0
    BY <2>1, FS_EmptySet
  <2>3. IsFiniteSet({c} \X DOMAIN s) /\ Cardinality({c} \X DOMAIN s) = Len(s) /\ Len(s) \in Nat
    BY ChannelSlots, LenProperties
  <2>4. Cardinality(Others) \in Nat
    BY <1>1, FS_CardinalityType
  <2> HIDE DEF Others
  <2>5. /\ IsFiniteSet(Others \cup ({c} \X DOMAIN s))
        /\ Cardinality(Others \cup ({c} \X DOMAIN s)) =
             Cardinality(Others) + Cardinality({c} \X DOMAIN s)
               - Cardinality(Others \cap ({c} \X DOMAIN s))
    BY <1>1, <2>3, FS_Union
  <2> QED BY <2>2, <2>3, <2>4, <2>5
<1>3. Slots = Others \cup ({c} \X DOMAIN queue[c])
  BY DEF Slots
<1>4. Slots' = Others \cup ({c} \X DOMAIN q)
  <2>1. queue'[c] = q /\ \A d \in Channels \ {c} : queue'[d] = queue[d]
    OBVIOUS
  <2> QED BY <2>1 DEF Slots
<1>5. Cardinality(Others) \in Nat /\ Len(queue[c]) \in Nat /\ Len(q) \in Nat
  BY <1>1, FS_CardinalityType, LenProperties
<1>6. queue[c] \in Seq(Entry)
  OBVIOUS
<1> HIDE DEF Others
<1>7. Cardinality(Slots) = Cardinality(Others) + Len(queue[c])
  BY <1>2, <1>3, <1>6
<1>8. Cardinality(Slots') = Cardinality(Others) + Len(q)
  BY <1>2, <1>4
<1> QED BY <1>5, <1>7, <1>8

\* The slot of a running entry.
Weight(r) == IF r = None THEN 0 ELSE 1

\* Starting or ending a turn changes the number of running turns by one.
LEMMA RunningChange ==
  ASSUME IsFiniteSet(Channels),
         running \in [Channels -> Messages \cup {None}],
         NEW c \in Channels, NEW r \in Messages \cup {None},
         running' = [running EXCEPT ![c] = r]
  PROVE  /\ Cardinality(Running) \in Nat
         /\ Cardinality(Running') \in Nat
         /\ Cardinality(Running') = Cardinality(Running) - Weight(running[c]) + Weight(r)
<1>1. IsFiniteSet(Running) /\ IsFiniteSet(Running \ {c})
  BY FS_Subset, FS_RemoveElement DEF Running
<1>2. Cardinality(Running) \in Nat /\ Cardinality(Running \ {c}) \in Nat
  BY <1>1, FS_CardinalityType
<1>3. Cardinality(Running \ {c}) = Cardinality(Running) - Weight(running[c])
  BY <1>1, <1>2, FS_RemoveElement DEF Running, Weight
<1>4. Running' = IF r = None THEN Running \ {c} ELSE (Running \ {c}) \cup {c}
  BY DEF Running
<1>5. Cardinality((Running \ {c}) \cup {c}) = Cardinality(Running \ {c}) + 1
  BY <1>1, FS_AddElement
<1> QED BY <1>2, <1>3, <1>4, <1>5 DEF Weight

-----------------------------------------------------------------------------
(* The inductive invariant.                                                 *)

\* A queue that holds a message of its channel once, and one soft line at most.
Neat(c, q) ==
  /\ \A i, j \in DOMAIN q : q[i].msg = q[j].msg => i = j
  /\ \A i, j \in SoftAt(q) : i = j
  /\ \A i \in DOMAIN q : Chan[q[i].msg] = c

Neatness ==
  \A c \in Channels :
    /\ Neat(c, queue[c])
    /\ running[c] \notin Waiting(queue[c])
    /\ running[c] # None => Chan[running[c]] = c

\* Which tasks exist together, and what the shutdown has left.
Ownership ==
  /\ \A c \in Channels :
       /\ reply[c] # "none" <=> pump[c] \in {"waiting", "stopping"}
       /\ reply[c] # "none" <=> running[c] # None
  /\ closeTask # "none" <=> closing
  /\ closeTask \in {"gathering", "done"} => \A c \in Channels : queue[c] = <<>>
  /\ closeTask = "done" => \A c \in Channels : pump[c] = "none"

IInv ==
  /\ TypeOK
  /\ OutstandingExact
  /\ Ownership
  /\ NoLostWakeup
  /\ Neatness
  /\ WithinLimits

\* A filtered queue is as neat as it was.
LEMMA KeptNeat ==
  ASSUME NEW c, NEW q \in Seq(Entry), NEW K \in SUBSET DOMAIN q, NEW r \in Kept(q, K),
         Neat(c, q)
  PROVE  Neat(c, r) /\ Waiting(r) \subseteq Waiting(q)
<1>1. r \in Seq(Entry)
  BY KeptEntries
<1>2. PICK f \in [1 .. Len(r) -> K] :
        /\ \A i, j \in 1 .. Len(r) : i < j => f[i] < f[j]
        /\ \A n \in 1 .. Len(r) : r[n] = q[f[n]]
  BY KeptEntries
<1>3. DOMAIN r = 1 .. Len(r) /\ Len(r) \in Nat /\ DOMAIN q \subseteq Nat
  BY <1>1, Indices
<1>4. \A i, j \in DOMAIN r : f[i] = f[j] => i = j
  <2>1. \A i \in DOMAIN r : f[i] \in Nat
    BY <1>2, <1>3
  <2> QED BY <1>2, <1>3, <2>1
<1>5. \A i \in DOMAIN r : f[i] \in DOMAIN q /\ r[i] = q[f[i]]
  BY <1>2, <1>3
<1>6. \A i \in SoftAt(r) : f[i] \in SoftAt(q)
  BY <1>5 DEF SoftAt
<1>7. \A i, j \in SoftAt(r) : i = j
  BY <1>4, <1>6 DEF Neat, SoftAt
<1>8. \A i, j \in DOMAIN r : r[i].msg = r[j].msg => i = j
  BY <1>4, <1>5, SMTT(30) DEF Neat
<1>9. \A i \in DOMAIN r : Chan[r[i].msg] = c
  BY <1>5 DEF Neat
<1>10. Waiting(r) \subseteq Waiting(q)
  BY <1>5 DEF Waiting
<1> QED BY <1>7, <1>8, <1>9, <1>10 DEF Neat

\* Reports are well formed.
LEMMA ReportsType ==
  ASSUME NEW q \in Seq(Entry), NEW I \in SUBSET DOMAIN q, NEW why \in Reasons
  PROVE  Reports(q, I, why) \subseteq Report
<1>1. \A i \in I : q[i] \in Entry
  BY Indices, ElementOfSeq
<1> QED BY <1>1 DEF Reports, Report, Entry

\* A step of one channel that leaves it in order preserves the invariant.
LEMMA ChannelStep ==
  ASSUME IInv,
         NEW c \in Channels, NEW q \in Seq(Entry), NEW r \in Messages \cup {None},
         NEW t \in ReplyStates, NEW p \in PumpStates,
         queue' = [queue EXCEPT ![c] = q],
         running' = [running EXCEPT ![c] = r],
         reply' = [reply EXCEPT ![c] = t],
         pump' = [pump EXCEPT ![c] = p],
         outstanding' = outstanding - Len(queue[c]) + Len(q) - Weight(running[c]) + Weight(r),
         dropped' \subseteq Report,
         UNCHANGED <<paused, closing, closeTask>>,
         t # "none" <=> p \in {"waiting", "stopping"},
         t # "none" <=> r # None,
         closeTask \in {"gathering", "done"} => q = <<>>,
         closeTask = "done" => p = "none",
         q # <<>> /\ ~paused /\ ~closing => p # "none",
         Neat(c, q), r \notin Waiting(q), r # None => Chan[r] = c,
         MaxOutstanding > 0 => outstanding' <= MaxOutstanding,
         MaxDirected > 0 => Len(q) <= MaxDirected
  PROVE  IInv'
<1>1. IsFiniteSet(Channels)
  BY ConstantsAssumption
<1>2. /\ queue \in [Channels -> Seq(Entry)]
      /\ running \in [Channels -> Messages \cup {None}]
  BY DEF IInv, TypeOK
<1>3. /\ queue'[c] = q /\ running'[c] = r /\ reply'[c] = t /\ pump'[c] = p
      /\ \A d \in Channels \ {c} : /\ queue'[d] = queue[d] /\ running'[d] = running[d]
                                   /\ reply'[d] = reply[d] /\ pump'[d] = pump[d]
  BY DEF IInv, TypeOK
<1>4. OutstandingExact' /\ outstanding' \in Nat
  <2>1. /\ Cardinality(Slots) \in Nat /\ Cardinality(Slots') \in Nat
        /\ Cardinality(Slots') = Cardinality(Slots) - Len(queue[c]) + Len(q)
    BY <1>1, <1>2, SlotsChange
  <2>2. /\ Cardinality(Running) \in Nat /\ Cardinality(Running') \in Nat
        /\ Cardinality(Running') = Cardinality(Running) - Weight(running[c]) + Weight(r)
    BY <1>1, <1>2, RunningChange
  <2>3. Len(queue[c]) \in Nat /\ Len(q) \in Nat
    BY <1>2, LenProperties
  <2>4. outstanding = Cardinality(Slots) + Cardinality(Running)
    BY DEF IInv, OutstandingExact
  <2>5. Weight(running[c]) \in Nat /\ Weight(r) \in Nat
    BY DEF Weight
  <2>6. outstanding' = Cardinality(Slots') + Cardinality(Running')
    BY <2>1, <2>2, <2>3, <2>4, <2>5, SMTT(30)
  <2> QED BY <2>1, <2>2, <2>6 DEF OutstandingExact
<1>5. TypeOK'
  BY <1>4 DEF IInv, TypeOK
<1>6. Ownership'
  BY <1>3 DEF IInv, Ownership
<1>7. NoLostWakeup'
  BY <1>3 DEF IInv, NoLostWakeup
<1>8. Neatness'
  <2>1. \A d \in Channels : Neat(d, queue'[d]) /\ running'[d] \notin Waiting(queue'[d])
                            /\ (running'[d] # None => Chan[running'[d]] = d)
    BY <1>3 DEF IInv, Neatness
  <2> QED BY <2>1 DEF Neatness, Neat, SoftAt, Waiting
<1>9. WithinLimits'
  BY <1>3 DEF IInv, WithinLimits
<1> QED BY <1>4, <1>5, <1>6, <1>7, <1>8, <1>9 DEF IInv

\* The same for a step that leaves the reply alone.
LEMMA QueueStep ==
  ASSUME IInv,
         NEW c \in Channels, NEW q \in Seq(Entry),
         queue' = [queue EXCEPT ![c] = q],
         outstanding' = outstanding - Len(queue[c]) + Len(q),
         dropped' \subseteq Report,
         UNCHANGED <<running, reply, paused, closing, closeTask>>,
         pump' = pump \/ (EnsurePump(c) /\ closeTask = "none"),
         closeTask \in {"gathering", "done"} => q = <<>>,
         q # <<>> /\ ~paused /\ ~closing => pump'[c] # "none",
         Neat(c, q), running[c] \notin Waiting(q),
         MaxOutstanding > 0 => outstanding' <= MaxOutstanding,
         MaxDirected > 0 => Len(q) <= MaxDirected
  PROVE  IInv'
<1> DEFINE p == pump'[c]
<1>1. /\ running \in [Channels -> Messages \cup {None}]
      /\ reply \in [Channels -> ReplyStates]
      /\ pump \in [Channels -> PumpStates]
  BY DEF IInv, TypeOK
<1>2. p \in PumpStates /\ pump' = [pump EXCEPT ![c] = p]
  BY <1>1 DEF EnsurePump, PumpStates
<1>3. reply[c] # "none" <=> p \in {"waiting", "stopping"}
  BY <1>1 DEF IInv, Ownership, EnsurePump
<1>4. closeTask = "done" => p = "none"
  BY DEF IInv, Ownership
<1>5. /\ running' = [running EXCEPT ![c] = running[c]]
      /\ reply' = [reply EXCEPT ![c] = reply[c]]
      /\ running[c] \in Messages \cup {None}
      /\ reply[c] \in ReplyStates
  BY <1>1
<1>6. outstanding' = outstanding - Len(queue[c]) + Len(q) - Weight(running[c]) + Weight(running[c])
  <2>1. queue[c] \in Seq(Entry) /\ outstanding \in Nat
    BY DEF IInv, TypeOK
  <2>2. Len(queue[c]) \in Nat /\ Len(q) \in Nat
    BY <2>1, LenProperties
  <2> DEFINE n == outstanding - Len(queue[c])
             l == Len(q)
             w == Weight(running[c])
  <2>3. n \in Int /\ l \in Int /\ w \in Int /\ outstanding' = n + l
    BY <2>1, <2>2 DEF Weight
  <2> HIDE DEF n, l, w
  <2>4. outstanding' = n + l - w + w
    BY <2>3
  <2> QED BY <2>4 DEF n, l, w
<1>7. reply[c] # "none" <=> running[c] # None
  BY DEF IInv, Ownership
<1>8. running[c] # None => Chan[running[c]] = c
  BY DEF IInv, Neatness
<1> HIDE DEF p
<1>9. q # <<>> /\ ~paused /\ ~closing => p # "none"
  BY DEF p
<1> QED BY <1>2, <1>3, <1>4, <1>5, <1>6, <1>7, <1>8, <1>9, ChannelStep

\* What _expire leaves of a channel's queue.
LEMMA FreshFacts ==
  ASSUME IInv, NEW c \in Channels, NEW q \in Kept(queue[c], Fresh(queue[c]))
  PROVE  /\ queue[c] \in Seq(Entry) /\ q \in Seq(Entry)
         /\ Neat(c, q) /\ Waiting(q) \subseteq Waiting(queue[c])
         /\ running[c] \notin Waiting(q)
         /\ Len(queue[c]) \in Nat /\ Len(q) \in Nat
         /\ Cardinality(StaleAt(queue[c])) \in Nat
         /\ Len(q) = Len(queue[c]) - Cardinality(StaleAt(queue[c]))
         /\ Reports(queue[c], StaleAt(queue[c]), "stale") \subseteq Report
         /\ q # <<>> => queue[c] # <<>>
         /\ MaxDirected > 0 => Len(q) <= MaxDirected
         /\ outstanding \in Nat
<1>1. queue[c] \in Seq(Entry) /\ outstanding \in Nat
  BY DEF IInv, TypeOK
<1>2. Fresh(queue[c]) \in SUBSET DOMAIN queue[c] /\ StaleAt(queue[c]) \in SUBSET DOMAIN queue[c]
  BY DEF Fresh, StaleAt, SoftAt
<1>3. Neat(c, queue[c]) /\ running[c] \notin Waiting(queue[c])
  BY DEF IInv, Neatness
<1>4. Neat(c, q) /\ Waiting(q) \subseteq Waiting(queue[c])
  BY <1>1, <1>2, <1>3, KeptNeat
<1>5. /\ q \in Seq(Entry)
      /\ Cardinality(StaleAt(queue[c])) \in Nat
      /\ Len(q) = Len(queue[c]) - Cardinality(StaleAt(queue[c]))
  BY <1>1, FreshLength
<1>6. Reports(queue[c], StaleAt(queue[c]), "stale") \subseteq Report
  BY <1>1, <1>2, ReportsType DEF Reasons
<1>7. Len(queue[c]) \in Nat /\ Len(q) \in Nat
  BY <1>1, <1>5, LenProperties
<1>8. q # <<>> => queue[c] # <<>>
  BY <1>1, <1>5, <1>7, EmptySeq
<1>9. MaxDirected > 0 => Len(queue[c]) <= MaxDirected
  BY DEF IInv, WithinLimits
<1>10. MaxDirected > 0 => Len(q) <= MaxDirected
  BY <1>5, <1>7, <1>9, ConstantsAssumption
<1> QED BY <1>1, <1>3, <1>4, <1>5, <1>6, <1>7, <1>8, <1>10

-----------------------------------------------------------------------------
(* submit.                                                                  *)

\* Every way a submission ends (submit) keeps the invariant.
LEMMA SubmitStep ==
  ASSUME IInv, NEW m \in Messages, NEW d \in BOOLEAN, Submit(m, d)
  PROVE  IInv'
<1> DEFINE c == Chan[m]
           stale == Cardinality(StaleAt(queue[c]))
           out == outstanding - stale
           gone == Reports(queue[c], StaleAt(queue[c]), "stale")
<1>1. c \in Channels /\ NewEntry(m, d) \in Entry /\ NewEntry(m, d).msg = m
      /\ NewEntry(m, d).directed = d
  BY ConstantsAssumption DEF NewEntry, Entry
<1>2. ~closing /\ ~paused /\ UNCHANGED <<running, reply, paused, closing, closeTask>>
  BY DEF Submit
<1>3. closeTask = "none"
  BY <1>2 DEF IInv, Ownership
<1>4. PICK q \in Kept(queue[c], Fresh(queue[c])) :
        \/ SubmitRunning(c, m, q, out, gone)
        \/ SubmitWaiting(c, m, d, q, out, gone)
        \/ ~d /\ SubmitCoalesced(c, m, q, out, gone)
        \/ SubmitAppended(c, m, d, q, out, gone)
        \/ SubmitEvicting(c, m, d, q, out, gone)
        \/ SubmitRefused(c, m, d, q, out, gone)
  BY DEF Submit
<1>5. /\ queue[c] \in Seq(Entry) /\ q \in Seq(Entry)
      /\ Neat(c, q) /\ running[c] \notin Waiting(q)
      /\ Len(queue[c]) \in Nat /\ Len(q) \in Nat
      /\ stale \in Nat /\ Len(q) = Len(queue[c]) - stale
      /\ gone \subseteq Report
      /\ q # <<>> => queue[c] # <<>>
      /\ MaxDirected > 0 => Len(q) <= MaxDirected
      /\ outstanding \in Nat
  BY <1>1, FreshFacts
<1>6. /\ out = outstanding - Len(queue[c]) + Len(q)
      /\ MaxOutstanding > 0 => out <= MaxOutstanding
  BY <1>5, ConstantsAssumption DEF IInv, WithinLimits
<1>7. EnsurePump(c) => pump'[c] # "none"
  BY <1>1 DEF EnsurePump, IInv, TypeOK
<1>8. q # <<>> => pump[c] # "none"
  BY <1>1, <1>2, <1>5 DEF IInv, NoLostWakeup
<1>9. DOMAIN q = 1 .. Len(q)
  BY <1>5, Indices
<1> HIDE DEF stale, out, gone, c
<1>10. CASE SubmitRunning(c, m, q, out, gone)
  BY <1>1, <1>2, <1>3, <1>5, <1>6, <1>8, <1>10, QueueStep DEF SubmitRunning
<1>11. CASE SubmitWaiting(c, m, d, q, out, gone)
  <2>1. PICK i \in DOMAIN q :
          /\ q[i].msg = m
          /\ queue' = [queue EXCEPT ![c] = [q EXCEPT ![i] =
               [NewEntry(m, q[i].directed \/ d) EXCEPT
                  !.burst = IF q[i].burst # {} THEN q[i].burst ELSE @]]]
    BY <1>11 DEF SubmitWaiting
  <2> DEFINE e == [NewEntry(m, q[i].directed \/ d) EXCEPT
                     !.burst = IF q[i].burst # {} THEN q[i].burst ELSE @]
             s == [q EXCEPT ![i] = e]
  <2>2. q[i] \in Entry
    BY <1>5, <1>9, ElementOfSeq
  <2>3. e \in Entry /\ e.msg = m /\ e.directed = (q[i].directed \/ d)
    BY <2>2, ConstantsAssumption DEF Entry, NewEntry
  <2> HIDE DEF e
  <2>4. /\ s \in Seq(Entry) /\ Len(s) = Len(q) /\ DOMAIN s = DOMAIN q
        /\ \A j \in DOMAIN q : s[j] = IF j = i THEN e ELSE q[j]
    BY <1>5, <1>9, <2>1, <2>3, ExceptSeq, LenProperties
  <2> HIDE DEF s
  <2>5. Neat(c, s) /\ running[c] \notin Waiting(s)
    <3>1. \A j \in DOMAIN q : s[j].msg = q[j].msg
      BY <2>1, <2>3, <2>4
    <3>2. SoftAt(s) \subseteq SoftAt(q)
      BY <2>2, <2>3, <2>4 DEF SoftAt, Entry
    <3>3. Waiting(s) = Waiting(q)
      BY <2>4, <3>1 DEF Waiting
    <3> QED BY <1>5, <2>4, <3>1, <3>2, <3>3 DEF Neat
  <2>6. queue' = [queue EXCEPT ![c] = s]
    BY <2>1 DEF s, e
  <2> QED BY <1>1, <1>2, <1>3, <1>5, <1>6, <1>7, <1>11, <2>4, <2>5, <2>6, QueueStep DEF SubmitWaiting
<1>12. CASE ~d /\ SubmitCoalesced(c, m, q, out, gone)
  <2>1. PICK i \in SoftAt(q) :
          LET older == IF q[i].burst = {} THEN {q[i].msg} ELSE q[i].burst
              newer == IF WatchBurst[m] = {} THEN {m} ELSE WatchBurst[m]
          IN /\ queue' = [queue EXCEPT ![c] = [q EXCEPT ![i] =
                            [NewEntry(m, FALSE) EXCEPT !.burst = older \cup newer]]]
             /\ dropped' = gone \cup Reports(q, {i}, "superseded")
    BY <1>12 DEF SubmitCoalesced
  <2> DEFINE older == IF q[i].burst = {} THEN {q[i].msg} ELSE q[i].burst
             newer == IF WatchBurst[m] = {} THEN {m} ELSE WatchBurst[m]
             e == [NewEntry(m, FALSE) EXCEPT !.burst = older \cup newer]
             s == [q EXCEPT ![i] = e]
  <2>2. q[i] \in Entry /\ i \in DOMAIN q
    BY <1>5, <1>9, ElementOfSeq DEF SoftAt
  <2>3. e \in Entry /\ e.msg = m /\ e.directed = FALSE
    BY <2>2, ConstantsAssumption DEF Entry, NewEntry
  <2>4. queue' = [queue EXCEPT ![c] = s] /\ dropped' = gone \cup Reports(q, {i}, "superseded")
    BY <2>1
  <2> HIDE DEF e
  <2>5. /\ s \in Seq(Entry) /\ Len(s) = Len(q) /\ DOMAIN s = DOMAIN q
        /\ \A j \in DOMAIN q : s[j] = IF j = i THEN e ELSE q[j]
    BY <1>5, <1>9, <2>2, <2>3, ExceptSeq, LenProperties
  <2> HIDE DEF s
  <2>6. running[c] # m /\ m \notin Waiting(q)
    BY <1>12 DEF SubmitCoalesced
  <2>7. Neat(c, s) /\ running[c] \notin Waiting(s)
    <3>1. SoftAt(s) = SoftAt(q)
      BY <2>1, <2>2, <2>3, <2>5 DEF SoftAt
    <3>2. Waiting(s) \subseteq Waiting(q) \cup {m}
      BY <2>3, <2>5 DEF Waiting
    <3>3. \A j \in DOMAIN q : j # i => s[j].msg # m
      BY <2>5, <2>6 DEF Waiting
    <3>4. \A j, k \in DOMAIN s : s[j].msg = s[k].msg => j = k
      BY <1>5, <2>3, <2>5, <3>3 DEF Neat
    <3>5. \A j \in DOMAIN s : Chan[s[j].msg] = c
      BY <1>5, <2>3, <2>5 DEF Neat, c
    <3> QED BY <1>5, <2>6, <3>1, <3>2, <3>4, <3>5 DEF Neat
  <2>8. dropped' \subseteq Report
    BY <1>5, <2>2, <2>4, ReportsType DEF Reasons
  <2> QED BY <1>1, <1>2, <1>3, <1>5, <1>6, <1>7, <1>12, <2>4, <2>5, <2>7, <2>8, QueueStep
          DEF SubmitCoalesced
<1>13. ASSUME NEW l \in Seq(Entry), Neat(c, l), m \notin Waiting(l), running[c] \notin Waiting(l),
              running[c] # m, d \/ SoftAt(l) = {}
       PROVE  LET s == Append(l, NewEntry(m, d))
              IN s \in Seq(Entry) /\ Len(s) = Len(l) + 1 /\ Neat(c, s) /\ running[c] \notin Waiting(s)
  <2> DEFINE s == Append(l, NewEntry(m, d))
  <2>1. /\ s \in Seq(Entry) /\ Len(s) = Len(l) + 1
        /\ \A i \in 1 .. Len(l) : s[i] = l[i]
        /\ s[Len(l) + 1] = NewEntry(m, d)
    BY <1>1, <1>13, AppendProperties
  <2>2. DOMAIN s = DOMAIN l \cup {Len(l) + 1} /\ Len(l) \in Nat /\ DOMAIN l = 1 .. Len(l)
    BY <1>13, <2>1, Indices
  <2> HIDE DEF s
  <2>3. \A i \in DOMAIN l : s[i] = l[i] /\ l[i].msg # m
    BY <1>13, <2>1, <2>2 DEF Waiting
  <2>4. \A i, j \in DOMAIN s : s[i].msg = s[j].msg => i = j
    BY <1>1, <1>13, <2>1, <2>2, <2>3 DEF Neat
  <2>5. SoftAt(s) = IF d THEN SoftAt(l) ELSE SoftAt(l) \cup {Len(l) + 1}
    BY <1>1, <2>1, <2>2, <2>3 DEF SoftAt
  <2>6. \A i, j \in SoftAt(s) : i = j
    BY <1>13, <2>5 DEF Neat
  <2>7. \A i \in DOMAIN s : Chan[s[i].msg] = c
    BY <1>1, <1>13, <2>1, <2>2, <2>3 DEF Neat, c
  <2>8. running[c] \notin Waiting(s)
    BY <1>1, <1>13, <2>1, <2>2, <2>3 DEF Waiting
  <2> QED BY <2>1, <2>4, <2>6, <2>7, <2>8 DEF Neat, s
<1>14. CASE SubmitAppended(c, m, d, q, out, gone)
  <2> DEFINE s == Append(q, NewEntry(m, d))
  <2>1. /\ running[c] # m /\ m \notin Waiting(q) /\ (d \/ SoftAt(q) = {})
        /\ ~(MaxDirected > 0 /\ Len(q) >= MaxDirected)
        /\ ~(MaxOutstanding > 0 /\ out >= MaxOutstanding)
        /\ queue' = [queue EXCEPT ![c] = s]
        /\ outstanding' = out + 1 /\ dropped' = gone /\ EnsurePump(c)
    BY <1>14 DEF SubmitAppended, Unknown, ChannelFull, Full
  <2>2. s \in Seq(Entry) /\ Len(s) = Len(q) + 1 /\ Neat(c, s) /\ running[c] \notin Waiting(s)
    BY <1>5, <1>13, <2>1
  <2> HIDE DEF s
  <2>3. /\ outstanding' = outstanding - Len(queue[c]) + Len(s)
        /\ MaxOutstanding > 0 => outstanding' <= MaxOutstanding
        /\ MaxDirected > 0 => Len(s) <= MaxDirected
    <3>1. out \in Int /\ MaxOutstanding \in Nat /\ MaxDirected \in Nat
      BY <1>5, <1>6, ConstantsAssumption
    <3>2. outstanding' = outstanding - Len(queue[c]) + Len(s)
      BY <1>5, <1>6, <2>1, <2>2
    <3>3. MaxOutstanding > 0 => outstanding' <= MaxOutstanding
      BY <2>1, <3>1
    <3>4. MaxDirected > 0 => Len(s) <= MaxDirected
      BY <1>5, <2>1, <2>2, <3>1
    <3> QED BY <3>2, <3>3, <3>4
  <2> QED BY <1>1, <1>2, <1>3, <1>5, <1>7, <2>1, <2>2, <2>3, QueueStep
<1>15. CASE SubmitEvicting(c, m, d, q, out, gone)
  <2>1. PICK i \in SoftAt(q) :
          /\ \E left \in Kept(q, DOMAIN q \ {i}) :
               queue' = [queue EXCEPT ![c] = Append(left, NewEntry(m, d))]
          /\ dropped' = gone \cup Reports(q, {i}, "queue full")
    BY <1>15 DEF SubmitEvicting
  <2>2. PICK left \in Kept(q, DOMAIN q \ {i}) :
          queue' = [queue EXCEPT ![c] = Append(left, NewEntry(m, d))]
    BY <2>1
  <2> DEFINE s == Append(left, NewEntry(m, d))
  <2>3. /\ running[c] # m /\ m \notin Waiting(q) /\ (d \/ SoftAt(q) = {})
        /\ outstanding' = out - 1 + 1 /\ EnsurePump(c)
    BY <1>15 DEF SubmitEvicting, Unknown
  <2>4. i \in DOMAIN q /\ DOMAIN q \ {i} \in SUBSET DOMAIN q /\ DOMAIN q \ (DOMAIN q \ {i}) = {i}
    BY DEF SoftAt
  <2>5. Neat(c, left) /\ Waiting(left) \subseteq Waiting(q)
    BY <1>5, <2>4, KeptNeat
  <2>6. left \in Seq(Entry) /\ Len(left) = Len(q) - Cardinality({i})
    <3>1. /\ left \in Seq(Entry)
          /\ Len(left) = Len(q) - Cardinality(DOMAIN q \ (DOMAIN q \ {i}))
      <4>1. q \in Seq(Entry) /\ DOMAIN q \ {i} \in SUBSET DOMAIN q
        BY <1>5, <2>4
      <4>2. \A K \in SUBSET DOMAIN q : \A r \in Kept(q, K) :
              r \in Seq(Entry) /\ Len(r) = Len(q) - Cardinality(DOMAIN q \ K)
        BY <4>1, KeptLength, Zenon
      <4> QED BY <4>1, <4>2
    <3> QED BY <2>4, <3>1
  <2>7. Cardinality({i}) = 1
    BY FS_Singleton
  <2>8. d
    BY <2>3
  <2>9. s \in Seq(Entry) /\ Len(s) = Len(left) + 1 /\ Neat(c, s) /\ running[c] \notin Waiting(s)
    BY <1>5, <1>13, <2>3, <2>5, <2>6, <2>8
  <2> HIDE DEF s
  <2>10. Len(s) = Len(q)
    BY <1>5, <2>6, <2>7, <2>9
  <2>11. /\ outstanding' = outstanding - Len(queue[c]) + Len(s)
         /\ MaxOutstanding > 0 => outstanding' <= MaxOutstanding
         /\ MaxDirected > 0 => Len(s) <= MaxDirected
    <3>1. outstanding' = out
      BY <1>5, <1>6, <2>3
    <3> QED BY <1>5, <1>6, <2>10, <3>1
  <2>12. dropped' \subseteq Report
    BY <1>5, <2>1, <2>4, ReportsType DEF Reasons
  <2>13. queue' = [queue EXCEPT ![c] = s]
    BY <2>2 DEF s
  <2> QED BY <1>1, <1>2, <1>3, <1>5, <1>7, <2>3, <2>9, <2>11, <2>12, <2>13, QueueStep
<1>16. CASE SubmitRefused(c, m, d, q, out, gone)
  <2>1. /\ queue' = [queue EXCEPT ![c] = q] /\ outstanding' = out /\ pump' = pump
        /\ dropped' = gone \cup {[msg |-> m, directed |-> d,
                                  why |-> IF d THEN "deferred" ELSE "queue full"]}
    BY <1>16 DEF SubmitRefused
  <2>2. dropped' \subseteq Report
    <3>1. (IF d THEN "deferred" ELSE "queue full") \in Reasons
      BY DEF Reasons
    <3>2. [msg |-> m, directed |-> d, why |-> IF d THEN "deferred" ELSE "queue full"] \in Report
      BY <3>1 DEF Report
    <3> QED BY <1>5, <2>1, <3>2
  <2> QED BY <1>1, <1>2, <1>3, <1>5, <1>6, <1>8, <2>1, <2>2, QueueStep
<1> QED BY <1>4, <1>10, <1>11, <1>12, <1>14, <1>15, <1>16

-----------------------------------------------------------------------------
(* The pump and its reply.                                                  *)

\* A pump that ends, or hands over to a new one, with the entries q left.
LEMMA LeaveStep ==
  ASSUME IInv,
         NEW c \in Channels, NEW q \in Seq(Entry), NEW out \in Int, NEW gone \in SUBSET Report,
         Leave(c, q, out, gone),
         UNCHANGED <<paused, closing, closeTask>>,
         out = outstanding - Len(queue[c]) + Len(q) - Weight(running[c]),
         Neat(c, q), Waiting(q) \subseteq Waiting(queue[c]),
         Len(q) <= Len(queue[c]),
         closeTask \in {"gathering", "done"} => q = <<>>
  PROVE  IInv'
<1> DEFINE p == IF q # <<>> /\ ~closing /\ ~paused THEN "created" ELSE "none"
<1>1. /\ queue' = [queue EXCEPT ![c] = q]
      /\ running' = [running EXCEPT ![c] = None]
      /\ reply' = [reply EXCEPT ![c] = "none"]
      /\ pump' = [pump EXCEPT ![c] = p]
      /\ outstanding' = out
      /\ dropped' = gone
  BY DEF Leave
<1>2. p \in PumpStates /\ "none" \in ReplyStates /\ p \notin {"waiting", "stopping"}
  BY DEF PumpStates, ReplyStates
<1>3. closeTask = "done" => p = "none"
  BY DEF IInv, Ownership
<1>4. q # <<>> /\ ~paused /\ ~closing => p # "none"
  OBVIOUS
<1> HIDE DEF p
<1>5. queue[c] \in Seq(Entry) /\ outstanding \in Nat
  BY DEF IInv, TypeOK
<1>6. Len(queue[c]) \in Nat /\ Len(q) \in Nat /\ Weight(running[c]) \in {0, 1}
  BY <1>5, LenProperties DEF Weight
<1>7. Weight(None) = 0
  BY DEF Weight
<1>8. out <= outstanding
  BY <1>5, <1>6
<1>9. outstanding' = outstanding - Len(queue[c]) + Len(q) - Weight(running[c]) + Weight(None)
  <2> DEFINE a == outstanding - Len(queue[c])
             b == Len(q) - Weight(running[c])
             w == Weight(None)
  <2>1. a \in Int /\ b \in Int /\ w = 0 /\ outstanding' = a + b
    BY <1>1, <1>5, <1>6, <1>7
  <2> HIDE DEF a, b, w
  <2>2. outstanding' = a + b + w
    BY <2>1
  <2> QED BY <2>2 DEF a, b, w
<1>10. MaxOutstanding > 0 => outstanding' <= MaxOutstanding
  <2>1. MaxOutstanding > 0 => outstanding <= MaxOutstanding
    BY DEF IInv, WithinLimits
  <2> QED BY <1>1, <1>5, <1>8, <2>1, ConstantsAssumption
<1>11. MaxDirected > 0 => Len(q) <= MaxDirected
  <2>1. MaxDirected > 0 => Len(queue[c]) <= MaxDirected
    BY DEF IInv, WithinLimits
  <2> QED BY <1>6, <2>1, ConstantsAssumption
<1>12. None \notin Waiting(q)
  <2>1. \A i \in DOMAIN q : q[i] \in Entry
    BY Indices, ElementOfSeq
  <2> QED BY <2>1, ConstantsAssumption DEF Waiting, Entry
<1> QED BY <1>1, <1>2, <1>3, <1>4, <1>9, <1>10, <1>11, <1>12, ChannelStep

\* A pump that starts the turn of the head of q.
LEMMA StartStep ==
  ASSUME IInv, ~closing, ~paused,
         NEW c \in Channels, NEW q \in Seq(Entry), NEW out \in Int, NEW gone \in SUBSET Report,
         q # <<>>,
         StartTurn(c, q, out, gone),
         UNCHANGED <<paused, closing, closeTask>>,
         out = outstanding - Len(queue[c]) + Len(q) - Weight(running[c]),
         Neat(c, q), Waiting(q) \subseteq Waiting(queue[c]),
         Len(q) <= Len(queue[c])
  PROVE  IInv'
<1> DEFINE s == Tail(q)
           r == Head(q).msg
<1>1. /\ queue' = [queue EXCEPT ![c] = s]
      /\ running' = [running EXCEPT ![c] = r]
      /\ reply' = [reply EXCEPT ![c] = "active"]
      /\ pump' = [pump EXCEPT ![c] = "waiting"]
      /\ outstanding' = out
      /\ dropped' = gone
  BY DEF StartTurn
<1>2. closeTask = "none"
  BY DEF IInv, Ownership
<1>3. queue[c] \in Seq(Entry) /\ outstanding \in Nat
  BY DEF IInv, TypeOK
<1>4. Len(queue[c]) \in Nat /\ Len(q) \in Nat /\ Weight(running[c]) \in {0, 1}
  BY <1>3, LenProperties DEF Weight
<1>5. /\ s \in Seq(Entry) /\ Len(s) = Len(q) - 1 /\ Len(s) \in Nat
      /\ \A i \in 1 .. Len(s) : s[i] = q[i + 1] /\ i + 1 \in 1 .. Len(q) /\ i + 1 # 1
      /\ Head(q) = q[1] /\ 1 \in 1 .. Len(q)
  BY <1>4, HeadTailProperties, LenProperties, EmptySeq
<1>6. DOMAIN s = 1 .. Len(s) /\ DOMAIN q = 1 .. Len(q)
  BY <1>5, Indices
<1>7. q[1] \in Entry /\ r = q[1].msg /\ r \in Messages /\ r # None /\ Chan[r] = c
  <2>1. q[1] \in Entry
    BY <1>5, <1>6, ElementOfSeq
  <2> QED BY <1>5, <1>6, <2>1, ConstantsAssumption DEF Entry, Neat
<1> HIDE DEF s, r
<1>8. Neat(c, s)
  <2>1. \A i, j \in DOMAIN s : s[i].msg = s[j].msg => i = j
    <3> SUFFICES ASSUME NEW i \in 1 .. Len(s), NEW j \in 1 .. Len(s), s[i].msg = s[j].msg
                 PROVE  i = j
      BY <1>6
    <3>1. q[i + 1].msg = q[j + 1].msg /\ i + 1 \in DOMAIN q /\ j + 1 \in DOMAIN q
      BY <1>5, <1>6
    <3>2. i + 1 = j + 1
      BY <3>1 DEF Neat
    <3> QED BY <1>5, <3>2
  <2>2. \A i, j \in SoftAt(s) : i = j
    <3>1. \A i, j \in SoftAt(s) : i + 1 \in SoftAt(q) /\ j + 1 \in SoftAt(q)
      BY <1>5, <1>6 DEF SoftAt
    <3>2. \A i, j \in SoftAt(s) : i + 1 = j + 1 /\ i \in Nat /\ j \in Nat
      BY <1>5, <1>6, <3>1 DEF Neat, SoftAt
    <3> QED BY <3>2
  <2>3. \A i \in DOMAIN s : Chan[s[i].msg] = c
    BY <1>5, <1>6 DEF Neat
  <2> QED BY <2>1, <2>2, <2>3 DEF Neat
<1>9. r \notin Waiting(s)
  <2> SUFFICES ASSUME NEW i \in 1 .. Len(s), s[i].msg = r
               PROVE  FALSE
    BY <1>6 DEF Waiting
  <2>1. q[i + 1].msg = q[1].msg /\ i + 1 \in DOMAIN q /\ 1 \in DOMAIN q /\ i + 1 # 1
    BY <1>5, <1>6, <1>7
  <2> QED BY <2>1 DEF Neat
<1>10. Weight(r) = 1
  BY <1>7 DEF Weight
<1>11. outstanding' = outstanding - Len(queue[c]) + Len(s) - Weight(running[c]) + Weight(r)
  <2> DEFINE a == outstanding - Len(queue[c])
             l == Len(s)
             w == Weight(running[c])
             k == Len(q)
             v == Weight(r)
  <2>1. a \in Int /\ l \in Int /\ w \in Int /\ k \in Int /\ l = k - 1 /\ v = 1
    BY <1>3, <1>4, <1>5, <1>10
  <2>2. outstanding' = a + k - w
    BY <1>1
  <2> HIDE DEF a, l, w, k, v
  <2>3. outstanding' = a + l - w + v
    BY <2>1, <2>2
  <2> QED BY <2>3 DEF a, l, w, v
<1>12. MaxOutstanding > 0 => outstanding' <= MaxOutstanding
  <2>1. MaxOutstanding > 0 => outstanding <= MaxOutstanding
    BY DEF IInv, WithinLimits
  <2>2. out <= outstanding
    BY <1>3, <1>4
  <2> QED BY <1>1, <1>3, <2>1, <2>2, ConstantsAssumption
<1>13. MaxDirected > 0 => Len(s) <= MaxDirected
  <2>1. MaxDirected > 0 => Len(queue[c]) <= MaxDirected
    BY DEF IInv, WithinLimits
  <2> QED BY <1>4, <1>5, <2>1, ConstantsAssumption
<1>14. "active" \in ReplyStates /\ "waiting" \in PumpStates
  BY DEF ReplyStates, PumpStates
<1> QED BY <1>1, <1>2, <1>5, <1>7, <1>8, <1>9, <1>11, <1>12, <1>13, <1>14, ChannelStep

\* One pass of the loop, begun with the slot of the last turn released.
LEMMA NextTurnStep ==
  ASSUME IInv,
         NEW c \in Channels,
         pump[c] # "none",
         NextTurn(c, outstanding - Weight(running[c])),
         UNCHANGED <<paused, closing, closeTask>>
  PROVE  IInv'
<1> DEFINE n == outstanding - Weight(running[c])
<1>1. queue[c] \in Seq(Entry) /\ outstanding \in Nat /\ Neat(c, queue[c])
  BY DEF IInv, TypeOK, Neatness
<1>2. Len(queue[c]) \in Nat /\ Weight(running[c]) \in {0, 1} /\ n \in Int
  BY <1>1, LenProperties DEF Weight
<1>3. closeTask \in {"gathering", "done"} => queue[c] = <<>>
  BY DEF IInv, Ownership
<1>4. CASE Leave(c, queue[c], n, {})
  <2>1. n = outstanding - Len(queue[c]) + Len(queue[c]) - Weight(running[c])
    BY <1>1, <1>2
  <2> QED BY <1>1, <1>2, <1>3, <1>4, <2>1, LeaveStep
<1>5. ASSUME queue[c] # <<>>, ~closing, ~paused,
             NEW q \in Kept(queue[c], Fresh(queue[c])),
             LET left == n - Cardinality(StaleAt(queue[c]))
                 gone == Reports(queue[c], StaleAt(queue[c]), "stale")
             IN \/ q = <<>> /\ Leave(c, q, left, gone)
                \/ q # <<>> /\ StartTurn(c, q, left, gone)
      PROVE  IInv'
  <2> DEFINE left == n - Cardinality(StaleAt(queue[c]))
             gone == Reports(queue[c], StaleAt(queue[c]), "stale")
  <2>1. /\ q \in Seq(Entry) /\ Neat(c, q) /\ Waiting(q) \subseteq Waiting(queue[c])
        /\ Len(q) \in Nat
        /\ Cardinality(StaleAt(queue[c])) \in Nat
        /\ Len(q) = Len(queue[c]) - Cardinality(StaleAt(queue[c]))
        /\ gone \in SUBSET Report
    BY <1>5, FreshFacts
  <2>2. Len(q) <= Len(queue[c])
    BY <1>2, <2>1
  <2>3. left \in Int /\ left = outstanding - Len(queue[c]) + Len(q) - Weight(running[c])
    BY <1>1, <1>2, <2>1
  <2>4. closeTask \notin {"gathering", "done"}
    BY <1>5 DEF IInv, Ownership
  <2>5. \/ q = <<>> /\ Leave(c, q, left, gone)
        \/ q # <<>> /\ StartTurn(c, q, left, gone)
    BY <1>5
  <2> HIDE DEF n, left, gone
  <2>6. CASE q = <<>> /\ Leave(c, q, left, gone)
    BY <2>1, <2>2, <2>3, <2>4, <2>6, LeaveStep
  <2>7. CASE q # <<>> /\ StartTurn(c, q, left, gone)
    BY <1>5, <2>1, <2>2, <2>3, <2>7, StartStep
  <2> QED BY <2>5, <2>6, <2>7
<1>6. CASE (queue[c] = <<>> \/ closing \/ paused) /\ Leave(c, queue[c], n, {})
  BY <1>4, <1>6
<1>7. CASE /\ queue[c] # <<>> /\ ~closing /\ ~paused
           /\ \E q \in Kept(queue[c], Fresh(queue[c])) :
                LET left == n - Cardinality(StaleAt(queue[c]))
                    gone == Reports(queue[c], StaleAt(queue[c]), "stale")
                IN \/ q = <<>> /\ Leave(c, q, left, gone)
                   \/ q # <<>> /\ StartTurn(c, q, left, gone)
  BY <1>5, <1>7, Zenon
<1> QED BY <1>6, <1>7 DEF NextTurn

\* The steps of a pump (_pump) keep the invariant.
LEMMA PumpPreserves ==
  ASSUME IInv, NEW c \in Channels, PumpStep(c)
  PROVE  IInv'
<1>1. /\ queue \in [Channels -> Seq(Entry)] /\ running \in [Channels -> Messages \cup {None}]
      /\ reply \in [Channels -> ReplyStates] /\ pump \in [Channels -> PumpStates]
      /\ outstanding \in Nat
  BY DEF IInv, TypeOK
<1>2. /\ queue[c] \in Seq(Entry) /\ Neat(c, queue[c])
      /\ closeTask \in {"gathering", "done"} => queue[c] = <<>>
      /\ Len(queue[c]) \in Nat
  BY <1>1, LenProperties DEF IInv, Neatness, Ownership
<1>3. pump[c] = "created" => running[c] = None /\ Weight(running[c]) = 0
  BY DEF IInv, Ownership, Weight
<1>4. pump[c] \in {"waiting", "stopping"} => running[c] # None /\ Weight(running[c]) = 1
  BY DEF IInv, Ownership, Weight
<1>5. ASSUME pump[c] \in {"waiting", "stopping"},
             Leave(c, queue[c], outstanding - 1, {}),
             UNCHANGED <<paused, closing, closeTask>>
      PROVE  IInv'
  <2> DEFINE out == outstanding - 1
  <2>1. out = outstanding - Len(queue[c]) + Len(queue[c]) - Weight(running[c]) /\ out \in Int
    BY <1>1, <1>2, <1>4, <1>5
  <2>2. Leave(c, queue[c], out, {})
    BY <1>5
  <2> HIDE DEF out
  <2>3. Len(queue[c]) <= Len(queue[c])
    BY <1>2
  <2> QED BY <1>2, <1>5, <2>1, <2>2, <2>3, LeaveStep
<1>6. CASE PumpStarts(c)
  <2>1. outstanding = outstanding - Weight(running[c])
    BY <1>1, <1>3, <1>6 DEF PumpStarts
  <2>2. NextTurn(c, outstanding - Weight(running[c]))
    BY <1>6, <2>1 DEF PumpStarts
  <2> QED BY <1>6, <2>2, NextTurnStep DEF PumpStarts
<1>7. CASE PumpNeverStarts(c)
  <2>1. /\ queue' = [queue EXCEPT ![c] = queue[c]]
        /\ running' = [running EXCEPT ![c] = running[c]]
        /\ reply' = [reply EXCEPT ![c] = reply[c]]
        /\ pump' = [pump EXCEPT ![c] = "none"]
        /\ outstanding' = outstanding /\ dropped' = {} /\ pump[c] = "created"
        /\ closeTask = "gathering" /\ UNCHANGED <<paused, closing, closeTask>>
    BY <1>1, <1>7 DEF PumpNeverStarts, PumpsCancelled
  <2>2. running[c] = None /\ reply[c] = "none" /\ queue[c] = <<>>
    BY <1>2, <1>3, <2>1 DEF IInv, Ownership
  <2>3. outstanding' = outstanding - Len(queue[c]) + Len(queue[c]) - Weight(running[c]) + Weight(running[c])
    <3> DEFINE a == Len(queue[c])
    <3>1. a \in Nat
      BY <1>2
    <3> HIDE DEF a
    <3>2. outstanding' = outstanding - a + a - 0 + 0
      BY <1>1, <2>1, <3>1
    <3> QED BY <1>3, <2>1, <3>2 DEF a
  <2>4. /\ "none" \in PumpStates /\ "none" \in ReplyStates /\ closing
        /\ running[c] \notin Waiting(queue[c])
        /\ MaxOutstanding > 0 => outstanding <= MaxOutstanding
        /\ MaxDirected > 0 => Len(queue[c]) <= MaxDirected
    BY <2>1 DEF PumpStates, ReplyStates, IInv, Ownership, Neatness, WithinLimits
  <2> QED BY <1>1, <1>2, <2>1, <2>2, <2>3, <2>4, ChannelStep
<1>8. CASE PumpResumes(c)
  <2>1. pump[c] = "waiting" /\ UNCHANGED <<paused, closing, closeTask>>
    BY <1>8 DEF PumpResumes
  <2>2. \/ Leave(c, queue[c], outstanding - 1, {})
        \/ NextTurn(c, outstanding - 1)
    BY <1>8 DEF PumpResumes
  <2>3. CASE Leave(c, queue[c], outstanding - 1, {})
    BY <1>5, <2>1, <2>3
  <2>4. CASE NextTurn(c, outstanding - 1)
    <3>1. NextTurn(c, outstanding - Weight(running[c]))
      BY <1>4, <2>1, <2>4
    <3> QED BY <2>1, <3>1, NextTurnStep
  <2> QED BY <2>2, <2>3, <2>4
<1>9. CASE PumpCancelled(c)
  <2>1. pump[c] = "waiting" /\ UNCHANGED <<paused, closing, closeTask>>
    BY <1>9 DEF PumpCancelled
  <2>2. CASE Leave(c, queue[c], outstanding - 1, {})
    BY <1>5, <2>1, <2>2
  <2>3. CASE /\ reply' = [reply EXCEPT ![c] = "stopping"]
             /\ pump' = [pump EXCEPT ![c] = "stopping"]
             /\ dropped' = {}
             /\ UNCHANGED <<queue, running, outstanding>>
    <3>1. TypeOK'
      BY <1>1, <2>1, <2>3 DEF IInv, TypeOK, ReplyStates, PumpStates
    <3>2. OutstandingExact'
      BY <2>3 DEF IInv, OutstandingExact, Slots, Running
    <3>3. Ownership'
      <4>1. \A d \in Channels : /\ reply'[d] = IF d = c THEN "stopping" ELSE reply[d]
                               /\ pump'[d] = IF d = c THEN "stopping" ELSE pump[d]
        BY <1>1, <2>3
      <4>2. running[c] # None /\ closeTask # "done"
        BY <1>4, <2>1 DEF IInv, Ownership
      <4> QED BY <2>1, <2>3, <4>1, <4>2 DEF IInv, Ownership
    <3>4. NoLostWakeup'
      BY <1>1, <2>1, <2>3 DEF IInv, NoLostWakeup
    <3>5. Neatness'
      BY <2>3 DEF IInv, Neatness, Neat, SoftAt, Waiting
    <3>6. WithinLimits'
      BY <2>3 DEF IInv, WithinLimits
    <3> QED BY <3>1, <3>2, <3>3, <3>4, <3>5, <3>6 DEF IInv
  <2> QED BY <1>9, <2>2, <2>3 DEF PumpCancelled
<1>10. CASE PumpStops(c)
  BY <1>5, <1>10 DEF PumpStops
<1> QED BY <1>6, <1>7, <1>8, <1>9, <1>10 DEF PumpStep

\* A step that changes nothing but the state of a reply that exists.
LEMMA ReplyPreserves ==
  ASSUME IInv, NEW c \in Channels, NEW t \in ReplyStates \ {"none"}, reply[c] # "none",
         reply' = [reply EXCEPT ![c] = t],
         dropped' \subseteq Report,
         UNCHANGED <<queue, running, pump, outstanding, paused, closing, closeTask>>
  PROVE  IInv'
<1>1. TypeOK'
  BY DEF IInv, TypeOK
<1>2. OutstandingExact'
  BY DEF IInv, OutstandingExact, Slots, Running
<1>3. Ownership'
  <2>1. \A d \in Channels : reply'[d] # "none" <=> reply[d] # "none"
    BY DEF IInv, TypeOK
  <2> QED BY <2>1 DEF IInv, Ownership
<1>4. NoLostWakeup' /\ WithinLimits'
  BY DEF IInv, NoLostWakeup, WithinLimits
<1>5. Neatness'
  BY DEF IInv, Neatness, Neat, SoftAt, Waiting
<1> QED BY <1>1, <1>2, <1>3, <1>4, <1>5 DEF IInv

-----------------------------------------------------------------------------
(* The other calls.                                                         *)

\* What a filter leaves of a channel's queue, and what it releases.
LEMMA DropFacts ==
  ASSUME IInv, NEW c \in Channels, NEW K \in SUBSET DOMAIN queue[c], NEW why \in Reasons,
         DropRest(c, K, why)
  PROVE  \E q \in Seq(Entry) :
           /\ queue' = [queue EXCEPT ![c] = q]
           /\ outstanding' = outstanding - Len(queue[c]) + Len(q)
           /\ dropped' \subseteq Report
           /\ Neat(c, q) /\ running[c] \notin Waiting(q)
           /\ q # <<>> => queue[c] # <<>>
           /\ MaxOutstanding > 0 => outstanding' <= MaxOutstanding
           /\ MaxDirected > 0 => Len(q) <= MaxDirected
<1> DEFINE gone == Cardinality(DOMAIN queue[c] \ K)
<1>1. PICK q \in Kept(queue[c], K) : queue' = [queue EXCEPT ![c] = q]
  BY DEF DropRest
<1>2. /\ queue[c] \in Seq(Entry) /\ outstanding \in Nat
      /\ Neat(c, queue[c]) /\ running[c] \notin Waiting(queue[c])
  BY DEF IInv, TypeOK, Neatness
<1>3. q \in Seq(Entry) /\ gone \in Nat /\ Len(q) = Len(queue[c]) - gone
  BY <1>2, KeptLength
<1>4. Len(queue[c]) \in Nat /\ Len(q) \in Nat
  BY <1>2, <1>3, LenProperties
<1>5. outstanding' = outstanding - gone /\ dropped' = Reports(queue[c], DOMAIN queue[c] \ K, why)
  BY DEF DropRest
<1> HIDE DEF gone
<1>6. outstanding' = outstanding - Len(queue[c]) + Len(q) /\ outstanding' <= outstanding
  BY <1>2, <1>3, <1>4, <1>5
<1>7. dropped' \subseteq Report
  BY <1>2, <1>5, ReportsType
<1>8. Neat(c, q) /\ running[c] \notin Waiting(q)
  BY <1>1, <1>2, KeptNeat
<1>9. q # <<>> => queue[c] # <<>>
  BY <1>2, <1>3, <1>4, EmptySeq
<1>10. MaxOutstanding > 0 => outstanding' <= MaxOutstanding
  <2>1. MaxOutstanding > 0 => outstanding <= MaxOutstanding
    BY DEF IInv, WithinLimits
  <2>2. outstanding' \in Int
    BY <1>2, <1>3, <1>5
  <2> QED BY <1>2, <1>6, <2>1, <2>2, ConstantsAssumption
<1>11. MaxDirected > 0 => Len(q) <= MaxDirected
  <2>1. MaxDirected > 0 => Len(queue[c]) <= MaxDirected
    BY DEF IInv, WithinLimits
  <2> QED BY <1>3, <1>4, <2>1, ConstantsAssumption
<1> QED BY <1>1, <1>3, <1>6, <1>7, <1>8, <1>9, <1>10, <1>11

\* A filter that leaves the reply alone: drop_author and drop_soft.
LEMMA DropPreserves ==
  ASSUME IInv, NEW c \in Channels, NEW K \in SUBSET DOMAIN queue[c], NEW why \in Reasons,
         DropRest(c, K, why),
         UNCHANGED <<running, reply, pump, paused, closing, closeTask>>
  PROVE  IInv'
<1>1. PICK q \in Seq(Entry) :
        /\ queue' = [queue EXCEPT ![c] = q]
        /\ outstanding' = outstanding - Len(queue[c]) + Len(q)
        /\ dropped' \subseteq Report
        /\ Neat(c, q) /\ running[c] \notin Waiting(q)
        /\ q # <<>> => queue[c] # <<>>
        /\ MaxOutstanding > 0 => outstanding' <= MaxOutstanding
        /\ MaxDirected > 0 => Len(q) <= MaxDirected
  BY DropFacts
<1>2. closeTask \in {"gathering", "done"} => q = <<>>
  BY <1>1 DEF IInv, Ownership
<1>3. q # <<>> /\ ~paused /\ ~closing => pump'[c] # "none"
  BY <1>1 DEF IInv, NoLostWakeup
<1> QED BY <1>1, <1>2, <1>3, QueueStep

\* cancel_channel, drop_author and drop_soft keep the invariant.
LEMMA CancelPreserves ==
  ASSUME IInv, NEW c \in Channels, NEW clear \in BOOLEAN, CancelChannel(c, clear)
  PROVE  IInv'
<1> DEFINE K == IF clear THEN {} ELSE DOMAIN queue[c]
           t == IF reply[c] = "active" THEN "stopping" ELSE reply[c]
<1>1. K \in SUBSET DOMAIN queue[c] /\ "channel cleared" \in Reasons /\ DropRest(c, K, "channel cleared")
  BY DEF CancelChannel, Reasons
<1> HIDE DEF K
<1>2. PICK q \in Seq(Entry) :
        /\ queue' = [queue EXCEPT ![c] = q]
        /\ outstanding' = outstanding - Len(queue[c]) + Len(q)
        /\ dropped' \subseteq Report
        /\ Neat(c, q) /\ running[c] \notin Waiting(q)
        /\ q # <<>> => queue[c] # <<>>
        /\ MaxOutstanding > 0 => outstanding' <= MaxOutstanding
        /\ MaxDirected > 0 => Len(q) <= MaxDirected
  BY <1>1, DropFacts
<1>3. /\ queue[c] \in Seq(Entry) /\ outstanding \in Nat
      /\ running \in [Channels -> Messages \cup {None}]
      /\ reply \in [Channels -> ReplyStates] /\ pump \in [Channels -> PumpStates]
  BY DEF IInv, TypeOK
<1>4. /\ UNCHANGED <<running, pump, paused, closing, closeTask>>
      /\ reply' = [reply EXCEPT ![c] = t]
  BY <1>3 DEF CancelChannel, StopReply
<1>5. t \in ReplyStates /\ (t # "none" <=> reply[c] # "none")
  BY <1>3 DEF ReplyStates
<1> HIDE DEF t
<1>6. outstanding' = outstanding - Len(queue[c]) + Len(q) - Weight(running[c]) + Weight(running[c])
  <2> DEFINE a == outstanding - Len(queue[c])
             l == Len(q)
             w == Weight(running[c])
  <2>1. a \in Int /\ l \in Int /\ w \in Int /\ outstanding' = a + l
    BY <1>2, <1>3, LenProperties DEF Weight
  <2> HIDE DEF a, l, w
  <2>2. outstanding' = a + l - w + w
    BY <2>1
  <2> QED BY <2>2 DEF a, l, w
<1>7. /\ closeTask \in {"gathering", "done"} => q = <<>>
      /\ q # <<>> /\ ~paused /\ ~closing => pump[c] # "none"
      /\ closeTask = "done" => pump[c] = "none"
      /\ t # "none" <=> pump[c] \in {"waiting", "stopping"}
      /\ t # "none" <=> running[c] # None
      /\ running[c] # None => Chan[running[c]] = c
  BY <1>2, <1>5 DEF IInv, Ownership, NoLostWakeup, Neatness
<1>8. /\ running' = [running EXCEPT ![c] = running[c]]
      /\ pump' = [pump EXCEPT ![c] = pump[c]]
      /\ running[c] \in Messages \cup {None} /\ pump[c] \in PumpStates
  BY <1>3, <1>4
<1> QED BY <1>2, <1>4, <1>5, <1>6, <1>7, <1>8, ChannelStep

\* An entry that grows stale while it waits keeps the invariant.
LEMMA AgePreserves ==
  ASSUME IInv, NEW c \in Channels, NEW i \in DOMAIN queue[c], Age(c, i)
  PROVE  IInv'
<1> DEFINE e == [queue[c][i] EXCEPT !.stale = TRUE]
           s == [queue[c] EXCEPT ![i] = e]
<1>1. /\ queue \in [Channels -> Seq(Entry)] /\ outstanding \in Nat
      /\ Neat(c, queue[c]) /\ running[c] \notin Waiting(queue[c])
  BY DEF IInv, TypeOK, Neatness
<1>2. queue[c] \in Seq(Entry) /\ DOMAIN queue[c] = 1 .. Len(queue[c]) /\ Len(queue[c]) \in Nat
  BY <1>1, Indices
<1>3. queue[c][i] \in Entry
  BY <1>2, ElementOfSeq
<1>4. e \in Entry /\ e.msg = queue[c][i].msg /\ e.directed = queue[c][i].directed
  BY <1>3 DEF Entry
<1>5. /\ queue' = [queue EXCEPT ![c] = s] /\ dropped' = {} /\ outstanding' = outstanding
      /\ UNCHANGED <<running, reply, pump, paused, closing, closeTask>>
  BY <1>1 DEF Age
<1> HIDE DEF e
<1>6. /\ s \in Seq(Entry) /\ Len(s) = Len(queue[c]) /\ DOMAIN s = DOMAIN queue[c]
      /\ \A j \in DOMAIN s : s[j] = IF j = i THEN e ELSE queue[c][j]
  BY <1>2, <1>4, ExceptSeq, LenProperties
<1> HIDE DEF s
<1>7. \A j \in DOMAIN s : s[j].msg = queue[c][j].msg /\ s[j].directed = queue[c][j].directed
  BY <1>4, <1>6
<1>8. Neat(c, s) /\ running[c] \notin Waiting(s)
  <2>1. SoftAt(s) = SoftAt(queue[c]) /\ Waiting(s) = Waiting(queue[c])
    BY <1>6, <1>7 DEF SoftAt, Waiting
  <2> QED BY <1>1, <1>6, <1>7, <2>1 DEF Neat
<1>9. outstanding' = outstanding - Len(queue[c]) + Len(s)
  BY <1>1, <1>2, <1>5, <1>6
<1>10. s # <<>> => queue[c] # <<>>
  BY <1>2, <1>6, EmptySeq
<1>11. /\ closeTask \in {"gathering", "done"} => s = <<>>
       /\ s # <<>> /\ ~paused /\ ~closing => pump'[c] # "none"
       /\ MaxOutstanding > 0 => outstanding' <= MaxOutstanding
       /\ MaxDirected > 0 => Len(s) <= MaxDirected
  BY <1>5, <1>6, <1>10 DEF IInv, Ownership, NoLostWakeup, WithinLimits
<1> QED BY <1>5, <1>6, <1>8, <1>9, <1>11, QueueStep

-----------------------------------------------------------------------------
(* The shutdown.                                                            *)

\* _shutdown empties every queue and takes off as many slots as they held.
LEMMA ShutdownPreserves ==
  ASSUME IInv, ShutdownBegins
  PROVE  IInv'
<1>1. /\ closeTask = "created" /\ closeTask' = "gathering" /\ dropped' = {}
      /\ outstanding' = outstanding - Cardinality(Slots)
      /\ queue' = [c \in Channels |-> <<>>]
      /\ UNCHANGED <<running, reply, pump, paused, closing>>
  BY DEF ShutdownBegins, Slots
<1>2. Slots' = {} /\ Running' = Running
  BY <1>1 DEF Slots, Running
<1>3. IsFiniteSet(Running) /\ Cardinality(Running) \in Nat
  BY ConstantsAssumption, FS_Subset, FS_CardinalityType DEF Running
<1>4. IsFiniteSet(Slots) /\ Cardinality(Slots) \in Nat
  <2>1. queue \in [Channels -> Seq(Entry)]
    BY DEF IInv, TypeOK
  <2>2. SUFFICES IsFiniteSet(Slots)
    BY FS_CardinalityType
  <2> DEFINE Blocks == {{c} \X DOMAIN queue[c] : c \in Channels}
             block == [c \in Channels |-> {c} \X DOMAIN queue[c]]
  <2>3. block \in Surjection(Channels, Blocks)
    BY DEF Surjection
  <2>4. IsFiniteSet(Blocks)
    BY <2>3, ConstantsAssumption, FS_Surjection
  <2>5. \A B \in Blocks : IsFiniteSet(B)
    BY <2>1, ChannelSlots
  <2> HIDE DEF Blocks
  <2>6. IsFiniteSet(UNION Blocks)
    BY <2>4, <2>5, FS_UNION
  <2> QED BY <2>6 DEF Slots, Blocks
<1>5. outstanding = Cardinality(Slots) + Cardinality(Running) /\ Cardinality({}) = 0
  BY FS_EmptySet DEF IInv, OutstandingExact
<1>6. OutstandingExact' /\ outstanding' \in Nat /\ outstanding' <= outstanding
  <2>1. outstanding' = Cardinality(Running)
    BY <1>1, <1>3, <1>4, <1>5
  <2>2. outstanding' = Cardinality(Slots') + Cardinality(Running')
    BY <1>2, <1>3, <1>5, <2>1
  <2> QED BY <1>3, <1>4, <1>5, <2>1, <2>2 DEF OutstandingExact
<1>7. TypeOK'
  <2>1. <<>> \in Seq(Entry)
    BY EmptySeq
  <2> QED BY <1>1, <1>6, <2>1 DEF IInv, TypeOK
<1>8. Ownership'
  BY <1>1 DEF IInv, Ownership
<1>9. NoLostWakeup'
  BY <1>1 DEF NoLostWakeup
<1>10. Neatness'
  BY <1>1 DEF IInv, Neatness, Neat, SoftAt, Waiting
<1>11. WithinLimits'
  <2>1. MaxOutstanding > 0 => outstanding' <= MaxOutstanding
    BY <1>5, <1>3, <1>4, <1>6, ConstantsAssumption DEF IInv, WithinLimits
  <2>2. \A c \in Channels : Len(queue'[c]) = 0
    BY <1>1, EmptySeq
  <2> QED BY <2>1, <2>2, ConstantsAssumption DEF WithinLimits
<1> QED BY <1>6, <1>7, <1>8, <1>9, <1>10, <1>11 DEF IInv

\* Its last step finds nothing retained: setting the count to 0 is exact.
LEMMA ShutdownEndPreserves ==
  ASSUME IInv, ShutdownEnds
  PROVE  IInv'
<1>1. /\ closeTask = "gathering" /\ closeTask' = "done" /\ dropped' = {} /\ outstanding' = 0
      /\ \A c \in Channels : pump[c] = "none"
      /\ UNCHANGED <<queue, running, reply, pump, paused, closing>>
  BY DEF ShutdownEnds
<1>2. \A c \in Channels : queue[c] = <<>> /\ running[c] = None /\ reply[c] = "none"
  BY <1>1 DEF IInv, Ownership
<1>3. Slots' = {} /\ Running' = {}
  BY <1>1, <1>2 DEF Slots, Running
<1>4. OutstandingExact'
  BY <1>1, <1>3, FS_EmptySet DEF OutstandingExact
<1>5. TypeOK'
  BY <1>1 DEF IInv, TypeOK
<1>6. Ownership'
  BY <1>1, <1>2 DEF IInv, Ownership
<1>7. NoLostWakeup'
  BY <1>1 DEF IInv, NoLostWakeup
<1>8. Neatness'
  BY <1>1 DEF IInv, Neatness, Neat, SoftAt, Waiting
<1>9. WithinLimits'
  BY <1>1, ConstantsAssumption DEF IInv, WithinLimits
<1> QED BY <1>4, <1>5, <1>6, <1>7, <1>8, <1>9 DEF IInv

\* pause_new, close up to its await, and stuttering leave all of this alone.
LEMMA FlagsPreserve ==
  ASSUME IInv,
         \/ PauseNew \/ Close \/ UNCHANGED vars
  PROVE  IInv'
<1>1. /\ UNCHANGED <<queue, running, reply, pump, outstanding>>
      /\ dropped' \subseteq Report
      /\ paused' \in BOOLEAN /\ (paused => paused')
      /\ closing' \in BOOLEAN /\ (closing => closing')
      /\ \/ UNCHANGED <<closing, closeTask>>
         \/ closing' /\ closeTask' = IF closeTask = "none" THEN "created" ELSE closeTask
  BY DEF IInv, TypeOK, PauseNew, Close, vars
<1>2. TypeOK'
  BY <1>1 DEF IInv, TypeOK
<1>3. OutstandingExact'
  BY <1>1 DEF IInv, OutstandingExact, Slots, Running
<1>4. Ownership'
  BY <1>1 DEF IInv, Ownership, TypeOK
<1>5. NoLostWakeup'
  BY <1>1 DEF IInv, NoLostWakeup
<1>6. Neatness'
  BY <1>1 DEF IInv, Neatness, Neat, SoftAt, Waiting
<1>7. WithinLimits'
  BY <1>1 DEF IInv, WithinLimits
<1> QED BY <1>2, <1>3, <1>4, <1>5, <1>6, <1>7 DEF IInv

-----------------------------------------------------------------------------
(* The theorems.                                                            *)

\* The empty queue satisfies the invariant.
LEMMA InitIInv == Init => IInv
<1> SUFFICES ASSUME Init PROVE IInv
  OBVIOUS
<1>1. <<>> \in Seq(Entry) /\ Len(<<>>) = 0 /\ DOMAIN <<>> = {}
  BY EmptySeq
<1>2. TypeOK
  BY <1>1 DEF Init, TypeOK, ReplyStates, PumpStates
<1>3. Slots = {} /\ Running = {}
  BY <1>1 DEF Init, Slots, Running
<1>4. OutstandingExact
  BY <1>3, FS_EmptySet DEF Init, OutstandingExact
<1>5. Ownership /\ NoLostWakeup
  BY DEF Init, Ownership, NoLostWakeup
<1>6. Neatness
  BY <1>1 DEF Init, Neatness, Neat, SoftAt, Waiting
<1>7. WithinLimits
  BY <1>1, ConstantsAssumption DEF Init, WithinLimits
<1> QED BY <1>2, <1>4, <1>5, <1>6, <1>7 DEF IInv

\* Every step keeps the invariant.
LEMMA NextIInv == IInv /\ [Next]_vars => IInv'
<1> SUFFICES ASSUME IInv, [Next]_vars PROVE IInv'
  OBVIOUS
<1>1. CASE \E m \in Messages, d \in BOOLEAN : Submit(m, d)
  BY <1>1, SubmitStep
<1>2. ASSUME NEW c \in Channels, PumpStep(c) \/ ReplyEnds(c) \/ DropSoft(c)
      PROVE  IInv'
  <2>1. CASE PumpStep(c)
    BY <2>1, PumpPreserves
  <2>2. CASE ReplyEnds(c)
    <3>1. PICK how \in {"ended", "cancelled"} : reply' = [reply EXCEPT ![c] = how]
      BY <2>2 DEF ReplyEnds
    <3> QED BY <2>2, <3>1, ReplyPreserves DEF ReplyEnds, Alive, ReplyStates
  <2>3. CASE DropSoft(c)
    BY <2>3, DropPreserves DEF DropSoft, Reasons
  <2> QED BY <1>2, <2>1, <2>2, <2>3
<1>3. CASE \E c \in Channels, clear \in BOOLEAN : CancelChannel(c, clear)
  BY <1>3, CancelPreserves
<1>4. ASSUME NEW c \in Channels, NEW a \in Authors, DropAuthor(c, a)
      PROVE  IInv'
  BY <1>4, DropPreserves DEF DropAuthor, Reasons
<1>5. CASE \E c \in Channels : \E i \in DOMAIN queue[c] : Age(c, i)
  BY <1>5, AgePreserves
<1>6. CASE PauseNew \/ Close \/ UNCHANGED vars
  BY <1>6, FlagsPreserve
<1>7. CASE ShutdownBegins
  BY <1>7, ShutdownPreserves
<1>8. CASE ShutdownEnds
  BY <1>8, ShutdownEndPreserves
<1> QED BY <1>1, <1>2, <1>3, <1>4, <1>5, <1>6, <1>7, <1>8 DEF Next

\* The invariant holds in every reachable state.
LEMMA Inductive == Spec => []IInv
BY InitIInv, NextIInv, PTL DEF Spec

\* The state of every ReplyQueue object is well formed; in particular the
\* outstanding count, which submit, _pump, _expire, drop_author, drop_soft,
\* cancel_channel and _shutdown lower in eight places, never goes below zero.
THEOREM TypeCorrect == Spec => []TypeOK
<1>1. IInv => TypeOK
  BY DEF IInv
<1> QED BY <1>1, Inductive, PTL

\* The outstanding count that submit compares with max_outstanding is the
\* number of waiting entries and running turns, after every step of every
\* path that adds or releases one; and neither it nor a channel's queue passes
\* its limit, whatever is evicted to make room.
THEOREM AccountingExact == Spec => []SlotsAccounted
<1>1. IInv => SlotsAccounted
  BY DEF IInv, SlotsAccounted
<1> QED BY <1>1, Inductive, PTL

\* A channel with work that may run has a pump: _ensure_pump and the finally
\* block of _pump leave no gap.
THEOREM WakeupNeverLost == Spec => []NoLostWakeup
<1>1. IInv => NoLostWakeup
  BY DEF IInv
<1> QED BY <1>1, Inductive, PTL

\* A reply task has its channel's pump waiting for it as long as it exists,
\* and the shutdown leaves none behind.
THEOREM RepliesOwned == Spec => []NoOrphanReply
<1>1. IInv => NoOrphanReply
  BY DEF IInv, Ownership, NoOrphanReply
<1> QED BY <1>1, Inductive, PTL

\* No message is retained twice, as entry or as running turn, and no channel
\* has two soft lines waiting.
THEOREM Deduplicated == Spec => []RetainedOnce
<1>1. IInv => RetainedOnce
  <2> SUFFICES ASSUME IInv, NEW c \in Channels
               PROVE  /\ Cardinality(SoftAt(queue[c])) <= 1
                      /\ running[c] \notin Waiting(queue[c])
                      /\ \A i, j \in DOMAIN queue[c] : queue[c][i].msg = queue[c][j].msg => i = j
    BY DEF RetainedOnce
  <2>1. \A i, j \in SoftAt(queue[c]) : i = j
    BY DEF IInv, Neatness, Neat
  <2>2. CASE SoftAt(queue[c]) = {}
    BY <2>2, FS_EmptySet DEF IInv, Neatness, Neat
  <2>3. CASE SoftAt(queue[c]) # {}
    <3>1. PICK i : SoftAt(queue[c]) = {i}
      BY <2>1, <2>3
    <3>2. Cardinality(SoftAt(queue[c])) = 1
      BY <3>1, FS_Singleton
    <3> QED BY <3>2 DEF IInv, Neatness, Neat
  <2> QED BY <2>2, <2>3
<1> QED BY <1>1, Inductive, PTL
=============================================================================
