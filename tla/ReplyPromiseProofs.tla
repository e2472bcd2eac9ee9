-------------------------- MODULE ReplyPromiseProofs --------------------------
(* ReplyQueue implements TurnQueue, and what a step may do to an entry, for  *)
(* every set of channels and messages and for all limits.                   *)
EXTENDS ReplyQueueProofs

-----------------------------------------------------------------------------
(* The directed messages of one queue, and their order.                     *)

Directs(q) == {q[i].msg : i \in {k \in DOMAIN q : q[k].directed}}

Before(q, a, b) == \E i, j \in DOMAIN q : i < j /\ q[i].msg = a /\ q[j].msg = b

\* The messages of S are in r in the order in which they are in q.
SameOrder(S, q, r) == \A a, b \in S : Before(r, a, b) <=> Before(q, a, b)

\* Filtering keeps the entries at K and their order.
LEMMA KeptOrder ==
  ASSUME NEW c, NEW q \in Seq(Entry), NEW K \in SUBSET DOMAIN q, NEW r \in Kept(q, K),
         Neat(c, q)
  PROVE  /\ r \in Seq(Entry)
         /\ Waiting(r) = {q[i].msg : i \in K}
         /\ Directs(r) = {q[i].msg : i \in {k \in K : q[k].directed}}
         /\ SameOrder(Waiting(r), q, r)
<1>0. /\ r \in Seq(Entry)
      /\ Len(r) = Cardinality(K)
      /\ Cardinality(K) \in Nat
      /\ \E f \in [1 .. Len(r) -> K] :
           /\ \A i, j \in 1 .. Len(r) : i < j => f[i] < f[j]
           /\ \A k \in K : \E n \in 1 .. Len(r) : f[n] = k
           /\ \A n \in 1 .. Len(r) : r[n] = q[f[n]]
  BY KeptEntries
<1>1. r \in Seq(Entry)
  BY <1>0
<1>2. PICK f \in [1 .. Len(r) -> K] :
        /\ \A i, j \in 1 .. Len(r) : i < j => f[i] < f[j]
        /\ \A k \in K : \E n \in 1 .. Len(r) : f[n] = k
        /\ \A n \in 1 .. Len(r) : r[n] = q[f[n]]
  BY <1>0
<1>3. DOMAIN r = 1 .. Len(r) /\ DOMAIN r \subseteq Nat /\ DOMAIN q \subseteq Nat
  BY <1>1, Indices
<1>4. /\ \A n \in DOMAIN r : f[n] \in K /\ r[n] = q[f[n]]
      /\ \A k \in K : \E n \in DOMAIN r : f[n] = k
      /\ \A i, j \in DOMAIN r : i < j => f[i] < f[j]
  BY <1>2, <1>3
<1>5. Waiting(r) = {q[i].msg : i \in K}
  BY <1>4 DEF Waiting
<1>6. Directs(r) = {q[i].msg : i \in {k \in K : q[k].directed}}
  BY <1>4 DEF Directs
<1>7. SameOrder(Waiting(r), q, r)
  <2> SUFFICES ASSUME NEW a \in Waiting(r), NEW b \in Waiting(r)
               PROVE  Before(r, a, b) <=> Before(q, a, b)
    BY DEF SameOrder
  <2>1. ASSUME Before(r, a, b) PROVE Before(q, a, b)
    BY <1>4, <2>1 DEF Before
  <2>2. ASSUME Before(q, a, b) PROVE Before(r, a, b)
    <3>1. PICK i, j \in DOMAIN q : i < j /\ q[i].msg = a /\ q[j].msg = b
      BY <2>2 DEF Before
    <3>2. PICK m, n \in DOMAIN r : r[m].msg = a /\ r[n].msg = b
      BY DEF Waiting
    <3>3. f[m] = i /\ f[n] = j
      BY <1>4, <3>1, <3>2 DEF Neat
    <3>4. m \in Nat /\ n \in Nat /\ i \in Nat /\ j \in Nat
      BY <1>3, <3>1, <3>2
    <3>5. ~(n < m) /\ n # m
      BY <1>4, <3>1, <3>2, <3>3, <3>4
    <3>6. m < n
      BY <3>4, <3>5
    <3> QED BY <3>2, <3>6 DEF Before
  <2> QED BY <2>1, <2>2
<1> QED BY <1>1, <1>5, <1>6, <1>7

\* _expire takes no directed message.
LEMMA FreshOrder ==
  ASSUME NEW c, NEW q \in Seq(Entry), NEW r \in Kept(q, Fresh(q)), Neat(c, q)
  PROVE  /\ r \in Seq(Entry)
         /\ Directs(r) = Directs(q)
         /\ SameOrder(Directs(q), q, r)
         /\ Waiting(r) = {q[i].msg : i \in DOMAIN q \ StaleAt(q)}
<1>1. Fresh(q) \in SUBSET DOMAIN q /\ Fresh(q) = DOMAIN q \ StaleAt(q)
  BY DEF Fresh
<1>2. {k \in Fresh(q) : q[k].directed} = {k \in DOMAIN q : q[k].directed}
  BY DEF Fresh, StaleAt, SoftAt
<1>3. /\ r \in Seq(Entry)
      /\ Waiting(r) = {q[i].msg : i \in Fresh(q)}
      /\ Directs(r) = {q[i].msg : i \in {k \in Fresh(q) : q[k].directed}}
      /\ SameOrder(Waiting(r), q, r)
  BY <1>1, KeptOrder
<1>4. Directs(r) = Directs(q)
  BY <1>2, <1>3 DEF Directs
<1>5. Directs(q) \subseteq Waiting(r)
  BY <1>2, <1>3 DEF Directs
<1> QED BY <1>1, <1>3, <1>4, <1>5 DEF SameOrder

\* The head of the queue has nobody before it, and the rest keeps its order.
LEMMA TailOrder ==
  ASSUME NEW c, NEW q \in Seq(Entry), q # <<>>, Neat(c, q)
  PROVE  /\ Tail(q) \in Seq(Entry)
         /\ Head(q) \in Entry
         /\ Waiting(Tail(q)) = Waiting(q) \ {Head(q).msg}
         /\ Directs(Tail(q)) = Directs(q) \ {Head(q).msg}
         /\ SameOrder(Waiting(Tail(q)), q, Tail(q))
         /\ \A a : ~Before(q, a, Head(q).msg)
         /\ Neat(c, Tail(q))
<1>1. /\ Tail(q) \in Seq(Entry) /\ Head(q) \in Entry /\ Head(q) = q[1]
      /\ Len(q) \in Nat /\ Len(q) > 0 /\ Len(Tail(q)) = Len(q) - 1
      /\ \A i \in 1 .. Len(q) - 1 : Tail(q)[i] = q[i + 1]
  OBVIOUS
<1> DEFINE t == Tail(q)
<1>2. /\ DOMAIN q = 1 .. Len(q) /\ DOMAIN t = 1 .. Len(q) - 1
      /\ 1 \in DOMAIN q
  BY <1>1, LenProperties
<1> HIDE DEF t
<1>3. /\ \A i \in DOMAIN t : i + 1 \in DOMAIN q /\ t[i] = q[i + 1] /\ i + 1 # 1
      /\ \A k \in DOMAIN q : k # 1 => \E i \in DOMAIN t : k = i + 1
      /\ \A i, j \in DOMAIN t : i < j <=> i + 1 < j + 1
      /\ \A i \in DOMAIN q : ~(i < 1)
  <2>1. \A i \in DOMAIN t : i + 1 \in DOMAIN q /\ t[i] = q[i + 1] /\ i + 1 # 1
    BY <1>1, <1>2 DEF t
  <2>2. \A k \in DOMAIN q : k # 1 => k - 1 \in DOMAIN t /\ k = (k - 1) + 1
    BY <1>1, <1>2
  <2>3. \A k \in DOMAIN q : k # 1 => \E i \in DOMAIN t : k = i + 1
    BY <2>2
  <2>4. \A i, j \in DOMAIN t : i < j <=> i + 1 < j + 1
    BY <1>1, <1>2
  <2>5. \A i \in DOMAIN q : ~(i < 1)
    BY <1>1, <1>2
  <2> QED BY <2>1, <2>3, <2>4, <2>5
<1>4. \A i \in DOMAIN q : q[i].msg = Head(q).msg <=> i = 1
  BY <1>1, <1>2 DEF Neat
<1>5. Waiting(t) = Waiting(q) \ {Head(q).msg}
  BY <1>3, <1>4 DEF Waiting
<1>6. Directs(t) = Directs(q) \ {Head(q).msg}
  BY <1>3, <1>4 DEF Directs
<1>7. SameOrder(Waiting(t), q, t)
  <2> SUFFICES ASSUME NEW a \in Waiting(t), NEW b \in Waiting(t)
               PROVE  Before(t, a, b) <=> Before(q, a, b)
    BY DEF SameOrder
  <2>1. ASSUME Before(t, a, b) PROVE Before(q, a, b)
    BY <1>3, <2>1 DEF Before
  <2>2. ASSUME Before(q, a, b) PROVE Before(t, a, b)
    <3>1. PICK i, j \in DOMAIN q : i < j /\ q[i].msg = a /\ q[j].msg = b
      BY <2>2 DEF Before
    <3>2. i # 1 /\ j # 1
      BY <1>4, <1>5, <3>1
    <3>3. PICK k, l \in DOMAIN t : i = k + 1 /\ j = l + 1
      BY <1>3, <3>1, <3>2
    <3> QED BY <1>3, <3>1, <3>3 DEF Before
  <2> QED BY <2>1, <2>2
<1>8. \A a : ~Before(q, a, Head(q).msg)
  BY <1>3, <1>4 DEF Before
<1>9. Neat(c, t)
  <2>1. \A i, j \in DOMAIN t : i + 1 = j + 1 => i = j
    BY <1>1, <1>2
  <2>2. \A i, j \in DOMAIN t : t[i].msg = t[j].msg => i = j
    BY <1>3, <2>1 DEF Neat
  <2>3. \A i, j \in SoftAt(t) : i = j
    BY <1>3, <2>1 DEF Neat, SoftAt
  <2>4. \A i \in DOMAIN t : Chan[t[i].msg] = c
    BY <1>3 DEF Neat
  <2> QED BY <2>2, <2>3, <2>4 DEF Neat
<1> QED BY <1>1, <1>5, <1>6, <1>7, <1>8, <1>9 DEF t

\* An entry at the end leaves the others where they were.
LEMMA AppendOrder ==
  ASSUME NEW q \in Seq(Entry), NEW e \in Entry, e.msg \notin Waiting(q)
  PROVE  /\ Append(q, e) \in Seq(Entry)
         /\ Waiting(Append(q, e)) = Waiting(q) \cup {e.msg}
         /\ Directs(Append(q, e)) = Directs(q) \cup (IF e.directed THEN {e.msg} ELSE {})
         /\ SameOrder(Waiting(q), q, Append(q, e))
<1> DEFINE r == Append(q, e)
           n == Len(q) + 1
<1>1. /\ r \in Seq(Entry) /\ Len(q) \in Nat /\ Len(r) = n
      /\ \A i \in 1 .. Len(q) : r[i] = q[i]
      /\ r[n] = e
  OBVIOUS
<1>2. DOMAIN q = 1 .. Len(q) /\ DOMAIN r = 1 .. n
  BY <1>1, LenProperties
<1> HIDE DEF r
<1>3. /\ DOMAIN r = DOMAIN q \cup {n} /\ n \notin DOMAIN q
      /\ \A i \in DOMAIN q : r[i] = q[i]
  BY <1>1, <1>2
<1>4. Waiting(r) = Waiting(q) \cup {e.msg}
  BY <1>1, <1>3 DEF Waiting
<1>5. Directs(r) = Directs(q) \cup (IF e.directed THEN {e.msg} ELSE {})
  BY <1>1, <1>3 DEF Directs
<1> HIDE DEF n
<1>6. SameOrder(Waiting(q), q, r)
  <2>1. \A i \in DOMAIN r : r[i].msg \in Waiting(q) => i \in DOMAIN q
    BY <1>1, <1>3
  <2> QED BY <1>3, <2>1 DEF SameOrder, Before
<1> QED BY <1>1, <1>4, <1>5, <1>6 DEF r

\* So does an entry that takes the place of another.
Replaceable(c, q, i, e) ==
  /\ q \in Seq(Entry) /\ Neat(c, q) /\ i \in DOMAIN q /\ e \in Entry
  /\ e.msg \in Waiting(q) => e.msg = q[i].msg

Replaced(q, i, e, r) ==
  /\ r \in Seq(Entry)
  /\ Waiting(r) = (Waiting(q) \ {q[i].msg}) \cup {e.msg}
  /\ Directs(r) = (Directs(q) \ {q[i].msg}) \cup (IF e.directed THEN {e.msg} ELSE {})
  /\ SameOrder((Waiting(q) \ {q[i].msg}) \cup ({e.msg} \cap Waiting(q)), q, r)

LEMMA ReplaceOrder ==
  ASSUME NEW c, NEW q, NEW i, NEW e, NEW r,
         Replaceable(c, q, i, e), r = [q EXCEPT ![i] = e]
  PROVE  Replaced(q, i, e, r)
<1>0. /\ q \in Seq(Entry) /\ Neat(c, q) /\ i \in DOMAIN q /\ e \in Entry
      /\ e.msg \in Waiting(q) => e.msg = q[i].msg
  BY DEF Replaceable
<1>1. r \in Seq(Entry) /\ DOMAIN r = DOMAIN q
  BY <1>0, Indices
<1>2. r[i] = e /\ \A k \in DOMAIN q \ {i} : r[k] = q[k]
  BY <1>0, Indices
<1>3. \A k \in DOMAIN q : q[k].msg = q[i].msg <=> k = i
  BY <1>0 DEF Neat
<1>4. Waiting(r) = (Waiting(q) \ {q[i].msg}) \cup {e.msg}
  BY <1>1, <1>2, <1>3 DEF Waiting
<1>5. Directs(r) = (Directs(q) \ {q[i].msg}) \cup (IF e.directed THEN {e.msg} ELSE {})
  BY <1>1, <1>2, <1>3 DEF Directs
<1> DEFINE S == (Waiting(q) \ {q[i].msg}) \cup ({e.msg} \cap Waiting(q))
<1>6. \A k \in DOMAIN q : r[k].msg \in S \/ q[k].msg \in S => r[k].msg = q[k].msg
  <2> SUFFICES ASSUME NEW k \in DOMAIN q, r[k].msg \in S \/ q[k].msg \in S
               PROVE  r[k].msg = q[k].msg
    OBVIOUS
  <2>1. CASE k # i
    BY <1>2, <2>1
  <2>2. CASE k = i
    BY <1>0, <1>2, <2>2
  <2> QED BY <2>1, <2>2
<1>7. SameOrder(S, q, r)
  BY <1>1, <1>6 DEF SameOrder, Before
<1> QED BY <1>1, <1>4, <1>5, <1>7 DEF Replaced

-----------------------------------------------------------------------------
(* Steps of the promise.                                                    *)

Serving == [c \in Channels |-> IF Alive(c) THEN running[c] ELSE None]

PromiseStep == [Promise!Next]_(Promise!vars)

\* A channel's queue holds messages of that channel only.
LEMMA HeldByChannel ==
  ASSUME IInv
  PROVE  /\ HeldDirected = {m \in Messages : m \in Directs(queue[Chan[m]])}
         /\ \A c \in Channels : \A m \in Waiting(queue[c]) : m \in Messages /\ Chan[m] = c
         /\ \A c \in Channels : Directs(queue[c]) \subseteq Waiting(queue[c])
         /\ Chan \in [Messages -> Channels]
<1>1. HeldDirected = {m \in Messages : m \in Directs(queue[Chan[m]])}
  BY DEF HeldDirected, Directs
<1>2. ASSUME NEW c \in Channels, NEW i \in DOMAIN queue[c]
      PROVE  queue[c][i].msg \in Messages /\ Chan[queue[c][i].msg] = c
  <2>1. queue[c] \in Seq(Entry)
    BY DEF IInv, TypeOK
  <2>2. queue[c][i] \in Entry
    BY <2>1, Indices, ElementOfSeq
  <2> QED BY <2>2 DEF Entry, IInv, Neatness, Neat
<1>3. \A c \in Channels : Directs(queue[c]) \subseteq Waiting(queue[c])
  BY DEF Directs, Waiting
<1> QED BY <1>1, <1>2, <1>3, ConstantsAssumption DEF Waiting

\* Whom the channels serve, and how AheadOf reads with Before.
LEMMA AheadByChannel ==
  AheadOf = {p \in HeldDirected \X HeldDirected :
               Chan[p[1]] = Chan[p[2]] /\ Before(queue[Chan[p[1]]], p[1], p[2])}
  BY DEF AheadOf, Before

\* The queue of c becomes q, which orders the directed messages it shares with
\* the queue as before.
LEMMA ViewChange ==
  ASSUME IInv, NEW c \in Channels, NEW q \in Seq(Entry), Neat(c, q),
         queue' = [queue EXCEPT ![c] = q],
         SameOrder(Directs(queue[c]) \cap Directs(q), queue[c], q)
  PROVE  /\ HeldDirected' = (HeldDirected \ Directs(queue[c])) \cup Directs(q)
         /\ Promise!Among(HeldDirected \cap HeldDirected', AheadOf') =
              Promise!Among(HeldDirected \cap HeldDirected', AheadOf)
         /\ AheadOf' \subseteq HeldDirected' \X HeldDirected'
         /\ AheadOf \subseteq HeldDirected \X HeldDirected
<1>1. /\ queue'[c] = q /\ \A d \in Channels \ {c} : queue'[d] = queue[d]
  BY DEF IInv, TypeOK
<1>2. HeldDirected' = {m \in Messages : m \in Directs(queue'[Chan[m]])}
  BY DEF HeldDirected, Directs
<1>3. /\ AheadOf' \subseteq HeldDirected' \X HeldDirected'
      /\ AheadOf \subseteq HeldDirected \X HeldDirected
  BY DEF AheadOf
<1>4. \A m \in Directs(q) : m \in Messages /\ Chan[m] = c
  <2>1. \A i \in DOMAIN q : q[i] \in Entry
    BY Indices, ElementOfSeq
  <2> QED BY <2>1 DEF Directs, Neat, Entry
<1>5. \A m \in Messages : Chan[m] \in Channels /\ (Chan[m] = c => (m \in HeldDirected <=> m \in Directs(queue[c])))
                        /\ (Chan[m] = c => (m \in HeldDirected' <=> m \in Directs(q)))
                        /\ (Chan[m] # c => (m \in HeldDirected' <=> m \in HeldDirected))
                        /\ (Chan[m] # c => m \notin Directs(queue[c]) /\ m \notin Directs(q))
  BY <1>1, <1>2, <1>4, HeldByChannel
<1>6. HeldDirected' = (HeldDirected \ Directs(queue[c])) \cup Directs(q)
  <2>1. HeldDirected' \subseteq Messages /\ HeldDirected \subseteq Messages
    BY <1>2, HeldByChannel
  <2> QED BY <1>4, <1>5, <2>1, Zenon
<1>7. ASSUME NEW a \in HeldDirected \cap HeldDirected', NEW b \in HeldDirected \cap HeldDirected'
      PROVE  <<a, b>> \in AheadOf' <=> <<a, b>> \in AheadOf
  <2>1. a \in Messages /\ b \in Messages
    BY HeldByChannel
  <2>2. <<a, b>> \in AheadOf' <=> Chan[a] = Chan[b] /\ Before(queue'[Chan[a]], a, b)
    BY <1>7 DEF AheadOf, Before
  <2>3. <<a, b>> \in AheadOf <=> Chan[a] = Chan[b] /\ Before(queue[Chan[a]], a, b)
    BY <1>7, AheadByChannel
  <2>4. CASE Chan[a] = c /\ Chan[b] = c
    <3>1. {a, b} \subseteq Directs(queue[c]) \cap Directs(q)
      BY <1>5, <1>7, <2>1, <2>4
    <3>2. Before(q, a, b) <=> Before(queue[c], a, b)
      BY <3>1 DEF SameOrder
    <3> QED BY <1>1, <2>2, <2>3, <2>4, <3>2
  <2>5. CASE Chan[a] = Chan[b] /\ Chan[a] # c
    BY <1>1, <1>5, <2>1, <2>2, <2>3, <2>5
  <2> QED BY <2>2, <2>3, <2>4, <2>5
<1>8. /\ \A p \in AheadOf' : p = <<p[1], p[2]>>
      /\ \A p \in AheadOf : p = <<p[1], p[2]>>
  BY <1>3
<1>9. Promise!Among(HeldDirected \cap HeldDirected', AheadOf') =
        Promise!Among(HeldDirected \cap HeldDirected', AheadOf)
  BY <1>7, <1>8 DEF Promise!Among
<1> QED BY <1>3, <1>6, <1>9

LEMMA AmongAll ==
  ASSUME NEW S, NEW R \in SUBSET (S \X S)
  PROVE  Promise!Among(S, R) = R
BY DEF Promise!Among

\* Nothing directed comes or goes.
LEMMA NothingSeen ==
  ASSUME IInv, NEW c \in Channels, NEW q \in Seq(Entry), Neat(c, q),
         queue' = [queue EXCEPT ![c] = q],
         Directs(q) = Directs(queue[c]), SameOrder(Directs(queue[c]), queue[c], q)
  PROVE  HeldDirected' = HeldDirected /\ AheadOf' = AheadOf
<1>1. Directs(queue[c]) \cap Directs(q) = Directs(queue[c])
  OBVIOUS
<1>2. /\ HeldDirected' = (HeldDirected \ Directs(queue[c])) \cup Directs(q)
      /\ Promise!Among(HeldDirected \cap HeldDirected', AheadOf') =
           Promise!Among(HeldDirected \cap HeldDirected', AheadOf)
      /\ AheadOf' \subseteq HeldDirected' \X HeldDirected'
      /\ AheadOf \subseteq HeldDirected \X HeldDirected
  BY <1>1, ViewChange
<1>3. HeldDirected' = HeldDirected
  <2>1. Directs(queue[c]) \subseteq HeldDirected
    BY HeldByChannel
  <2> QED BY <1>2, <2>1
<1>4. /\ HeldDirected \cap HeldDirected' = HeldDirected
      /\ AheadOf' \subseteq HeldDirected \X HeldDirected
  BY <1>2, <1>3
<1> QED BY <1>2, <1>3, <1>4, AmongAll

\* Messages are withdrawn.
LEMMA Withdrawn ==
  ASSUME IInv, NEW c \in Channels, NEW q \in Seq(Entry), Neat(c, q),
         queue' = [queue EXCEPT ![c] = q],
         Directs(q) \subseteq Directs(queue[c]), SameOrder(Directs(q), queue[c], q)
  PROVE  /\ HeldDirected' = HeldDirected \ (Directs(queue[c]) \ Directs(q))
         /\ AheadOf' = Promise!Among(HeldDirected', AheadOf)
<1>1. Directs(queue[c]) \cap Directs(q) = Directs(q)
  OBVIOUS
<1>2. /\ HeldDirected' = (HeldDirected \ Directs(queue[c])) \cup Directs(q)
      /\ Promise!Among(HeldDirected \cap HeldDirected', AheadOf') =
           Promise!Among(HeldDirected \cap HeldDirected', AheadOf)
      /\ AheadOf' \subseteq HeldDirected' \X HeldDirected'
      /\ AheadOf \subseteq HeldDirected \X HeldDirected
  BY <1>1, ViewChange
<1>3. HeldDirected' = HeldDirected \ (Directs(queue[c]) \ Directs(q))
  <2>1. Directs(queue[c]) \subseteq HeldDirected
    BY HeldByChannel
  <2> QED BY <1>2, <2>1
<1>4. HeldDirected \cap HeldDirected' = HeldDirected'
  BY <1>3
<1> QED BY <1>2, <1>3, <1>4, AmongAll

\* A message is accepted.
LEMMA Accepted ==
  ASSUME IInv, NEW c \in Channels, NEW q \in Seq(Entry), Neat(c, q), NEW m \in Messages,
         queue' = [queue EXCEPT ![c] = q],
         Chan[m] = c, m \notin Directs(queue[c]),
         Directs(q) = Directs(queue[c]) \cup {m}, SameOrder(Directs(queue[c]), queue[c], q)
  PROVE  /\ m \notin HeldDirected
         /\ HeldDirected' = HeldDirected \cup {m}
         /\ Promise!Among(HeldDirected, AheadOf') = AheadOf
<1>1. Directs(queue[c]) \cap Directs(q) = Directs(queue[c])
  OBVIOUS
<1>2. /\ HeldDirected' = (HeldDirected \ Directs(queue[c])) \cup Directs(q)
      /\ Promise!Among(HeldDirected \cap HeldDirected', AheadOf') =
           Promise!Among(HeldDirected \cap HeldDirected', AheadOf)
      /\ AheadOf' \subseteq HeldDirected' \X HeldDirected'
      /\ AheadOf \subseteq HeldDirected \X HeldDirected
  BY <1>1, ViewChange
<1>3. HeldDirected' = HeldDirected \cup {m} /\ m \notin HeldDirected
  <2>1. Directs(queue[c]) \subseteq HeldDirected /\ m \notin HeldDirected
    BY HeldByChannel
  <2> QED BY <1>2, <2>1
<1>4. HeldDirected \cap HeldDirected' = HeldDirected
  BY <1>3
<1> QED BY <1>2, <1>3, <1>4, AmongAll

-----------------------------------------------------------------------------
(* What a step of channel c that leaves the queue q does to its entries.    *)

\* Who leaves without a turn is reported.
AllReported(c, q) ==
  \A m \in Waiting(queue[c]) \ Waiting(q) : running'[c] = m \/ m \in {r.msg : r \in dropped'}

\* Who is reported, but as expired, is gone.
OnlyReported(c, q) ==
  \A r \in dropped' : r.why # "stale" =>
    r.msg \notin Waiting(q) \cup {running'[c]} /\ Chan[r.msg] = c

\* A directed message leaves for its turn, or by a command.
DirectedLeaves(c, q) ==
  \A m \in Directs(queue[c]) \ Waiting(q) :
    \/ running[c] # m /\ running'[c] = m
    \/ \E r \in dropped' : r.msg = m /\ r.why \in {"channel cleared", "same_user_interrupt"}

Accounted(c, q) == AllReported(c, q) /\ OnlyReported(c, q) /\ DirectedLeaves(c, q)

\* The actions of DirectedKept and DropsReported.
EntriesKept ==
  \A c \in Channels : \A i \in DOMAIN queue[c] :
       queue[c][i].directed /\ queue[c][i].msg \notin Waiting(queue'[c]) =>
         \/ running[c] # queue[c][i].msg /\ running'[c] = queue[c][i].msg
         \/ \E r \in dropped' : /\ r.msg = queue[c][i].msg
                                /\ r.why \in {"channel cleared", "same_user_interrupt"}
         \/ closeTask' = "gathering"

EntriesReported ==
  \A c \in Channels : \A m \in Messages :
       /\ /\ m \in Waiting(queue[c]) \ Waiting(queue'[c])
          /\ running'[c] # m
          /\ closeTask' # "gathering"
          => m \in {r.msg : r \in dropped'}
       /\ m \in {r.msg : r \in {x \in dropped' : x.why # "stale"}} =>
            m \notin Waiting(queue'[c]) \cup {running'[c]}

LEMMA AccountedSuffices ==
  ASSUME IInv, NEW c \in Channels, NEW q \in Seq(Entry),
         queue' = [queue EXCEPT ![c] = q],
         \A d \in Channels \ {c} : running'[d] = running[d],
         Accounted(c, q)
  PROVE  EntriesKept /\ EntriesReported
<1>1. /\ queue'[c] = q /\ \A d \in Channels \ {c} : queue'[d] = queue[d]
  BY DEF IInv, TypeOK
<1>2. \A i \in DOMAIN queue[c] : queue[c][i].directed => queue[c][i].msg \in Directs(queue[c])
  BY DEF Directs
<1>3. EntriesKept
  <2> SUFFICES ASSUME NEW d \in Channels, NEW i \in DOMAIN queue[d], queue[d][i].directed,
                      queue[d][i].msg \notin Waiting(queue'[d])
               PROVE  \/ running[d] # queue[d][i].msg /\ running'[d] = queue[d][i].msg
                      \/ \E r \in dropped' : /\ r.msg = queue[d][i].msg
                                             /\ r.why \in {"channel cleared", "same_user_interrupt"}
    BY DEF EntriesKept
  <2>1. d = c
    BY <1>1 DEF Waiting
  <2> QED BY <1>1, <1>2, <2>1, ZenonT(60) DEF Accounted, DirectedLeaves
<1>4. EntriesReported
  <2> SUFFICES ASSUME NEW d \in Channels, NEW m \in Messages
               PROVE  /\ m \in Waiting(queue[d]) \ Waiting(queue'[d]) /\ running'[d] # m
                            => m \in {r.msg : r \in dropped'}
                      /\ m \in {r.msg : r \in {x \in dropped' : x.why # "stale"}} =>
                           m \notin Waiting(queue'[d]) \cup {running'[d]}
    BY DEF EntriesReported
  <2>1. CASE d = c
    BY <1>1, <2>1 DEF Accounted, AllReported, OnlyReported
  <2>2. CASE d # c
    <3>1. queue'[d] = queue[d] /\ running'[d] = running[d]
      BY <1>1, <2>2
    <3>2. m \in Waiting(queue[d]) \cup {running[d]} => Chan[m] = d
      BY HeldByChannel, ConstantsAssumption DEF IInv, Neatness
    <3> QED BY <2>2, <3>1, <3>2 DEF Accounted, OnlyReported
  <2> QED BY <2>1, <2>2
<1> QED BY <1>3, <1>4

\* A step that leaves the queues and reports nothing.
LEMMA NothingAccounted ==
  ASSUME UNCHANGED queue, dropped' = {}
  PROVE  EntriesKept /\ EntriesReported
BY DEF EntriesKept, EntriesReported, Waiting

\* The promise sees nothing of a step.
LEMMA PromiseStutters ==
  ASSUME HeldDirected' = HeldDirected, AheadOf' = AheadOf, Serving' = Serving,
         UNCHANGED <<paused, closing>>
  PROVE  PromiseStep
BY DEF PromiseStep, Promise!vars, Serving

LEMMA PromiseWithdraws ==
  ASSUME NEW S \in SUBSET HeldDirected,
         HeldDirected' = HeldDirected \ S,
         AheadOf' = Promise!Among(HeldDirected', AheadOf),
         Serving' = Serving, UNCHANGED <<paused, closing>>
  PROVE  PromiseStep
BY DEF PromiseStep, Promise!Next, Promise!Withdraw, Serving

LEMMA PromiseAccepts ==
  ASSUME NEW m \in Messages, m \notin HeldDirected,
         HeldDirected' = HeldDirected \cup {m},
         Promise!Among(HeldDirected, AheadOf') = AheadOf,
         Serving' = Serving, ~paused, ~closing, UNCHANGED <<paused, closing>>
  PROVE  PromiseStep
BY DEF PromiseStep, Promise!Next, Promise!Accept, Serving

-----------------------------------------------------------------------------
(* submit.                                                                  *)

Refined == PromiseStep /\ EntriesKept /\ EntriesReported

\* Whom a report names, and why.
Naming(R, q, I, why) ==
  /\ \A i \in I : q[i].msg \in {r.msg : r \in R}
  /\ \A r \in R : r.why = why /\ \E i \in I : r.msg = q[i].msg

LEMMA ReportsName ==
  ASSUME NEW q, NEW I, NEW why
  PROVE  Naming(Reports(q, I, why), q, I, why)
<1> DEFINE R(i) == [msg |-> q[i].msg, directed |-> q[i].directed, why |-> why]
<1>1. Reports(q, I, why) = {R(i) : i \in I}
  BY DEF Reports
<1>2. \A i : R(i).msg = q[i].msg /\ R(i).why = why
  OBVIOUS
<1> HIDE DEF R
<1> QED BY <1>1, <1>2 DEF Naming

LEMMA ReportNames ==
  ASSUME NEW q, NEW i, NEW why
  PROVE  /\ \A r \in Reports(q, {i}, why) : r.msg = q[i].msg
         /\ q[i].msg \in {r.msg : r \in Reports(q, {i}, why)}
<1>1. Naming(Reports(q, {i}, why), q, {i}, why)
  BY ReportsName
<1> QED BY <1>1 DEF Naming

\* What _expire leaves, and what it reports.
LEMMA Expired ==
  ASSUME IInv, NEW c \in Channels, NEW q \in Kept(queue[c], Fresh(queue[c]))
  PROVE  /\ queue[c] \in Seq(Entry) /\ q \in Seq(Entry) /\ Neat(c, q)
         /\ running[c] \notin Waiting(q)
         /\ Directs(q) = Directs(queue[c]) /\ SameOrder(Directs(queue[c]), queue[c], q)
         /\ Directs(q) \subseteq Waiting(q)
         /\ Waiting(q) \subseteq Waiting(queue[c])
         /\ \A m \in Waiting(queue[c]) \ Waiting(q) :
              m \in {r.msg : r \in Reports(queue[c], StaleAt(queue[c]), "stale")}
         /\ \A r \in Reports(queue[c], StaleAt(queue[c]), "stale") : r.why = "stale"
<1>1. /\ queue[c] \in Seq(Entry) /\ q \in Seq(Entry) /\ Neat(c, q) /\ Neat(c, queue[c])
      /\ running[c] \notin Waiting(q)
      /\ Waiting(q) \subseteq Waiting(queue[c])
  BY FreshFacts DEF IInv, Neatness
<1>2. /\ Directs(q) = Directs(queue[c]) /\ SameOrder(Directs(queue[c]), queue[c], q)
      /\ Waiting(q) = {queue[c][i].msg : i \in DOMAIN queue[c] \ StaleAt(queue[c])}
  BY <1>1, FreshOrder
<1>3. Directs(q) \subseteq Waiting(q)
  BY DEF Directs, Waiting
<1>4. \A m \in Waiting(queue[c]) \ Waiting(q) : \E i \in StaleAt(queue[c]) : m = queue[c][i].msg
  BY <1>2 DEF Waiting
<1>5. Naming(Reports(queue[c], StaleAt(queue[c]), "stale"), queue[c], StaleAt(queue[c]), "stale")
  BY ReportsName
<1> QED BY <1>1, <1>2, <1>3, <1>4, <1>5 DEF Naming

\* The queue s of c after a submission, from what expiry left of it, and what is
\* reported beside the expired.
Outcome(c, q, s, more) ==
  /\ \A x \in Waiting(q) \ Waiting(s) : x \in {r.msg : r \in more}
  /\ \A r \in more : r.msg \notin Waiting(s) \cup {running[c]} /\ Chan[r.msg] = c
  /\ Directs(q) \subseteq Directs(s) /\ SameOrder(Directs(q), q, s)
  /\ \/ Directs(s) = Directs(q)
     \/ \E m \in Messages \ Directs(q) : Chan[m] = c /\ Directs(s) = Directs(q) \cup {m}

LEMMA OutcomeRefines ==
  ASSUME IInv, IInv', NEW c \in Channels,
         NEW q \in Kept(queue[c], Fresh(queue[c])), NEW s \in Seq(Entry), NEW more,
         Outcome(c, q, s, more),
         queue' = [queue EXCEPT ![c] = s],
         dropped' = Reports(queue[c], StaleAt(queue[c]), "stale") \cup more,
         ~paused, ~closing, UNCHANGED <<running, reply, paused, closing>>
  PROVE  Refined
<1> DEFINE gone == Reports(queue[c], StaleAt(queue[c]), "stale")
<1>1. /\ queue[c] \in Seq(Entry)
      /\ Directs(q) = Directs(queue[c]) /\ SameOrder(Directs(queue[c]), queue[c], q)
      /\ Directs(s) \subseteq Waiting(s)
      /\ \A x \in Waiting(queue[c]) \ Waiting(q) : x \in {r.msg : r \in gone}
      /\ \A r \in gone : r.why = "stale"
  BY Expired DEF Directs, Waiting
<1>2. SameOrder(Directs(queue[c]), queue[c], s)
  BY <1>1 DEF SameOrder, Outcome
<1>3. Serving' = Serving
  BY DEF Serving, Alive
<1>4. queue'[c] = s
  BY DEF IInv, TypeOK
<1>5. Neat(c, s)
  <2>1. Neat(c, queue'[c])
    BY DEF IInv, Neatness, Neat, SoftAt
  <2> QED BY <1>4, <2>1
<1>6. Accounted(c, s)
  <2>1. AllReported(c, s)
    BY <1>1 DEF AllReported, Outcome
  <2>2. OnlyReported(c, s)
    BY <1>1 DEF OnlyReported, Outcome
  <2>3. DirectedLeaves(c, s)
    BY <1>1 DEF DirectedLeaves, Outcome
  <2> QED BY <2>1, <2>2, <2>3 DEF Accounted
<1>7. PromiseStep
  <2>1. CASE Directs(s) = Directs(q)
    <3>1. HeldDirected' = HeldDirected /\ AheadOf' = AheadOf
      BY <1>1, <1>2, <1>5, <2>1, NothingSeen
    <3> QED BY <1>3, <3>1, PromiseStutters
  <2>2. ASSUME NEW m \in Messages \ Directs(q), Chan[m] = c, Directs(s) = Directs(q) \cup {m}
        PROVE  PromiseStep
    <3>1. /\ m \notin HeldDirected /\ HeldDirected' = HeldDirected \cup {m}
          /\ Promise!Among(HeldDirected, AheadOf') = AheadOf
      BY <1>1, <1>2, <1>5, <2>2, Accepted
    <3> QED BY <1>3, <2>2, <3>1, PromiseAccepts
  <2> QED BY <2>1, <2>2 DEF Outcome
<1>8. EntriesKept /\ EntriesReported
  BY <1>6, AccountedSuffices
<1> QED BY <1>7, <1>8 DEF Refined

LEMMA SubmitRefines ==
  ASSUME IInv, IInv', NEW m \in Messages, NEW d \in BOOLEAN, Submit(m, d)
  PROVE  Refined
<1> DEFINE c == Chan[m]
           out == outstanding - Cardinality(StaleAt(queue[c]))
           gone == Reports(queue[c], StaleAt(queue[c]), "stale")
<1>1. PICK q \in Kept(queue[c], Fresh(queue[c])) :
         \/ SubmitRunning(c, m, q, out, gone)
         \/ SubmitWaiting(c, m, d, q, out, gone)
         \/ ~d /\ SubmitCoalesced(c, m, q, out, gone)
         \/ SubmitAppended(c, m, d, q, out, gone)
         \/ SubmitEvicting(c, m, d, q, out, gone)
         \/ SubmitRefused(c, m, d, q, out, gone)
  BY DEF Submit
<1>2. c \in Channels /\ ~paused /\ ~closing /\ UNCHANGED <<running, reply, paused, closing>>
  BY ConstantsAssumption DEF Submit
<1>3. /\ q \in Seq(Entry) /\ Neat(c, q) /\ running[c] \notin Waiting(q)
      /\ Directs(q) \subseteq Waiting(q)
  BY <1>2, Expired
<1>4. NewEntry(m, d) \in Entry /\ NewEntry(m, d).msg = m /\ NewEntry(m, d).directed = d
  BY ConstantsAssumption DEF NewEntry, Entry
<1>5. /\ \A i \in DOMAIN q : q[i] \in Entry /\ Chan[q[i].msg] = c /\ q[i].msg \in Waiting(q)
      /\ \A S : SameOrder(S, q, q)
  BY <1>3, Indices, ElementOfSeq DEF Neat, Waiting, SameOrder
<1> HIDE DEF c, gone, out
<1>6. CASE SubmitRunning(c, m, q, out, gone)
  <2>1. queue' = [queue EXCEPT ![c] = q] /\ dropped' = gone \cup {}
    BY <1>6 DEF SubmitRunning
  <2>2. Outcome(c, q, q, {})
    BY <1>5 DEF Outcome
  <2> QED BY <1>2, <1>3, <2>1, <2>2, OutcomeRefines DEF gone
<1>7. CASE SubmitWaiting(c, m, d, q, out, gone)
  <2>1. PICK i \in DOMAIN q :
          /\ q[i].msg = m
          /\ queue' = [queue EXCEPT ![c] = [q EXCEPT ![i] =
               [NewEntry(m, q[i].directed \/ d) EXCEPT
                  !.burst = IF q[i].burst # {} THEN q[i].burst ELSE @]]]
    BY <1>7 DEF SubmitWaiting
  <2> DEFINE e == [NewEntry(m, q[i].directed \/ d) EXCEPT
                     !.burst = IF q[i].burst # {} THEN q[i].burst ELSE @]
             s == [q EXCEPT ![i] = e]
  <2>2. e \in Entry /\ e.msg = m /\ e.directed = (q[i].directed \/ d)
    BY <1>5, ConstantsAssumption DEF NewEntry, Entry
  <2>3. dropped' = gone \cup {}
    BY <1>7 DEF SubmitWaiting
  <2>4. m \in Waiting(q) /\ (m \in Directs(q) <=> q[i].directed)
    BY <1>3, <1>5, <2>1 DEF Directs, Neat
  <2>7. queue' = [queue EXCEPT ![c] = s] /\ s = [q EXCEPT ![i] = e]
    BY <2>1 DEF e
  <2> HIDE DEF e, s
  <2>5. /\ s \in Seq(Entry) /\ Waiting(s) = Waiting(q)
        /\ Directs(s) = (Directs(q) \ {m}) \cup (IF e.directed THEN {m} ELSE {})
        /\ SameOrder(Waiting(q), q, s)
    <3>0. Replaceable(c, q, i, e)
      BY <1>3, <2>1, <2>2 DEF Replaceable
    <3>1. Replaced(q, i, e, s)
      BY <2>7, <3>0, ReplaceOrder
    <3>2. /\ (Waiting(q) \ {q[i].msg}) \cup {e.msg} = Waiting(q)
          /\ (Waiting(q) \ {q[i].msg}) \cup ({e.msg} \cap Waiting(q)) = Waiting(q)
      BY <2>1, <2>2, <2>4
    <3> QED BY <2>1, <2>2, <3>1, <3>2 DEF Replaced
  <2>6. /\ Directs(q) \subseteq Directs(s) /\ SameOrder(Directs(q), q, s)
        /\ Directs(s) = Directs(q) \/ (m \notin Directs(q) /\ Directs(s) = Directs(q) \cup {m})
    BY <1>3, <2>2, <2>4, <2>5 DEF SameOrder
  <2>8. Chan[m] = c
    BY DEF c
  <2>9. Outcome(c, q, s, {})
    BY <2>5, <2>6, <2>8 DEF Outcome
  <2> QED BY <1>2, <2>3, <2>5, <2>7, <2>9, OutcomeRefines DEF gone
<1>8. CASE ~d /\ SubmitCoalesced(c, m, q, out, gone)
  <2>1. PICK i \in SoftAt(q), b \in SUBSET Messages :
          /\ queue' = [queue EXCEPT ![c] = [q EXCEPT ![i] = [NewEntry(m, FALSE) EXCEPT !.burst = b]]]
          /\ dropped' = gone \cup Reports(q, {i}, "superseded")
    <3>1. PICK i \in SoftAt(q) :
            LET older == IF q[i].burst = {} THEN {q[i].msg} ELSE q[i].burst
                newer == IF WatchBurst[m] = {} THEN {m} ELSE WatchBurst[m]
            IN /\ queue' = [queue EXCEPT ![c] = [q EXCEPT ![i] =
                              [NewEntry(m, FALSE) EXCEPT !.burst = older \cup newer]]]
               /\ dropped' = gone \cup Reports(q, {i}, "superseded")
      BY <1>8 DEF SubmitCoalesced
    <3>2. q[i].msg \in Messages /\ q[i].burst \in SUBSET Messages
      BY <1>5 DEF SoftAt, Entry
    <3>3. WatchBurst[m] \in SUBSET Messages
      BY ConstantsAssumption
    <3> QED BY <3>1, <3>2, <3>3, ZenonT(60)
  <2> DEFINE e == [NewEntry(m, FALSE) EXCEPT !.burst = b]
             s == [q EXCEPT ![i] = e]
  <2>2. e \in Entry /\ e.msg = m /\ e.directed = FALSE /\ i \in DOMAIN q /\ ~q[i].directed
    BY DEF NewEntry, Entry, SoftAt
  <2>3. m \notin Waiting(q) /\ running[c] # m
    BY <1>8 DEF SubmitCoalesced
  <2>4. queue' = [queue EXCEPT ![c] = s] /\ s = [q EXCEPT ![i] = e]
    BY <2>1
  <2> HIDE DEF e, s
  <2>5. /\ s \in Seq(Entry)
        /\ Waiting(s) = (Waiting(q) \ {q[i].msg}) \cup {m}
        /\ Directs(s) = (Directs(q) \ {q[i].msg}) \cup (IF e.directed THEN {m} ELSE {})
        /\ SameOrder((Waiting(q) \ {q[i].msg}) \cup ({m} \cap Waiting(q)), q, s)
    <3>0. Replaceable(c, q, i, e)
      BY <1>3, <2>2, <2>3 DEF Replaceable
    <3>1. Replaced(q, i, e, s)
      BY <2>4, <3>0, ReplaceOrder
    <3> QED BY <2>2, <3>1 DEF Replaced
  <2>6. q[i].msg \notin Directs(q)
    BY <1>3, <2>2 DEF Directs, Neat
  <2>7. Directs(s) = Directs(q) /\ SameOrder(Directs(q), q, s)
    BY <1>3, <2>2, <2>5, <2>6 DEF SameOrder
  <2>8. q[i].msg \notin Waiting(s) \cup {running[c]} /\ Chan[q[i].msg] = c
    BY <1>3, <1>5, <2>2, <2>3, <2>5
  <2>9. /\ \A r \in Reports(q, {i}, "superseded") : r.msg = q[i].msg
        /\ \A x \in Waiting(q) \ Waiting(s) : x \in {r.msg : r \in Reports(q, {i}, "superseded")}
    <3>1. \A x \in Waiting(q) \ Waiting(s) : x = q[i].msg
      BY <2>5
    <3>2. /\ \A r \in Reports(q, {i}, "superseded") : r.msg = q[i].msg
          /\ q[i].msg \in {r.msg : r \in Reports(q, {i}, "superseded")}
      BY ReportNames
    <3> QED BY <3>1, <3>2
  <2>10. Outcome(c, q, s, Reports(q, {i}, "superseded"))
    BY <2>7, <2>8, <2>9 DEF Outcome
  <2> QED BY <1>2, <2>1, <2>4, <2>5, <2>10, OutcomeRefines DEF gone
<1>9. CASE SubmitAppended(c, m, d, q, out, gone)
  <2> DEFINE s == Append(q, NewEntry(m, d))
  <2>1. m \notin Waiting(q) /\ queue' = [queue EXCEPT ![c] = s] /\ dropped' = gone \cup {}
    BY <1>9 DEF SubmitAppended, Unknown
  <2>2. /\ s \in Seq(Entry) /\ Waiting(s) = Waiting(q) \cup {m}
        /\ Directs(s) = Directs(q) \cup (IF d THEN {m} ELSE {})
        /\ SameOrder(Waiting(q), q, s)
    BY <1>3, <1>4, <2>1, AppendOrder
  <2> HIDE DEF s
  <2>3. /\ Directs(q) \subseteq Directs(s) /\ SameOrder(Directs(q), q, s) /\ m \notin Directs(q)
        /\ Directs(s) = Directs(q) \/ Directs(s) = Directs(q) \cup {m}
    BY <1>3, <2>1, <2>2 DEF SameOrder
  <2>4. Chan[m] = c /\ Waiting(q) \ Waiting(s) = {}
    BY <2>2 DEF c
  <2>5. Outcome(c, q, s, {})
    BY <2>3, <2>4 DEF Outcome
  <2> QED BY <1>2, <2>1, <2>2, <2>5, OutcomeRefines DEF gone
<1>10. CASE SubmitEvicting(c, m, d, q, out, gone)
  <2> PICK i \in SoftAt(q) :
        /\ \E left \in Kept(q, DOMAIN q \ {i}) :
             queue' = [queue EXCEPT ![c] = Append(left, NewEntry(m, d))]
        /\ dropped' = gone \cup Reports(q, {i}, "queue full")
    BY <1>10 DEF SubmitEvicting
  <2>1. PICK left \in Kept(q, DOMAIN q \ {i}) :
          queue' = [queue EXCEPT ![c] = Append(left, NewEntry(m, d))]
    OBVIOUS
  <2>2. i \in DOMAIN q /\ ~q[i].directed /\ m \notin Waiting(q) /\ running[c] # m
    BY <1>10 DEF SubmitEvicting, Unknown, SoftAt
  <2>3. /\ left \in Seq(Entry)
        /\ Waiting(left) = {q[k].msg : k \in DOMAIN q \ {i}}
        /\ Directs(left) = {q[k].msg : k \in {n \in DOMAIN q \ {i} : q[n].directed}}
        /\ SameOrder(Waiting(left), q, left)
    BY <1>3, KeptOrder
  <2>4. Waiting(left) = Waiting(q) \ {q[i].msg} /\ Directs(left) = Directs(q)
    <3>1. Waiting(left) = Waiting(q) \ {q[i].msg}
      <4>1. \A k \in DOMAIN q : q[k].msg = q[i].msg <=> k = i
        BY <1>3, <2>2 DEF Neat
      <4>2. Waiting(q) = {q[k].msg : k \in DOMAIN q}
        BY DEF Waiting
      <4> QED BY <2>2, <2>3, <4>1, <4>2
    <3>2. {n \in DOMAIN q \ {i} : q[n].directed} = {n \in DOMAIN q : q[n].directed}
      BY <2>2
    <3>3. Directs(left) = Directs(q)
      BY <2>3, <3>2 DEF Directs
    <3> QED BY <3>1, <3>3
  <2> DEFINE s == Append(left, NewEntry(m, d))
  <2>5. /\ s \in Seq(Entry) /\ Waiting(s) = Waiting(left) \cup {m}
        /\ Directs(s) = Directs(left) \cup (IF d THEN {m} ELSE {})
        /\ SameOrder(Waiting(left), left, s)
    BY <1>4, <2>2, <2>3, <2>4, AppendOrder, ZenonT(60)
  <2>6. queue' = [queue EXCEPT ![c] = s]
    BY <2>1
  <2> HIDE DEF s
  <2>7. Directs(q) \subseteq Waiting(left)
    BY <2>4 DEF Directs, Waiting
  <2>8. /\ Directs(q) \subseteq Directs(s) /\ SameOrder(Directs(q), q, s) /\ m \notin Directs(q)
        /\ Directs(s) = Directs(q) \/ Directs(s) = Directs(q) \cup {m}
    BY <1>3, <2>2, <2>3, <2>4, <2>5, <2>7 DEF SameOrder
  <2>9. /\ \A r \in Reports(q, {i}, "queue full") : r.msg = q[i].msg
        /\ \A x \in Waiting(q) \ Waiting(s) : x \in {r.msg : r \in Reports(q, {i}, "queue full")}
    <3>1. \A x \in Waiting(q) \ Waiting(s) : x = q[i].msg
      BY <2>4, <2>5
    <3>2. /\ \A r \in Reports(q, {i}, "queue full") : r.msg = q[i].msg
          /\ q[i].msg \in {r.msg : r \in Reports(q, {i}, "queue full")}
      BY ReportNames
    <3> QED BY <3>1, <3>2
  <2>10. \A r \in Reports(q, {i}, "queue full") :
            r.msg \notin Waiting(s) \cup {running[c]} /\ Chan[r.msg] = c
    BY <1>3, <1>5, <2>2, <2>4, <2>5, <2>9
  <2>11. Chan[m] = c
    BY DEF c
  <2>12. Outcome(c, q, s, Reports(q, {i}, "queue full"))
    BY <2>8, <2>9, <2>10, <2>11 DEF Outcome
  <2> QED BY <1>2, <2>5, <2>6, <2>12, OutcomeRefines DEF gone
<1>11. CASE SubmitRefused(c, m, d, q, out, gone)
  <2>1. PICK why \in Reasons :
          /\ queue' = [queue EXCEPT ![c] = q]
          /\ dropped' = gone \cup {[msg |-> m, directed |-> d, why |-> why]}
          /\ m \notin Waiting(q) /\ running[c] # m
    BY <1>11 DEF SubmitRefused, Unknown, Reasons
  <2>2. \A r \in {[msg |-> m, directed |-> d, why |-> why]} :
          r.msg \notin Waiting(q) \cup {running[c]} /\ Chan[r.msg] = c
    BY <2>1 DEF c
  <2>3. Outcome(c, q, q, {[msg |-> m, directed |-> d, why |-> why]})
    BY <1>5, <2>2 DEF Outcome
  <2> QED BY <1>2, <1>3, <2>1, <2>3, OutcomeRefines DEF gone
<1> QED BY <1>1, <1>6, <1>7, <1>8, <1>9, <1>10, <1>11 DEF c, gone, out

-----------------------------------------------------------------------------
(* The pump and its reply.                                                  *)

LEMMA PromiseCalls ==
  ASSUME NEW c \in Channels, NEW m \in Messages, Chan[m] = c,
         ~paused, ~closing, Serving[c] = None,
         \A a \in HeldDirected : <<a, m>> \notin AheadOf,
         Serving' = [Serving EXCEPT ![c] = m],
         HeldDirected' = HeldDirected \ {m},
         AheadOf' = Promise!Among(HeldDirected', AheadOf),
         UNCHANGED <<paused, closing>>
  PROVE  PromiseStep
BY DEF PromiseStep, Promise!Next, Promise!Call, Serving

LEMMA PromiseFinishes ==
  ASSUME NEW c \in Channels, Serving[c] # None,
         Serving' = [Serving EXCEPT ![c] = None],
         HeldDirected' = HeldDirected, AheadOf' = AheadOf,
         UNCHANGED <<paused, closing>>
  PROVE  PromiseStep
BY DEF PromiseStep, Promise!Next, Promise!Finish, Serving

LEMMA PromiseShuts ==
  ASSUME paused' \/ closing',
         HeldDirected' = HeldDirected, AheadOf' = AheadOf, Serving' = Serving
  PROVE  PromiseStep
BY DEF PromiseStep, Promise!Next, Promise!Shut, Serving

\* The queues stay: so do the held messages and their order.
LEMMA ViewStays ==
  ASSUME UNCHANGED queue
  PROVE  HeldDirected' = HeldDirected /\ AheadOf' = AheadOf
<1>1. HeldDirected' = HeldDirected
  BY DEF HeldDirected
<1> QED BY <1>1 DEF AheadOf

\* The pump ends with the queue q, of which nothing directed is missing.
LEMMA LeaveRefines ==
  ASSUME IInv, NEW c \in Channels, ~Alive(c),
         NEW q \in Seq(Entry), NEW out, NEW gone, Neat(c, q),
         Directs(q) = Directs(queue[c]), SameOrder(Directs(queue[c]), queue[c], q),
         \A m \in Waiting(queue[c]) \ Waiting(q) : m \in {r.msg : r \in gone},
         \A r \in gone : r.why = "stale",
         Leave(c, q, out, gone), UNCHANGED <<paused, closing>>
  PROVE  Refined
<1>1. /\ queue' = [queue EXCEPT ![c] = q] /\ dropped' = gone
      /\ running' = [running EXCEPT ![c] = None]
      /\ reply' = [reply EXCEPT ![c] = "none"]
  BY DEF Leave
<1>2. HeldDirected' = HeldDirected /\ AheadOf' = AheadOf
  BY <1>1, NothingSeen
<1>3. Serving' = Serving
  <2>1. /\ reply'[c] = "none"
        /\ \A d \in Channels \ {c} : reply'[d] = reply[d] /\ running'[d] = running[d]
    BY <1>1 DEF IInv, TypeOK
  <2>2. \A d \in Channels : (IF Alive(d)' THEN running'[d] ELSE None) =
                             (IF Alive(d) THEN running[d] ELSE None)
    BY <2>1 DEF Alive
  <2> QED BY <2>2 DEF Serving, Alive
<1>4. Accounted(c, q)
  <2>1. AllReported(c, q) /\ OnlyReported(c, q)
    BY <1>1 DEF AllReported, OnlyReported
  <2>2. Directs(queue[c]) \subseteq Waiting(q)
    BY DEF Directs, Waiting
  <2> QED BY <2>1, <2>2 DEF Accounted, DirectedLeaves
<1>5. EntriesKept /\ EntriesReported
  <2>1. \A d \in Channels \ {c} : running'[d] = running[d]
    BY <1>1 DEF IInv, TypeOK
  <2> QED BY <1>1, <1>4, <2>1, AccountedSuffices
<1>6. PromiseStep
  BY <1>2, <1>3, PromiseStutters
<1> QED BY <1>5, <1>6 DEF Refined

\* The head of what expiry left is called: nobody directed was before it.
LEMMA StartRefines ==
  ASSUME IInv, NEW c \in Channels, ~Alive(c), ~paused, ~closing,
         NEW q \in Kept(queue[c], Fresh(queue[c])), q # <<>>, NEW out,
         StartTurn(c, q, out, Reports(queue[c], StaleAt(queue[c]), "stale")),
         UNCHANGED <<paused, closing>>
  PROVE  Refined
<1> DEFINE gone == Reports(queue[c], StaleAt(queue[c]), "stale")
           m == Head(q).msg
           t == Tail(q)
<1>1. /\ queue' = [queue EXCEPT ![c] = t] /\ dropped' = gone
      /\ running' = [running EXCEPT ![c] = m]
      /\ reply' = [reply EXCEPT ![c] = "active"]
  BY DEF StartTurn
<1>2. /\ q \in Seq(Entry) /\ Neat(c, q) /\ running[c] \notin Waiting(q)
      /\ Directs(q) = Directs(queue[c]) /\ SameOrder(Directs(queue[c]), queue[c], q)
      /\ \A x \in Waiting(queue[c]) \ Waiting(q) : x \in {r.msg : r \in gone}
      /\ \A r \in gone : r.why = "stale"
  BY Expired
<1>3. /\ t \in Seq(Entry) /\ Head(q) \in Entry
      /\ Waiting(t) = Waiting(q) \ {m}
      /\ Directs(t) = Directs(queue[c]) \ {m}
      /\ SameOrder(Waiting(t), q, t)
      /\ \A a : ~Before(q, a, m)
      /\ Neat(c, t)
  BY <1>2, TailOrder
<1>5. m \in Messages /\ m \in Waiting(q) /\ Chan[m] = c
  <2>1. 1 \in DOMAIN q /\ Head(q) = q[1]
    BY <1>2, Indices, LenProperties
  <2> QED BY <1>2, <1>3, <2>1 DEF Entry, Waiting, Neat
<1> HIDE DEF m, t, gone
<1>6. SameOrder(Directs(t), queue[c], t)
  <2>1. Directs(t) \subseteq Waiting(t) /\ Directs(t) \subseteq Directs(queue[c])
    BY <1>3 DEF Directs, Waiting
  <2> QED BY <1>2, <1>3, <2>1 DEF SameOrder
<1>7. /\ HeldDirected' = HeldDirected \ {m}
      /\ AheadOf' = Promise!Among(HeldDirected', AheadOf)
  <2>1. /\ HeldDirected' = HeldDirected \ (Directs(queue[c]) \ Directs(t))
        /\ AheadOf' = Promise!Among(HeldDirected', AheadOf)
    BY <1>1, <1>3, <1>6, Withdrawn
  <2>2. m \in HeldDirected <=> m \in Directs(queue[c])
    BY <1>5, HeldByChannel
  <2>3. \A x \in HeldDirected : x \in Directs(queue[c]) \ Directs(t) <=> x = m
    BY <1>3, <2>2
  <2> QED BY <2>1, <2>3
<1>8. \A a \in HeldDirected : <<a, m>> \notin AheadOf
  <2> SUFFICES ASSUME NEW a \in HeldDirected, <<a, m>> \in AheadOf PROVE FALSE
    OBVIOUS
  <2>1. /\ a \in HeldDirected /\ m \in HeldDirected /\ Chan[a] = c
        /\ Before(queue[c], a, m)
    BY <1>5, AheadByChannel
  <2>2. a \in Directs(queue[c]) /\ m \in Directs(queue[c])
    BY <1>5, <2>1, HeldByChannel
  <2>3. Before(q, a, m)
    BY <1>2, <2>1, <2>2 DEF SameOrder
  <2> QED BY <1>3, <2>3
<1>9. Serving[c] = None /\ Serving' = [Serving EXCEPT ![c] = m]
  <2>1. /\ reply'[c] = "active" /\ running'[c] = m
        /\ \A d \in Channels \ {c} : reply'[d] = reply[d] /\ running'[d] = running[d]
    BY <1>1 DEF IInv, TypeOK
  <2>2. \A d \in Channels : (IF Alive(d)' THEN running'[d] ELSE None) =
                             (IF d = c THEN m ELSE IF Alive(d) THEN running[d] ELSE None)
    BY <2>1 DEF Alive
  <2> QED BY <2>2 DEF Serving, Alive
<1>10. PromiseStep
  BY <1>5, <1>7, <1>8, <1>9, PromiseCalls
<1>11. Accounted(c, t)
  <2>1. running'[c] = m /\ running[c] # m
    BY <1>1, <1>2, <1>5 DEF IInv, TypeOK
  <2>2. AllReported(c, t)
    BY <1>1, <1>2, <1>3, <2>1 DEF AllReported
  <2>3. OnlyReported(c, t)
    BY <1>1, <1>2 DEF OnlyReported
  <2>4. Directs(t) \subseteq Waiting(t)
    BY DEF Directs, Waiting
  <2>5. DirectedLeaves(c, t)
    BY <1>3, <2>1, <2>4 DEF DirectedLeaves
  <2> QED BY <2>2, <2>3, <2>5 DEF Accounted
<1>12. EntriesKept /\ EntriesReported
  <2>1. \A d \in Channels \ {c} : running'[d] = running[d]
    BY <1>1 DEF IInv, TypeOK
  <2> QED BY <1>1, <1>3, <1>11, <2>1, AccountedSuffices
<1> QED BY <1>10, <1>12 DEF Refined

\* Leaving the queue as it is.
LEMMA LeaveAllRefines ==
  ASSUME IInv, NEW c \in Channels, ~Alive(c), NEW out,
         Leave(c, queue[c], out, {}), UNCHANGED <<paused, closing>>
  PROVE  Refined
<1>1. /\ queue[c] \in Seq(Entry) /\ Neat(c, queue[c])
      /\ SameOrder(Directs(queue[c]), queue[c], queue[c])
  BY DEF IInv, TypeOK, Neatness, SameOrder
<1> QED BY <1>1, LeaveRefines

LEMMA NextTurnRefines ==
  ASSUME IInv, NEW c \in Channels, ~Alive(c), NEW out,
         NextTurn(c, out), UNCHANGED <<paused, closing>>
  PROVE  Refined
<1>1. CASE Leave(c, queue[c], out, {})
  BY <1>1, LeaveAllRefines
<1>2. ASSUME ~closing, ~paused, NEW q \in Kept(queue[c], Fresh(queue[c])), NEW left,
             \/ q = <<>> /\ Leave(c, q, left, Reports(queue[c], StaleAt(queue[c]), "stale"))
             \/ q # <<>> /\ StartTurn(c, q, left, Reports(queue[c], StaleAt(queue[c]), "stale"))
      PROVE  Refined
  <2>1. CASE Leave(c, q, left, Reports(queue[c], StaleAt(queue[c]), "stale"))
    <3>1. /\ q \in Seq(Entry) /\ Neat(c, q)
          /\ Directs(q) = Directs(queue[c]) /\ SameOrder(Directs(queue[c]), queue[c], q)
          /\ \A m \in Waiting(queue[c]) \ Waiting(q) :
               m \in {r.msg : r \in Reports(queue[c], StaleAt(queue[c]), "stale")}
          /\ \A r \in Reports(queue[c], StaleAt(queue[c]), "stale") : r.why = "stale"
      BY Expired
    <3> QED BY <2>1, <3>1, LeaveRefines
  <2>2. CASE q # <<>> /\ StartTurn(c, q, left, Reports(queue[c], StaleAt(queue[c]), "stale"))
    BY <1>2, <2>2, StartRefines
  <2> QED BY <1>2, <2>1, <2>2
<1> QED BY <1>1, <1>2 DEF NextTurn

LEMMA PumpRefines ==
  ASSUME IInv, NEW c \in Channels, PumpStep(c)
  PROVE  Refined
<1>1. CASE PumpStarts(c)
  <2>1. ~Alive(c)
    BY <1>1 DEF PumpStarts, IInv, Ownership, Alive
  <2> QED BY <1>1, <2>1, NextTurnRefines DEF PumpStarts
<1>2. CASE PumpNeverStarts(c)
  <2>1. Serving' = Serving /\ UNCHANGED <<queue, paused, closing>> /\ dropped' = {}
    BY <1>2 DEF PumpNeverStarts, Serving, Alive
  <2> QED BY <2>1, ViewStays, PromiseStutters, NothingAccounted DEF Refined
<1>3. CASE PumpResumes(c)
  <2>1. ~Alive(c)
    BY <1>3 DEF PumpResumes, Done, Alive
  <2> QED BY <1>3, <2>1, NextTurnRefines, LeaveAllRefines DEF PumpResumes
<1>4. CASE PumpCancelled(c)
  <2>1. CASE Done(c)
    <3>1. ~Alive(c)
      BY <2>1 DEF Done, Alive
    <3> QED BY <1>4, <3>1, LeaveAllRefines DEF PumpCancelled
  <2>2. CASE ~Done(c)
    <3>1. /\ Alive(c) /\ reply' = [reply EXCEPT ![c] = "stopping"]
          /\ dropped' = {} /\ UNCHANGED <<queue, running, paused, closing>>
      BY <1>4, <2>2 DEF PumpCancelled
    <3>2. \A d \in Channels : Alive(d)' <=> Alive(d)
      BY <3>1 DEF Alive, IInv, TypeOK
    <3>3. Serving' = Serving
      BY <3>1, <3>2 DEF Serving, Alive
    <3> QED BY <3>1, <3>3, ViewStays, PromiseStutters, NothingAccounted DEF Refined
  <2> QED BY <2>1, <2>2
<1>5. CASE PumpStops(c)
  <2>1. ~Alive(c)
    BY <1>5 DEF PumpStops, Done, Alive
  <2> QED BY <1>5, <2>1, LeaveAllRefines DEF PumpStops
<1> QED BY <1>1, <1>2, <1>3, <1>4, <1>5 DEF PumpStep

LEMMA ReplyRefines ==
  ASSUME IInv, NEW c \in Channels, ReplyEnds(c)
  PROVE  Refined
<1>1. PICK how \in {"ended", "cancelled"} : reply' = [reply EXCEPT ![c] = how]
  BY DEF ReplyEnds
<1>2. dropped' = {} /\ Alive(c) /\ UNCHANGED <<queue, running, paused, closing>>
  BY DEF ReplyEnds
<1>3. Serving[c] # None
  BY <1>2 DEF Serving, Alive, IInv, Ownership
<1>4. Serving' = [Serving EXCEPT ![c] = None]
  <2>1. \A d \in Channels : (IF Alive(d)' THEN running'[d] ELSE None) =
                             (IF d = c THEN None ELSE IF Alive(d) THEN running[d] ELSE None)
    BY <1>1, <1>2 DEF Alive, IInv, TypeOK
  <2> QED BY <2>1 DEF Serving, Alive
<1>5. PromiseStep
  BY <1>2, <1>3, <1>4, ViewStays, PromiseFinishes
<1> QED BY <1>2, <1>5, NothingAccounted DEF Refined

-----------------------------------------------------------------------------
(* The other calls, and time.                                              *)

\* What is dropped leaves no gap in the order, and every drop has its report.
LEMMA DropRefines ==
  ASSUME IInv, NEW c \in Channels, NEW K \in SUBSET DOMAIN queue[c], NEW why,
         DropRest(c, K, why),
         \/ why \in {"channel cleared", "same_user_interrupt"}
         \/ DOMAIN queue[c] \ K \subseteq SoftAt(queue[c]),
         Serving' = Serving, UNCHANGED <<running, paused, closing>>
  PROVE  Refined
<1> DEFINE lost == DOMAIN queue[c] \ K
<1>1. PICK q \in Kept(queue[c], K) : queue' = [queue EXCEPT ![c] = q]
  BY DEF DropRest
<1>2. queue[c] \in Seq(Entry) /\ Neat(c, queue[c]) /\ running[c] \notin Waiting(queue[c])
  BY DEF IInv, TypeOK, Neatness
<1>3. /\ q \in Seq(Entry)
      /\ Waiting(q) = {queue[c][i].msg : i \in K}
      /\ Directs(q) = {queue[c][i].msg : i \in {k \in K : queue[c][k].directed}}
      /\ SameOrder(Waiting(q), queue[c], q)
  BY <1>2, KeptOrder
<1>4. Neat(c, q) /\ Waiting(q) \subseteq Waiting(queue[c])
  BY <1>2, KeptNeat
<1>5. /\ \A i \in lost : queue[c][i].msg \in {r.msg : r \in dropped'}
      /\ \A r \in dropped' : r.why = why /\ \E i \in lost : r.msg = queue[c][i].msg
  <2>1. dropped' = Reports(queue[c], lost, why)
    BY DEF DropRest
  <2> HIDE DEF lost
  <2>2. Naming(Reports(queue[c], lost, why), queue[c], lost, why)
    BY ReportsName
  <2>3. Naming(dropped', queue[c], lost, why)
    BY <2>1, <2>2
  <2> QED BY <2>3 DEF Naming
<1>6. Directs(q) \subseteq Directs(queue[c]) /\ SameOrder(Directs(q), queue[c], q)
  BY <1>3 DEF Directs, Waiting, SameOrder
<1>7. PromiseStep
  <2>1. /\ HeldDirected' = HeldDirected \ (Directs(queue[c]) \ Directs(q))
        /\ AheadOf' = Promise!Among(HeldDirected', AheadOf)
    BY <1>1, <1>3, <1>4, <1>6, Withdrawn
  <2>2. Directs(queue[c]) \ Directs(q) \in SUBSET HeldDirected
    BY HeldByChannel
  <2> QED BY <2>1, <2>2, PromiseWithdraws
<1>8. \A m \in Waiting(queue[c]) \ Waiting(q) : \E i \in lost : m = queue[c][i].msg
  BY <1>3 DEF Waiting
<1>9. \A i \in lost : /\ queue[c][i].msg \notin Waiting(q) \cup {running[c]}
                     /\ Chan[queue[c][i].msg] = c
  BY <1>2, <1>3, ZenonT(60) DEF Neat, Waiting
<1>10. Accounted(c, q)
  <2> HIDE DEF lost
  <2>1. AllReported(c, q)
    BY <1>5, <1>8 DEF AllReported
  <2>2. OnlyReported(c, q)
    BY <1>5, <1>9 DEF OnlyReported
  <2>3. DirectedLeaves(c, q)
    <3> SUFFICES ASSUME NEW m \in Directs(queue[c]) \ Waiting(q)
                 PROVE  \E r \in dropped' : /\ r.msg = m
                                            /\ r.why \in {"channel cleared", "same_user_interrupt"}
      BY DEF DirectedLeaves
    <3>1. PICK i \in DOMAIN queue[c] : m = queue[c][i].msg /\ queue[c][i].directed
      BY DEF Directs
    <3>2. i \in lost
      BY <1>3, <3>1 DEF lost
    <3>3. why \in {"channel cleared", "same_user_interrupt"}
      BY <3>1, <3>2 DEF SoftAt, lost
    <3>4. PICK r \in dropped' : r.msg = m
      BY <1>5, <3>1, <3>2, ZenonT(60)
    <3> QED BY <1>5, <3>3, <3>4
  <2> QED BY <2>1, <2>2, <2>3 DEF Accounted
<1>11. EntriesKept /\ EntriesReported
  BY <1>1, <1>3, <1>10, AccountedSuffices
<1> QED BY <1>7, <1>11 DEF Refined

LEMMA CancelRefines ==
  ASSUME IInv, NEW c \in Channels, NEW clear \in BOOLEAN, CancelChannel(c, clear)
  PROVE  Refined
<1> DEFINE K == IF clear THEN {} ELSE DOMAIN queue[c]
<1>1. /\ K \in SUBSET DOMAIN queue[c] /\ DropRest(c, K, "channel cleared")
      /\ UNCHANGED <<running, paused, closing>>
  BY DEF CancelChannel
<1>2. \A d \in Channels : Alive(d)' <=> Alive(d)
  BY DEF CancelChannel, StopReply, Alive, IInv, TypeOK
<1>3. Serving' = Serving
  BY <1>1, <1>2 DEF Serving, Alive
<1> HIDE DEF K
<1> QED BY <1>1, <1>3, DropRefines

LEMMA AuthorRefines ==
  ASSUME IInv, NEW c \in Channels, NEW a, DropAuthor(c, a)
  PROVE  Refined
<1> DEFINE K == {i \in DOMAIN queue[c] :
                   Author[queue[c][i].msg] # a \/ queue[c][i].msg \in Protected}
<1>1. /\ K \in SUBSET DOMAIN queue[c] /\ DropRest(c, K, "same_user_interrupt")
      /\ UNCHANGED <<running, reply, paused, closing>>
  BY DEF DropAuthor
<1>2. Serving' = Serving
  BY <1>1 DEF Serving, Alive
<1> HIDE DEF K
<1> QED BY <1>1, <1>2, DropRefines

LEMMA SoftRefines ==
  ASSUME IInv, NEW c \in Channels, DropSoft(c)
  PROVE  Refined
<1> DEFINE K == DOMAIN queue[c] \ SoftAt(queue[c])
<1>1. /\ K \in SUBSET DOMAIN queue[c] /\ DropRest(c, K, "interrupted")
      /\ DOMAIN queue[c] \ K \subseteq SoftAt(queue[c])
      /\ UNCHANGED <<running, reply, paused, closing>>
  BY DEF DropSoft
<1>2. Serving' = Serving
  BY <1>1 DEF Serving, Alive
<1> HIDE DEF K
<1> QED BY <1>1, <1>2, DropRefines

\* An entry that grows old keeps its message and its place.
LEMMA AgeRefines ==
  ASSUME IInv, NEW c \in Channels, NEW i \in DOMAIN queue[c], Age(c, i)
  PROVE  Refined
<1> DEFINE e == [queue[c][i] EXCEPT !.stale = TRUE]
           s == [queue[c] EXCEPT ![i] = e]
<1>1. /\ queue \in [Channels -> Seq(Entry)] /\ queue[c] \in Seq(Entry)
      /\ Neat(c, queue[c])
  BY DEF IInv, TypeOK, Neatness
<1>2. queue[c][i] \in Entry
  BY <1>1, Indices, ElementOfSeq
<1>3. e \in Entry /\ e.msg = queue[c][i].msg /\ e.directed = queue[c][i].directed
  BY <1>2 DEF Entry
<1>4. /\ queue' = [queue EXCEPT ![c] = s] /\ dropped' = {}
      /\ UNCHANGED <<running, reply, paused, closing>>
  BY DEF Age
<1>5. /\ s \in Seq(Entry) /\ DOMAIN s = DOMAIN queue[c]
      /\ \A k \in DOMAIN s : s[k].msg = queue[c][k].msg /\ s[k].directed = queue[c][k].directed
  BY <1>1, <1>3, Indices
<1> HIDE DEF e, s
<1>6. Directs(s) = Directs(queue[c]) /\ Waiting(s) = Waiting(queue[c])
  BY <1>5 DEF Directs, Waiting
<1>7. SameOrder(Directs(queue[c]), queue[c], s)
  BY <1>5 DEF SameOrder, Before
<1>8. Neat(c, s)
  BY <1>1, <1>5 DEF Neat, SoftAt
<1>9. PromiseStep
  <2>1. Serving' = Serving
    BY <1>4 DEF Serving, Alive
  <2> QED BY <1>4, <1>5, <1>6, <1>7, <1>8, <2>1, NothingSeen, PromiseStutters
<1>10. Directs(queue[c]) \subseteq Waiting(s)
  BY <1>6 DEF Directs, Waiting
<1>11. Accounted(c, s)
  BY <1>4, <1>6, <1>10 DEF Accounted, AllReported, OnlyReported, DirectedLeaves
<1>12. EntriesKept /\ EntriesReported
  BY <1>4, <1>5, <1>11, AccountedSuffices
<1> QED BY <1>9, <1>12 DEF Refined

\* The shutdown withdraws what waits, and says so to nobody.
LEMMA ShutdownRefines ==
  ASSUME IInv, ShutdownBegins
  PROVE  Refined
<1>1. /\ queue' = [c \in Channels |-> <<>>] /\ dropped' = {} /\ closeTask' = "gathering"
      /\ UNCHANGED <<running, reply, paused, closing>>
  BY DEF ShutdownBegins
<1>2. \A c \in Channels : queue'[c] = <<>> /\ DOMAIN queue'[c] = {}
  BY <1>1, EmptySeq
<1>3. HeldDirected' = {} /\ AheadOf' = {}
  <2>1. \A m \in Messages : Chan[m] \in Channels
    BY ConstantsAssumption
  <2>2. HeldDirected' = {}
    BY <1>2, <2>1 DEF HeldDirected
  <2> QED BY <2>2 DEF AheadOf
<1>4. Serving' = Serving
  BY <1>1 DEF Serving, Alive
<1>5. PromiseStep
  <2>1. /\ HeldDirected \in SUBSET HeldDirected
        /\ HeldDirected' = HeldDirected \ HeldDirected
        /\ AheadOf' = Promise!Among(HeldDirected', AheadOf)
    BY <1>3 DEF Promise!Among
  <2> QED BY <1>1, <1>4, <2>1, PromiseWithdraws
<1>6. EntriesKept /\ EntriesReported
  BY <1>1 DEF EntriesKept, EntriesReported
<1> QED BY <1>5, <1>6 DEF Refined

\* pause_new, close and the end of the shutdown leave every queue alone.
LEMMA FlagsRefine ==
  ASSUME IInv, PauseNew \/ Close \/ ShutdownEnds
  PROVE  Refined
<1>1. /\ UNCHANGED <<queue, running, reply>> /\ dropped' = {}
      /\ paused' \/ closing' \/ UNCHANGED <<paused, closing>>
  BY DEF PauseNew, Close, ShutdownEnds
<1>2. Serving' = Serving
  BY <1>1 DEF Serving, Alive
<1>3. PromiseStep
  BY <1>1, <1>2, ViewStays, PromiseShuts, PromiseStutters
<1> QED BY <1>1, <1>3, NothingAccounted DEF Refined

-----------------------------------------------------------------------------
LEMMA NextRefines ==
  ASSUME IInv, IInv', Next
  PROVE  Refined
<1>1. CASE \E m \in Messages, d \in BOOLEAN : Submit(m, d)
  BY <1>1, SubmitRefines
<1>2. CASE \E c \in Channels : PumpStep(c) \/ ReplyEnds(c) \/ DropSoft(c)
  BY <1>2, PumpRefines, ReplyRefines, SoftRefines
<1>3. CASE \E c \in Channels, clear \in BOOLEAN : CancelChannel(c, clear)
  BY <1>3, CancelRefines
<1>4. CASE \E c \in Channels, a \in Authors : DropAuthor(c, a)
  BY <1>4, AuthorRefines
<1>5. CASE \E c \in Channels : \E i \in DOMAIN queue[c] : Age(c, i)
  BY <1>5, AgeRefines
<1>6. CASE ShutdownBegins
  BY <1>6, ShutdownRefines
<1>7. CASE PauseNew \/ Close \/ ShutdownEnds
  BY <1>7, FlagsRefine
<1> QED BY <1>1, <1>2, <1>3, <1>4, <1>5, <1>6, <1>7 DEF Next

LEMMA InitPromised == Init => Promise!Init
<1> SUFFICES ASSUME Init PROVE Promise!Init
  OBVIOUS
<1>1. \A c \in Channels : queue[c] = <<>> /\ DOMAIN queue[c] = {} /\ running[c] = None /\ ~Alive(c)
  BY EmptySeq DEF Init, Alive
<1>2. HeldDirected = {} /\ AheadOf = {}
  <2>1. \A m \in Messages : Chan[m] \in Channels
    BY ConstantsAssumption
  <2>2. HeldDirected = {}
    BY <1>1, <2>1 DEF HeldDirected
  <2> QED BY <2>2 DEF AheadOf
<1>3. [c \in Channels |-> IF Alive(c) THEN running[c] ELSE None] = [c \in Channels |-> None]
  BY <1>1
<1>4. (~paused /\ ~closing) = TRUE
  BY DEF Init
<1> QED BY <1>2, <1>3, <1>4 DEF Promise!Init

\* The reply queue keeps the promise of TurnQueue, for any number of channels
\* and messages and for all limits: in each channel directed turns are served
\* one at a time, and none while another directed message that waits there is
\* in front of it, whatever submit, the pump, the drops and the shutdown do.
THEOREM PromiseHolds == Spec => PromiseKept
<1>1. IInv /\ IInv' /\ [Next]_vars => PromiseStep
  <2> SUFFICES ASSUME IInv, IInv', [Next]_vars PROVE PromiseStep
    OBVIOUS
  <2>1. CASE Next
    BY <2>1, NextRefines DEF Refined
  <2>2. CASE UNCHANGED vars
    <3>1. Serving' = Serving /\ UNCHANGED <<queue, paused, closing>>
      BY <2>2 DEF vars, Serving, Alive
    <3> QED BY <3>1, ViewStays, PromiseStutters
  <2> QED BY <2>1, <2>2
<1> QED BY <1>1, InitPromised, Inductive, PTL DEF Spec, PromiseKept, Promise!Spec, PromiseStep

\* A directed entry leaves its queue for its turn, by a cleared channel, by a
\* same-user interrupt or in the shutdown: _expire, _make_room and the
\* coalescing of soft lines never take one.
THEOREM DirectedNeverLost == Spec => DirectedKept
<1>1. IInv /\ IInv' /\ [Next]_vars => [EntriesKept]_vars
  BY NextRefines DEF Refined
<1> QED BY <1>1, Inductive, PTL DEF Spec, DirectedKept, EntriesKept

\* _note_drop hears of every entry that leaves without a turn, but in the
\* shutdown, and of no message that is retained: whoever waits for an outcome
\* gets one, and only one that is true.
THEOREM DropsAlwaysReported == Spec => DropsReported
<1>1. IInv /\ IInv' /\ [Next]_vars => [EntriesReported]_vars
  BY NextRefines DEF Refined
<1> QED BY <1>1, Inductive, PTL DEF Spec, DropsReported, EntriesReported
=============================================================================
