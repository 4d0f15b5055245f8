-------------------------- MODULE EventQueueProofs --------------------------
(***************************************************************************)
(* Lemmas about the operators of EventQueue: what its sequence helpers     *)
(* return, and that every operation of the queue keeps its type and keeps  *)
(* every channel's queue within MaxPending.                                *)
(***************************************************************************)
EXTENDS EventQueue, FiniteSetTheorems, FunctionTheorems, SequenceTheorems, TLAPS

\* A one-to-one numbering of a finite set by 1 .. n uses every number.
LEMMA RankOnto ==
  ASSUME NEW D, IsFiniteSet(D), NEW r \in [D -> 1 .. Cardinality(D)],
         \A i, j \in D : r[i] = r[j] => i = j
  PROVE  \A k \in 1 .. Cardinality(D) : \E i \in D : r[i] = k
<1> DEFINE n == Cardinality(D)
<1>1. n \in Nat
  BY FS_CardinalityType
<1>2. IsFiniteSet(1 .. n) /\ Cardinality(1 .. n) = n
  BY <1>1, FS_Interval
<1>3. r \in Injection(D, 1 .. n)
  BY Fun_IsInj
<1>4. r \in Surjection(D, 1 .. n)
  BY <1>2, <1>3, FS_Injection
<1> QED BY <1>4, Fun_SurjectionProperties

\* Counting, for each member of a finite set, the members that a total order places no
\* later gives such a numbering.
LEMMA CountBelowOnto ==
  ASSUME NEW D, IsFiniteSet(D), NEW B \in [D -> SUBSET D],
         \A i \in D : i \in B[i],
         \A i, j \in D : B[i] \subseteq B[j] \/ B[j] \subseteq B[i],
         \A i, j \in D : B[i] = B[j] => i = j
  PROVE  \A k \in 1 .. Cardinality(D) : \E i \in D : Cardinality(B[i]) = k
<1> DEFINE r == [i \in D |-> Cardinality(B[i])]
<1>1. ASSUME NEW i \in D
      PROVE  IsFiniteSet(B[i]) /\ Cardinality(B[i]) \in 1 .. Cardinality(D)
  <2>1. IsFiniteSet(B[i]) /\ Cardinality(B[i]) <= Cardinality(D)
    BY FS_Subset
  <2>2. Cardinality(B[i]) \in Nat /\ Cardinality(D) \in Nat
    BY <2>1, FS_CardinalityType
  <2>3. Cardinality(B[i]) # 0
    BY <2>1, FS_EmptySet
  <2> QED BY <2>1, <2>2, <2>3
<1>2. ASSUME NEW i \in D, NEW j \in D, Cardinality(B[i]) = Cardinality(B[j])
      PROVE  i = j
  <2>1. CASE B[i] \subseteq B[j]
    BY <1>1, <1>2, <2>1, FS_Subset
  <2>2. CASE B[j] \subseteq B[i]
    BY <1>1, <1>2, <2>2, FS_Subset
  <2> QED BY <2>1, <2>2
<1>3. r \in [D -> 1 .. Cardinality(D)]
  BY <1>1
<1>4. \A i, j \in D : r[i] = r[j] => i = j
  BY <1>2
<1>5. \A k \in 1 .. Cardinality(D) : \E i \in D : r[i] = k
  <2> HIDE DEF r
  <2> QED BY <1>3, <1>4, RankOnto
<1> QED BY <1>5

\* Every position of a sorted batch is the rank of some event.
LEMMA SortPosition ==
  ASSUME NEW s \in Seq(Event), NEW k \in DOMAIN s
  PROVE  \E i \in DOMAIN s : SortRank(s, i) = k
<1> DEFINE B == [i \in DOMAIN s |->
      {j \in DOMAIN s : s[j].at < s[i].at \/ (s[j].at = s[i].at /\ j <= i)}]
<1>1. DOMAIN s = 1 .. Len(s) /\ Len(s) \in Nat /\ \A i \in DOMAIN s : s[i].at \in Nat
  <2>1. DOMAIN s = 1 .. Len(s) /\ Len(s) \in Nat
    BY LenProperties
  <2>2. \A i \in DOMAIN s : s[i] \in Event
    BY <2>1, ElementOfSeq
  <2> QED BY <2>1, <2>2 DEF Event
<1>2. IsFiniteSet(DOMAIN s) /\ Cardinality(DOMAIN s) = Len(s)
  <2>1. Len(s) \in Int /\ 1 \in Int
    BY <1>1
  <2>2. IsFiniteSet(1 .. Len(s)) /\ Cardinality(1 .. Len(s)) = IF 1 > Len(s) THEN 0 ELSE Len(s) - 1 + 1
    BY <2>1, FS_Interval, Zenon
  <2> QED BY <1>1, <2>1, <2>2
<1>3. B \in [DOMAIN s -> SUBSET DOMAIN s]
  OBVIOUS
<1>4. \A i \in DOMAIN s : i \in B[i]
  BY <1>1
<1>5. \A i, j \in DOMAIN s : B[i] \subseteq B[j] \/ B[j] \subseteq B[i]
  BY <1>1
<1>6. \A i, j \in DOMAIN s : B[i] = B[j] => i = j
  BY <1>1
<1>7. \A i \in DOMAIN s : SortRank(s, i) = Cardinality(B[i])
  BY DEF SortRank
<1>8. \E i \in DOMAIN s : Cardinality(B[i]) = k
  <2>1. k \in 1 .. Cardinality(DOMAIN s)
    BY <1>1, <1>2
  <2> HIDE DEF B
  <2> QED BY <1>2, <1>3, <1>4, <1>5, <1>6, <2>1, CountBelowOnto
<1> QED BY <1>7, <1>8

\* flush_next's sort returns as many events as it was given.
LEMMA SortType ==
  ASSUME NEW s \in Seq(Event)
  PROVE  /\ SortByCreatedAt(s) \in Seq(Event)
         /\ Len(SortByCreatedAt(s)) = Len(s)
<1>1. DOMAIN s = 1 .. Len(s) /\ Len(s) \in Nat
  BY LenProperties
<1>2. ASSUME NEW k \in DOMAIN s
      PROVE  s[CHOOSE i \in DOMAIN s : SortRank(s, i) = k] \in Event
  <2>1. (CHOOSE i \in DOMAIN s : SortRank(s, i) = k) \in DOMAIN s
    BY SortPosition
  <2> QED BY <1>1, <2>1, ElementOfSeq
<1>3. SortByCreatedAt(s) \in [1 .. Len(s) -> Event]
  BY <1>1, <1>2 DEF SortByCreatedAt
<1> QED BY <1>1, <1>3, IsASeq

\* Retaining some positions of a sequence of events gives one.
LEMMA KeepType ==
  ASSUME NEW s \in Seq(Event), NEW K \in SUBSET DOMAIN s
  PROVE  Keep(s, K) \in Seq(Event)
<1> DEFINE B == [i \in K |-> {j \in K : j <= i}]
<1>1. IsFiniteSet(DOMAIN s) /\ DOMAIN s \subseteq Nat
  BY FS_Interval
<1>2. IsFiniteSet(K) /\ Cardinality(K) \in Nat /\ K \subseteq Nat
  BY <1>1, FS_Subset, FS_CardinalityType
<1>3. ASSUME NEW k \in 1 .. Cardinality(K)
      PROVE  \E i \in K : Cardinality({j \in K : j <= i}) = k
  <2>1. B \in [K -> SUBSET K]
    OBVIOUS
  <2>2. \A i \in K : i \in B[i]
    BY <1>2
  <2>3. \A i, j \in K : B[i] \subseteq B[j] \/ B[j] \subseteq B[i]
    BY <1>2
  <2>4. \A i, j \in K : B[i] = B[j] => i = j
    BY <1>2
  <2>5. \E i \in K : Cardinality(B[i]) = k
    <3> HIDE DEF B
    <3> QED BY <1>2, <2>1, <2>2, <2>3, <2>4, CountBelowOnto
  <2> QED BY <2>5
<1>4. ASSUME NEW k \in 1 .. Cardinality(K)
      PROVE  s[CHOOSE i \in K : Cardinality({j \in K : j <= i}) = k] \in Event
  <2>1. (CHOOSE i \in K : Cardinality({j \in K : j <= i}) = k) \in K
    BY <1>3
  <2> QED BY <2>1, ElementOfSeq, LenProperties
<1>5. Keep(s, K) \in [1 .. Cardinality(K) -> Event]
  BY <1>4 DEF Keep
<1> QED BY <1>2, <1>5, IsASeq

\* A non-empty finite set of numbers has a least member.
LEMMA HasLeast ==
  ASSUME NEW K, K \subseteq Nat, IsFiniteSet(K), K # {}
  PROVE  \E x \in K : \A y \in K : x <= y
<1> DEFINE B == [i \in K |-> {j \in K : j <= i}]
<1>1. 1 \in 1 .. Cardinality(K)
  <2>1. Cardinality(K) \in Nat /\ Cardinality(K) # 0
    BY FS_EmptySet, FS_CardinalityType
  <2> QED BY <2>1
<1>2. /\ B \in [K -> SUBSET K]
      /\ \A i \in K : i \in B[i]
      /\ \A i, j \in K : B[i] \subseteq B[j] \/ B[j] \subseteq B[i]
      /\ \A i, j \in K : B[i] = B[j] => i = j
  <2>1. K \subseteq Nat
    OBVIOUS
  <2>2. ASSUME NEW i \in K, NEW j \in K
        PROVE  B[i] \subseteq B[j] \/ B[j] \subseteq B[i]
    <3>1. i \in Nat /\ j \in Nat
      BY <2>1
    <3>2. ASSUME NEW x \in K PROVE x \in Nat
      BY <2>1
    <3>3. (\A x \in K : x <= i => x <= j) \/ (\A x \in K : x <= j => x <= i)
      BY <3>1, <3>2
    <3> QED BY <3>3
  <2>3. \A i, j \in K : B[i] = B[j] => i = j
    BY <2>1
  <2>4. \A i \in K : i \in B[i]
    BY <2>1
  <2> QED BY <2>2, <2>3, <2>4
<1>3. \E i \in K : Cardinality(B[i]) = 1
  <2>1. IsFiniteSet(K)
    OBVIOUS
  <2> HIDE DEF B
  <2>2. \A k \in 1 .. Cardinality(K) : \E i \in K : Cardinality(B[i]) = k
    BY <1>2, <2>1, CountBelowOnto
  <2> QED BY <1>1, <2>2
<1>4. PICK x \in K : Cardinality(B[x]) = 1
  BY <1>3
<1>5. PICK z : B[x] = {z}
  BY <1>2, <1>4, FS_Subset, FS_Singleton
<1>6. ASSUME NEW y \in K, y < x PROVE FALSE
  <2>1. x \in B[x] /\ y \in B[x]
    BY <1>6
  <2> QED BY <1>5, <1>6, <2>1
<1>7. \A y \in K : x <= y
  BY <1>6
<1> QED BY <1>7

\* The position an iter().position search stops at exists and holds the event.
LEMMA PositionFound ==
  ASSUME NEW s \in Seq(Event), NEW id \in Ids(s)
  PROVE  PositionOf(s, id) \in 1 .. Len(s) /\ s[PositionOf(s, id)].id = id
<1> DEFINE K == {i \in DOMAIN s : s[i].id = id}
<1>1. DOMAIN s = 1 .. Len(s) /\ Len(s) \in Nat /\ IsFiniteSet(DOMAIN s)
  BY LenProperties, FS_Interval
<1>2. IsFiniteSet(K) /\ K \subseteq Nat
  BY <1>1, FS_Subset
<1>3. K # {}
  BY DEF Ids
<1>4. \E x \in K : \A y \in K : x <= y
  <2> HIDE DEF K
  <2> QED BY <1>2, <1>3, HasLeast
<1>5. \E i \in DOMAIN s : s[i].id = id /\ \A j \in DOMAIN s : s[j].id = id => i <= j
  BY <1>4
<1> QED BY <1>1, <1>5 DEF PositionOf

\* So does removing one position.
LEMMA RemoveAtType ==
  ASSUME NEW s \in Seq(Event), NEW p \in 1 .. Len(s)
  PROVE  RemoveAt(s, p) \in Seq(Event) /\ Len(RemoveAt(s, p)) <= Len(s)
<1> DEFINE u == SubSeq(s, 1, p - 1)
           v == SubSeq(s, p + 1, Len(s))
<1>1. Len(s) \in Nat /\ \A i \in 1 .. Len(s) : s[i] \in Event
  BY ElementOfSeq, LenProperties
<1>2. u \in Seq(Event) /\ Len(u) = p - 1
  BY <1>1, SubSeqProperties
<1>3. v \in Seq(Event) /\ Len(v) = Len(s) - p
  BY <1>1, SubSeqProperties
<1>4. u \o v \in Seq(Event) /\ Len(u \o v) = Len(u) + Len(v)
  <2> HIDE DEF u, v
  <2> QED BY <1>2, <1>3, ConcatProperties
<1>5. RemoveAt(s, p) = u \o v
  BY DEF RemoveAt
<1> HIDE DEF u, v
<1> QED BY <1>1, <1>2, <1>3, <1>4, <1>5

\* The cap loop leaves at most MaxPending events.
LEMMA TrimBackType ==
  ASSUME NEW s \in Seq(Event)
  PROVE  TrimBack(s) \in Seq(Event) /\ Len(TrimBack(s)) <= MaxPending
BY QueueAssumption DEF TrimBack

\* Retaining never lengthens a sequence.
LEMMA KeepLength ==
  ASSUME NEW s \in Seq(Event), NEW K \in SUBSET DOMAIN s
  PROVE  Len(Keep(s, K)) <= Len(s)
<1>1. DOMAIN s = 1 .. Len(s) /\ Len(s) \in Nat
  BY LenProperties
<1>2. IsFiniteSet(1 .. Len(s)) /\ Cardinality(1 .. Len(s)) = Len(s)
  <2> DEFINE n == Len(s)
  <2> HIDE DEF n
  <2>1. n \in Nat
    BY <1>1 DEF n
  <2>2. IsFiniteSet(1 .. n) /\ Cardinality(1 .. n) = n
    BY <2>1, FS_Interval
  <2> QED BY <2>2 DEF n
<1>3. Cardinality(K) \in Nat /\ Cardinality(K) <= Len(s)
  BY <1>1, <1>2, FS_Subset, FS_CardinalityType
<1>4. DOMAIN Keep(s, K) = 1 .. Cardinality(K)
  BY DEF Keep
<1>5. Keep(s, K) \in Seq(Event)
  BY KeepType
<1>6. Len(Keep(s, K)) = Cardinality(K)
  BY <1>3, <1>4, <1>5, LenProperties
<1> QED BY <1>3, <1>6

-----------------------------------------------------------------------------
(* The values the queue's fields take.  The two sets are kept folded in    *)
(* the lemmas about operations, which then are about records only.         *)

EventSeq  == Seq(Event)
CappedSeq == {s \in Seq(Event) : Len(s) <= MaxPending}

BoundedQueue ==
  [ queues      : [Channels -> CappedSeq],
    inFlight    : SUBSET Channels,
    deadlines   : [Channels -> Timer],
    retryAfter  : [Channels -> Timer],
    retryCounts : [Channels -> Nat],
    cancelled   : [Channels -> EventSeq],
    reasons     : [Channels -> Reason],
    withheld    : [Channels -> EventSeq] ]

\* The strengthened queue type implies the queue's type and its cap.
LEMMA BoundedIsQueue ==
  /\ BoundedQueue \subseteq QueueState
  /\ \A q \in BoundedQueue : \A c \in Channels : Len(q.queues[c]) <= MaxPending
<1>1. CappedSeq \subseteq Seq(Event) /\ \A s \in CappedSeq : Len(s) <= MaxPending
  BY DEF CappedSeq
<1>2. BoundedQueue \subseteq QueueState
  BY <1>1 DEF BoundedQueue, QueueState, EventSeq
<1>3. \A q \in BoundedQueue : \A c \in Channels : q.queues[c] \in CappedSeq
  BY DEF BoundedQueue
<1> QED BY <1>1, <1>2, <1>3

\* Closure facts about sequences of events.
LEMMA SeqFacts ==
  /\ <<>> \in CappedSeq /\ <<>> \in EventSeq
  /\ CappedSeq \subseteq EventSeq
  /\ \A s \in EventSeq : TrimBack(s) \in CappedSeq
  /\ \A s, t \in EventSeq : s \o t \in EventSeq
  /\ \A s \in EventSeq, e \in Event : Append(s, e) \in EventSeq /\ <<e>> \o s \in EventSeq
<1>1. <<>> \in CappedSeq /\ <<>> \in EventSeq
  BY EmptySeq, QueueAssumption DEF CappedSeq, EventSeq
<1>2. CappedSeq \subseteq EventSeq
  BY DEF CappedSeq, EventSeq
<1>3. \A s \in EventSeq : TrimBack(s) \in CappedSeq
  BY TrimBackType DEF CappedSeq, EventSeq
<1>4. \A s, t \in EventSeq : s \o t \in EventSeq
  BY ConcatProperties DEF EventSeq
<1>5. \A s \in EventSeq, e \in Event : Append(s, e) \in EventSeq /\ <<e>> \o s \in EventSeq
  BY AppendProperties, ConcatProperties DEF EventSeq
<1> QED BY <1>1, <1>2, <1>3, <1>4, <1>5

-----------------------------------------------------------------------------
(* Every operation keeps the queue well typed and within its cap. *)

\* Replacing one channel's queue by a capped one keeps the type.
LEMMA QueueReplaced ==
  ASSUME NEW q \in BoundedQueue, NEW c \in Channels, NEW v \in CappedSeq
  PROVE  [q EXCEPT !.queues[c] = v] \in BoundedQueue
BY DEF BoundedQueue

\* EventQueue::new has the strengthened type.
LEMMA NewQueueBounded == NewQueue \in BoundedQueue
BY SeqFacts DEF NewQueue, BoundedQueue, Timer, Reason

\* push evicts before it appends.
LEMMA PushBounded ==
  ASSUME NEW q \in BoundedQueue, NEW c \in Channels, NEW e \in Event
  PROVE  Push(q, c, e) \in BoundedQueue
<1> DEFINE old == q.queues[c]
           kept == IF Len(old) >= MaxPending THEN Tail(old) ELSE old
<1>1. old \in Seq(Event) /\ Len(old) <= MaxPending
  BY DEF BoundedQueue, CappedSeq
<1>2. kept \in Seq(Event) /\ Len(kept) < MaxPending
  <2> HIDE DEF old
  <2> QED BY <1>1, QueueAssumption, HeadTailProperties, EmptySeq
<1>3. Append(kept, e) \in CappedSeq
  <2> HIDE DEF kept
  <2>1. Append(kept, e) \in Seq(Event) /\ Len(Append(kept, e)) = Len(kept) + 1
    BY <1>2, AppendProperties
  <2>2. Len(kept) \in Nat
    BY <1>2, LenProperties
  <2> QED BY <1>2, <2>1, <2>2, QueueAssumption DEF CappedSeq
<1>4. Push(q, c, e) = [q EXCEPT !.queues[c] = Append(kept, e)]
  BY DEF Push
<1> HIDE DEF kept
<1> QED BY ZenonT(40), <1>3, <1>4, QueueReplaced

\* Deadline expiry with recovery of withheld events keeps it.
LEMMA ExpireBounded ==
  ASSUME NEW q \in BoundedQueue
  PROVE  ExpireInFlight(q) \in BoundedQueue
<1>1. \A c \in Channels : TrimBack(q.withheld[c] \o q.queues[c]) \in CappedSeq
  BY SeqFacts DEF BoundedQueue
<1> QED BY <1>1, SeqFacts DEF ExpireInFlight, BoundedQueue, Timer

\* Marking a channel in flight keeps it.
LEMMA MarkInFlightBounded ==
  ASSUME NEW q \in BoundedQueue, NEW c \in Channels
  PROVE  MarkInFlight(q, c) \in BoundedQueue
BY SeqFacts DEF MarkInFlight, BoundedQueue, Timer, Reason

\* mark_complete keeps it.
LEMMA MarkCompleteBounded ==
  ASSUME NEW q \in BoundedQueue, NEW c \in Channels
  PROVE  MarkComplete(q, c) \in BoundedQueue
BY DEF MarkComplete, BoundedQueue, Timer

\* requeue and requeue_preserve_timestamps keep it.
LEMMA RequeueBounded ==
  ASSUME NEW q \in BoundedQueue, NEW b \in Batch
  PROVE  Requeue(q, b) \in BoundedQueue /\ RequeuePreserve(q, b) \in BoundedQueue
<1>1. b.ch \in Channels /\ b.events \in EventSeq
  BY DEF Batch, EventSeq
<1>2. TrimBack(b.events \o q.queues[b.ch]) \in CappedSeq
  BY <1>1, SeqFacts DEF BoundedQueue
<1>3. Requeue(q, b) \in BoundedQueue
  <2> DEFINE v == TrimBack(b.events \o q.queues[b.ch])
             n == q.retryCounts[b.ch] + 1
  <2>1. n \in Nat
    BY <1>1 DEF BoundedQueue
  <2>2. Requeue(q, b) = IF RetriesExhausted(q, b.ch)
          THEN [q EXCEPT !.retryCounts[b.ch] = 0, !.retryAfter[b.ch] = "none"]
          ELSE [q EXCEPT !.retryCounts[b.ch] = n, !.queues[b.ch] = v,
                         !.retryAfter[b.ch] = "armed"]
    BY DEF Requeue
  <2> HIDE DEF v, n
  <2>3. [q EXCEPT !.retryCounts[b.ch] = 0, !.retryAfter[b.ch] = "none"] \in BoundedQueue
    BY <1>1 DEF BoundedQueue, Timer
  <2>4. [q EXCEPT !.retryCounts[b.ch] = n, !.queues[b.ch] = v,
                  !.retryAfter[b.ch] = "armed"] \in BoundedQueue
    <3>1. v \in CappedSeq
      BY <1>2 DEF v
    <3> QED BY <1>1, <2>1, <3>1 DEF BoundedQueue, Timer
  <2> QED BY <2>2, <2>3, <2>4
<1>4. RequeuePreserve(q, b) \in BoundedQueue
  BY <1>1, <1>2 DEF RequeuePreserve, BoundedQueue
<1> QED BY <1>3, <1>4

\* requeue_as_cancelled keeps it.
LEMMA RequeueAsCancelledBounded ==
  ASSUME NEW q \in BoundedQueue, NEW b \in Batch
  PROVE  RequeueAsCancelled(q, b) \in BoundedQueue
<1>1. /\ b.ch \in Channels /\ b.events \in EventSeq /\ b.cancelled \in EventSeq
      /\ b.reason \in Reason
  BY DEF Batch, EventSeq
<1>2. q.cancelled[b.ch] \o b.cancelled \o b.events \in EventSeq
  BY <1>1, SeqFacts DEF BoundedQueue
<1> QED BY <1>1, <1>2 DEF RequeueAsCancelled, BoundedQueue, Reason

\* drain_channel keeps it.
LEMMA DrainBounded ==
  ASSUME NEW q \in BoundedQueue, NEW c \in Channels
  PROVE  DrainChannel(q, c) \in BoundedQueue
BY SeqFacts DEF DrainChannel, BoundedQueue, Timer, Reason

\* extend_in_flight_deadline keeps it.
LEMMA ExtendBounded ==
  ASSUME NEW q \in BoundedQueue, NEW c \in Channels
  PROVE  ExtendDeadline(q, c) \in BoundedQueue
BY DEF ExtendDeadline, BoundedQueue, Timer

\* compact_expired_state keeps it.
LEMMA CompactBounded ==
  ASSUME NEW q \in BoundedQueue
  PROVE  CompactExpiredState(q) \in BoundedQueue
BY DEF CompactExpiredState, BoundedQueue, Timer

\* remove_event keeps it.
LEMMA RemoveBounded ==
  ASSUME NEW q \in BoundedQueue, NEW c \in Channels, NEW id
  PROVE  RemoveEvent(q, c, id) \in BoundedQueue
<1>1. q.queues[c] \in CappedSeq /\ q.withheld[c] \in EventSeq
  BY DEF BoundedQueue
<1>2. \A s \in Seq(Event) : Without(s, id) \in Seq(Event) /\ Len(Without(s, id)) <= Len(s)
  BY KeepType, KeepLength DEF Without
<1>3. Without(q.queues[c], id) \in CappedSeq
  <2>1. q.queues[c] \in Seq(Event) /\ Len(q.queues[c]) <= MaxPending
    BY <1>1 DEF CappedSeq
  <2>2. Len(Without(q.queues[c], id)) \in Nat /\ Len(q.queues[c]) \in Nat
    BY <1>2, <2>1, LenProperties
  <2> QED BY <1>2, <2>1, <2>2, QueueAssumption DEF CappedSeq
<1>4. Without(q.withheld[c], id) \in EventSeq
  BY <1>1, <1>2 DEF EventSeq
<1> QED BY <1>3, <1>4 DEF RemoveEvent, BoundedQueue

\* The event found at PositionOf, and the sequence without it.
LEMMA TakeOut ==
  ASSUME NEW s \in EventSeq, NEW id \in Ids(s)
  PROVE  /\ s[PositionOf(s, id)] \in Event
         /\ RemoveAt(s, PositionOf(s, id)) \in EventSeq
         /\ s \in CappedSeq => RemoveAt(s, PositionOf(s, id)) \in CappedSeq
<1> DEFINE p == PositionOf(s, id)
<1>1. s \in Seq(Event)
  BY DEF EventSeq
<1>2. p \in 1 .. Len(s)
  BY <1>1, PositionFound
<1> HIDE DEF p
<1>3. s[p] \in Event
  BY <1>1, <1>2, ElementOfSeq
<1>4. RemoveAt(s, p) \in Seq(Event) /\ Len(RemoveAt(s, p)) <= Len(s)
  BY <1>1, <1>2, RemoveAtType
<1>5. Len(s) \in Nat /\ Len(RemoveAt(s, p)) \in Nat
  BY <1>1, <1>4, LenProperties
<1>6. s \in CappedSeq => RemoveAt(s, p) \in CappedSeq
  BY <1>4, <1>5, QueueAssumption DEF CappedSeq
<1> QED BY <1>3, <1>4, <1>6 DEF p, EventSeq

\* mark_native_steer_pending keeps it.
LEMMA MarkNativeSteerBounded ==
  ASSUME NEW q \in BoundedQueue, NEW c \in Channels, NEW id
  PROVE  MarkNativeSteerPending(q, c, id) \in BoundedQueue
<1>1. CASE id \notin Ids(q.queues[c])
  BY <1>1 DEF MarkNativeSteerPending
<1>2. CASE id \in Ids(q.queues[c])
  <2> DEFINE p == PositionOf(q.queues[c], id)
             rest == RemoveAt(q.queues[c], p)
             aside == Append(q.withheld[c], q.queues[c][p])
  <2>1. q.queues[c][p] \in Event /\ rest \in CappedSeq
    BY <1>2, TakeOut, SeqFacts DEF BoundedQueue
  <2>2. aside \in EventSeq
    BY <2>1, SeqFacts DEF BoundedQueue
  <2>3. MarkNativeSteerPending(q, c, id)
          = [q EXCEPT !.queues[c] = rest, !.withheld[c] = aside]
    BY <1>2 DEF MarkNativeSteerPending, BoundedQueue
  <2> HIDE DEF p, rest, aside
  <2>4. [q EXCEPT !.queues[c] = rest, !.withheld[c] = aside] \in BoundedQueue
    BY <2>1, <2>2 DEF BoundedQueue
  <2> QED BY <2>3, <2>4
<1> QED BY <1>1, <1>2

\* release_native_steer keeps it.
LEMMA ReleaseNativeSteerBounded ==
  ASSUME NEW q \in BoundedQueue, NEW c \in Channels, NEW id
  PROVE  ReleaseNativeSteer(q, c, id) \in BoundedQueue
<1>1. CASE id \notin Ids(q.withheld[c])
  BY <1>1 DEF ReleaseNativeSteer
<1>2. CASE id \in Ids(q.withheld[c])
  <2> DEFINE p == PositionOf(q.withheld[c], id)
             back == TrimBack(Released(q, c, id))
             rest == RemoveAt(q.withheld[c], p)
  <2>1. q.withheld[c] \in EventSeq /\ q.queues[c] \in EventSeq
    BY SeqFacts DEF BoundedQueue
  <2>2. q.withheld[c][p] \in Event /\ rest \in EventSeq
    BY <1>2, <2>1, TakeOut
  <2>3. back \in CappedSeq
    <3>1. Released(q, c, id) \in EventSeq
      BY <2>1, <2>2, SeqFacts DEF Released
    <3> QED BY <3>1, SeqFacts
  <2>4. ReleaseNativeSteer(q, c, id)
          = [q EXCEPT !.withheld[c] = rest, !.queues[c] = back]
    BY <1>2 DEF ReleaseNativeSteer, BoundedQueue
  <2> HIDE DEF p, rest, back
  <2>5. [q EXCEPT !.withheld[c] = rest, !.queues[c] = back] \in BoundedQueue
    BY <2>2, <2>3 DEF BoundedQueue
  <2> QED BY <2>4, <2>5
<1> QED BY <1>1, <1>2

\* What flush_next hands out is a batch of the channel, and the queue stays bounded.
LEMMA FlushBounded ==
  ASSUME NEW q0 \in BoundedQueue, NEW r \in FlushNext(q0)
  PROVE  r.q \in BoundedQueue /\ r.batch \in Batch
<1> DEFINE q == ExpireInFlight(q0)
<1>1. q \in BoundedQueue
  BY ExpireBounded
<1>2. ASSUME NEW c \in Channels
      PROVE  FlushQueued(q, c).q \in BoundedQueue /\ FlushQueued(q, c).batch \in Batch
  <2> HIDE DEF q
  <2> DEFINE n == IF Len(q.queues[c]) < MaxBatch THEN Len(q.queues[c]) ELSE MaxBatch
             rest == SubSeq(q.queues[c], n + 1, Len(q.queues[c]))
             taken == SubSeq(q.queues[c], 1, n)
  <2>1. q.queues[c] \in Seq(Event) /\ Len(q.queues[c]) <= MaxPending
    BY <1>1 DEF BoundedQueue, CappedSeq
  <2>2. Len(q.queues[c]) \in Nat /\ \A i \in 1 .. Len(q.queues[c]) : q.queues[c][i] \in Event
    BY <2>1, LenProperties, ElementOfSeq
  <2>3. n \in Nat /\ n <= Len(q.queues[c])
    BY <2>2, QueueAssumption
  <2>4. rest \in CappedSeq
    <3> HIDE DEF n
    <3>1. rest \in Seq(Event) /\ Len(rest) <= Len(q.queues[c])
      BY <2>2, <2>3, SubSeqProperties
    <3>2. Len(rest) \in Nat
      BY <3>1, LenProperties
    <3> QED BY <2>1, <2>2, <3>1, <3>2, QueueAssumption DEF CappedSeq
  <2>5. taken \in Seq(Event)
    <3> HIDE DEF n
    <3> QED BY <2>2, <2>3, SubSeqProperties
  <2>6. SortByCreatedAt(taken) \in Seq(Event)
    <3> HIDE DEF taken
    <3> QED BY <2>5, SortType
  <2>7. q.cancelled[c] \in Seq(Event) /\ q.reasons[c] \in Reason
    BY <1>1 DEF BoundedQueue, EventSeq
  <2>8. FlushQueued(q, c).batch \in Batch
    <3> HIDE DEF taken, n
    <3> QED BY <2>6, <2>7 DEF FlushQueued, Batch, Reason, taken, n
  <2>9. FlushQueued(q, c).q = MarkInFlight([q EXCEPT !.queues[c] = rest], c)
    BY DEF FlushQueued
  <2>10. [q EXCEPT !.queues[c] = rest] \in BoundedQueue
    <3> HIDE DEF rest
    <3> QED BY <1>1, <2>4 DEF BoundedQueue
  <2> HIDE DEF rest
  <2> QED BY <2>8, <2>9, <2>10, MarkInFlightBounded
<1>3. ASSUME NEW c \in Channels
      PROVE  FlushCancelled(q, c).q \in BoundedQueue /\ FlushCancelled(q, c).batch \in Batch
  <2> HIDE DEF q
  <2>1. q.cancelled[c] \in Seq(Event) /\ q.reasons[c] \in Reason /\ <<>> \in Seq(Event)
    BY <1>1, EmptySeq DEF BoundedQueue, EventSeq
  <2> QED BY <1>1, <2>1, MarkInFlightBounded DEF FlushCancelled, Batch
<1>4. OldestHead(q) \subseteq Channels /\ CancelledReady(q) \subseteq Channels
  BY DEF OldestHead, Flushable, CancelledReady
<1> QED BY <1>2, <1>3, <1>4 DEF FlushNext

-----------------------------------------------------------------------------
(* Which events a sequence holds, and whether it holds each once. *)

Distinct(s) == \A i, j \in DOMAIN s : s[i].id = s[j].id => i = j

\* The positions of a sequence of events.
LEMMA Positions ==
  ASSUME NEW s \in EventSeq
  PROVE  /\ Len(s) \in Nat /\ DOMAIN s = 1 .. Len(s)
         /\ \A i \in 1 .. Len(s) : s[i] \in Event /\ s[i].id \in Nat
         /\ Ids(s) = {s[i].id : i \in 1 .. Len(s)}
         /\ Ids(s) \subseteq Nat
<1>1. Len(s) \in Nat /\ DOMAIN s = 1 .. Len(s)
  BY LenProperties DEF EventSeq
<1>2. \A i \in 1 .. Len(s) : s[i] \in Event
  BY <1>1, ElementOfSeq DEF EventSeq
<1> QED
  BY <1>1, <1>2 DEF Ids, Event

\* The empty sequence.
LEMMA EmptyIds == Ids(<<>>) = {} /\ Distinct(<<>>)
BY DEF Ids, Distinct

\* One sequence after another.
LEMMA ConcatIds ==
  ASSUME NEW s \in EventSeq, NEW t \in EventSeq
  PROVE  /\ Ids(s \o t) = Ids(s) \cup Ids(t)
         /\ Distinct(s) /\ Distinct(t) /\ Ids(s) \cap Ids(t) = {} => Distinct(s \o t)
         /\ Distinct(s \o t) => Distinct(s) /\ Distinct(t) /\ Ids(s) \cap Ids(t) = {}
<1> DEFINE u == s \o t
           m == Len(s)
           n == Len(t)
<1>1. m \in Nat /\ n \in Nat /\ DOMAIN s = 1 .. m /\ DOMAIN t = 1 .. n
  BY Positions
<1>2. /\ u \in EventSeq /\ Len(u) = m + n
      /\ \A i \in 1 .. m + n : u[i] = IF i <= m THEN s[i] ELSE t[i - m]
  BY ConcatProperties DEF EventSeq
<1>3. DOMAIN u = 1 .. m + n
  BY <1>2, Positions
<1> HIDE DEF u, m, n
<1>4. /\ \A i \in 1 .. m : i \in 1 .. m + n /\ u[i] = s[i]
      /\ \A i \in 1 .. n : i + m \in 1 .. m + n /\ u[i + m] = t[i]
      /\ \A i \in 1 .. m + n : i \in 1 .. m \/ (i - m \in 1 .. n /\ u[i] = t[i - m])
  <2>1. \A i \in 1 .. m : i \in 1 .. m + n /\ i <= m
    BY <1>1
  <2>2. \A i \in 1 .. n : i + m \in 1 .. m + n /\ ~(i + m <= m) /\ i + m - m = i
    BY <1>1
  <2>3. \A i \in 1 .. m + n : i \in 1 .. m \/ (i - m \in 1 .. n /\ ~(i <= m))
    BY <1>1
  <2>4. ASSUME NEW i \in 1 .. m PROVE i \in 1 .. m + n /\ u[i] = s[i]
    BY <1>2, <2>1
  <2>5. ASSUME NEW i \in 1 .. n PROVE i + m \in 1 .. m + n /\ u[i + m] = t[i]
    <3> DEFINE k == i + m
    <3>1. k \in 1 .. m + n /\ ~(k <= m) /\ k - m = i
      BY <1>1
    <3> HIDE DEF k
    <3>2. u[k] = t[i]
      BY <1>2, <3>1
    <3> QED
      BY <3>1, <3>2 DEF k
  <2>6. ASSUME NEW i \in 1 .. m + n, i \notin 1 .. m PROVE i - m \in 1 .. n /\ u[i] = t[i - m]
    BY <1>2, <2>3, <2>6
  <2> QED
    BY <2>4, <2>5, <2>6
<1>5. Ids(u) = Ids(s) \cup Ids(t)
  <2>1. ASSUME NEW x \in Ids(u) PROVE x \in Ids(s) \cup Ids(t)
    BY <1>1, <1>3, <1>4 DEF Ids
  <2>2. ASSUME NEW x \in Ids(s) PROVE x \in Ids(u)
    BY <1>1, <1>3, <1>4 DEF Ids
  <2>3. ASSUME NEW x \in Ids(t) PROVE x \in Ids(u)
    BY <1>1, <1>3, <1>4 DEF Ids
  <2> QED
    BY <2>1, <2>2, <2>3
<1>6. ASSUME Distinct(s), Distinct(t), Ids(s) \cap Ids(t) = {} PROVE Distinct(u)
  <2> SUFFICES ASSUME NEW i \in 1 .. m + n, NEW j \in 1 .. m + n, u[i].id = u[j].id PROVE i = j
    BY <1>3 DEF Distinct
  <2>1. CASE i \in 1 .. m /\ j \in 1 .. m
    BY <1>1, <1>4, <1>6, <2>1 DEF Distinct
  <2>2. CASE i \in 1 .. m /\ j \notin 1 .. m
    <3>1. j - m \in 1 .. n /\ s[i].id = t[j - m].id
      BY <1>4, <2>2
    <3>2. s[i].id \in Ids(s) /\ t[j - m].id \in Ids(t)
      BY <1>1, <2>2, <3>1 DEF Ids
    <3> QED
      BY <1>6, <3>1, <3>2
  <2>3. CASE i \notin 1 .. m /\ j \in 1 .. m
    <3>1. i - m \in 1 .. n /\ s[j].id = t[i - m].id
      BY <1>4, <2>3
    <3>2. s[j].id \in Ids(s) /\ t[i - m].id \in Ids(t)
      BY <1>1, <2>3, <3>1 DEF Ids
    <3> QED
      BY <1>6, <3>1, <3>2
  <2>4. CASE i \notin 1 .. m /\ j \notin 1 .. m
    <3>1. i - m \in 1 .. n /\ j - m \in 1 .. n /\ t[i - m].id = t[j - m].id
      BY <1>4, <2>4
    <3>2. i - m = j - m
      BY <1>1, <1>6, <3>1 DEF Distinct
    <3> QED
      BY <1>1, <3>2
  <2> QED
    BY <2>1, <2>2, <2>3, <2>4
<1>7. ASSUME Distinct(u) PROVE Distinct(s) /\ Distinct(t) /\ Ids(s) \cap Ids(t) = {}
  <2>1. Distinct(s)
    BY <1>1, <1>3, <1>4, <1>7 DEF Distinct
  <2>2. Distinct(t)
    <3> SUFFICES ASSUME NEW i \in 1 .. n, NEW j \in 1 .. n, t[i].id = t[j].id PROVE i = j
      BY <1>1 DEF Distinct
    <3>1. i + m = j + m
      BY <1>3, <1>4, <1>7 DEF Distinct
    <3> QED
      BY <1>1, <3>1
  <2>3. ASSUME NEW i \in 1 .. m, NEW j \in 1 .. n, s[i].id = t[j].id PROVE FALSE
    <3>1. i = j + m
      BY <1>3, <1>4, <1>7, <2>3 DEF Distinct
    <3> QED
      BY <1>1, <3>1
  <2> QED
    BY <1>1, <2>1, <2>2, <2>3 DEF Ids
<1> QED
  BY <1>5, <1>6, <1>7 DEF u

\* A sequence is what is before a cut and what is after it.
LEMMA CutIds ==
  ASSUME NEW s \in EventSeq, NEW n \in 0 .. Len(s)
  PROVE  /\ SubSeq(s, 1, n) \in EventSeq /\ SubSeq(s, n + 1, Len(s)) \in EventSeq
         /\ s = SubSeq(s, 1, n) \o SubSeq(s, n + 1, Len(s))
<1>1. Len(s) \in Nat /\ n \in Nat /\ n <= Len(s) /\ s \in Seq(Event)
      /\ \A i \in 1 .. Len(s) : s[i] \in Event
  BY Positions DEF EventSeq
<1>2. SubSeq(s, 1, n) \in Seq(Event)
  BY <1>1, SubSeqProperties
<1>3. SubSeq(s, n + 1, Len(s)) \in Seq(Event)
  BY <1>1, SubSeqProperties
<1>4. SubSeq(s, 1, n) \o SubSeq(s, n + 1, Len(s)) = SubSeq(s, 1, Len(s))
  <2>1. 1 \in 1 .. Len(s) + 1 /\ n \in 1 - 1 .. Len(s) /\ Len(s) \in n .. Len(s)
    BY <1>1
  <2> QED
    BY <1>1, <2>1, ConcatAdjacentSubSeq
<1>5. SubSeq(s, 1, Len(s)) = s
  BY <1>1, SubSeqFull
<1> QED
  BY <1>2, <1>3, <1>4, <1>5 DEF EventSeq

\* The cap loop keeps a part and drops the rest.
LEMMA TrimIds ==
  ASSUME NEW s \in EventSeq
  PROVE  /\ TrimBack(s) \in EventSeq
         /\ Ids(s) = Ids(TrimBack(s)) \cup Ids(Trimmed(s))
         /\ Distinct(s) => Distinct(TrimBack(s)) /\ Ids(TrimBack(s)) \cap Ids(Trimmed(s)) = {}
<1>0. Len(s) \in Nat /\ MaxPending \in Nat
  BY Positions, QueueAssumption
<1>1. CASE Len(s) > MaxPending
  <2>1. MaxPending \in 0 .. Len(s)
    BY <1>0, <1>1
  <2>2. TrimBack(s) = SubSeq(s, 1, MaxPending) /\ Trimmed(s) = SubSeq(s, MaxPending + 1, Len(s))
    BY <1>1 DEF TrimBack, Trimmed
  <2>3. TrimBack(s) \in EventSeq /\ Trimmed(s) \in EventSeq /\ s = TrimBack(s) \o Trimmed(s)
    BY <2>1, <2>2, CutIds
  <2> DEFINE u == TrimBack(s)
             v == Trimmed(s)
  <2> HIDE DEF u, v
  <2>4. /\ Ids(u \o v) = Ids(u) \cup Ids(v)
        /\ Distinct(u \o v) => Distinct(u) /\ Ids(u) \cap Ids(v) = {}
    BY <2>3, ConcatIds DEF u, v
  <2> QED
    BY <2>3, <2>4 DEF u, v
<1>2. CASE ~(Len(s) > MaxPending)
  <2>1. Trimmed(s) = <<>>
    BY <1>0, <1>2, SubSeqProperties, EmptySeq DEF Trimmed, EventSeq
  <2> QED
    BY <1>2, <2>1, EmptyIds DEF TrimBack
<1> QED
  BY <1>1, <1>2

\* Appending one event.
LEMMA OneIds ==
  ASSUME NEW s \in EventSeq, NEW e \in Event
  PROVE  /\ <<e>> \in EventSeq /\ Ids(<<e>>) = {e.id} /\ Distinct(<<e>>)
         /\ Append(s, e) = s \o <<e>>
<1>1. <<e>> \in EventSeq
  BY DEF EventSeq
<1>2. Ids(<<e>>) = {e.id} /\ Distinct(<<e>>)
  BY DEF Ids, Distinct
<1>3. Append(s, e) = s \o <<e>>
  BY AppendIsConcat DEF EventSeq
<1> QED
  BY <1>1, <1>2, <1>3

\* A one-to-one map between finite sets of the same size meets every member.
LEMMA EqualOnto ==
  ASSUME NEW D, NEW R, IsFiniteSet(D), IsFiniteSet(R), Cardinality(D) = Cardinality(R),
         NEW p \in [D -> R], \A k, l \in D : p[k] = p[l] => k = l
  PROVE  \A i \in R : \E k \in D : p[k] = i
<1>1. p \in Injection(D, R)
  BY Fun_IsInj
<1>2. p \in Surjection(D, R)
  BY <1>1, FS_Injection
<1> QED
  BY <1>2, Fun_SurjectionProperties

\* Sorting keeps the events.
LEMMA SortIds ==
  ASSUME NEW s \in EventSeq
  PROVE  /\ SortByCreatedAt(s) \in EventSeq /\ Len(SortByCreatedAt(s)) = Len(s)
         /\ Ids(SortByCreatedAt(s)) = Ids(s)
         /\ Distinct(s) => Distinct(SortByCreatedAt(s))
<1> DEFINE D == DOMAIN s
           p == [k \in D |-> CHOOSE i \in D : SortRank(s, i) = k]
           r == SortByCreatedAt(s)
<1>1. r \in EventSeq /\ Len(r) = Len(s)
  BY SortType DEF EventSeq
<1>2. ASSUME NEW k \in D PROVE p[k] \in D /\ SortRank(s, p[k]) = k
  <2>1. \E i \in D : SortRank(s, i) = k
    BY SortPosition DEF EventSeq
  <2> QED
    BY <2>1
<1>3. DOMAIN r = D /\ \A k \in D : r[k] = s[p[k]]
  BY DEF SortByCreatedAt
<1>4. p \in [D -> D] /\ \A k, l \in D : p[k] = p[l] => k = l
  <2>1. \A k \in D : p[k] \in D /\ SortRank(s, p[k]) = k
    BY <1>2
  <2>2. p = [k \in D |-> p[k]]
    OBVIOUS
  <2> HIDE DEF p
  <2> QED
    BY <2>1, <2>2
<1>5. IsFiniteSet(D)
  BY Positions, FS_Interval
<1> HIDE DEF p, r
<1>6. \A i \in D : \E k \in D : p[k] = i
  BY <1>4, <1>5, EqualOnto
<1>7. Ids(r) = Ids(s)
  BY <1>3, <1>4, <1>6 DEF Ids
<1>8. Distinct(s) => Distinct(r)
  BY <1>3, <1>4 DEF Distinct
<1> QED
  BY <1>1, <1>7, <1>8 DEF r

\* Retaining positions keeps the events at them.
LEMMA KeepIds ==
  ASSUME NEW s \in EventSeq, NEW K \in SUBSET DOMAIN s
  PROVE  /\ Keep(s, K) \in EventSeq
         /\ Ids(Keep(s, K)) = {s[i].id : i \in K}
         /\ Distinct(s) => Distinct(Keep(s, K))
<1> DEFINE D == 1 .. Cardinality(K)
           B == [i \in K |-> {j \in K : j <= i}]
           p == [k \in D |-> CHOOSE i \in K : Cardinality({j \in K : j <= i}) = k]
           r == Keep(s, K)
<1>1. r \in EventSeq
  BY KeepType DEF EventSeq
<1>2. IsFiniteSet(K) /\ Cardinality(K) \in Nat /\ K \subseteq Nat
  <2>1. IsFiniteSet(DOMAIN s) /\ DOMAIN s \subseteq Nat
    BY FS_Interval DEF EventSeq
  <2> QED
    BY <2>1, FS_Subset, FS_CardinalityType
<1>3. ASSUME NEW k \in D PROVE p[k] \in K /\ Cardinality(B[p[k]]) = k
  <2>1. \E i \in K : Cardinality(B[i]) = k
    <3>1. /\ B \in [K -> SUBSET K]
          /\ \A i \in K : i \in B[i]
          /\ \A i, j \in K : B[i] \subseteq B[j] \/ B[j] \subseteq B[i]
          /\ \A i, j \in K : B[i] = B[j] => i = j
      BY <1>2
    <3> HIDE DEF B
    <3> QED
      BY <1>2, <3>1, CountBelowOnto
  <2> QED
    BY <2>1
<1>4. DOMAIN r = D /\ \A k \in D : r[k] = s[p[k]]
  BY DEF Keep
<1>5. p \in [D -> K] /\ \A k, l \in D : p[k] = p[l] => k = l
  <2>1. p = [k \in D |-> p[k]]
    OBVIOUS
  <2> HIDE DEF p, B
  <2> QED
    BY <1>3, <2>1
<1>6. IsFiniteSet(D) /\ Cardinality(D) = Cardinality(K)
  <2> DEFINE n == Cardinality(K)
  <2>1. n \in Nat
    BY <1>2
  <2> HIDE DEF n
  <2>2. IsFiniteSet(1 .. n) /\ Cardinality(1 .. n) = n
    BY <2>1, FS_Interval
  <2> QED
    BY <2>2 DEF n
<1> HIDE DEF p, r, D
<1>7. \A i \in K : \E k \in D : p[k] = i
  BY <1>2, <1>5, <1>6, EqualOnto
<1>8. Ids(r) = {s[i].id : i \in K}
  BY <1>4, <1>5, <1>7 DEF Ids
<1>9. Distinct(s) => Distinct(r)
  BY <1>4, <1>5 DEF Distinct
<1> QED
  BY <1>1, <1>8, <1>9 DEF r

\* retain(|e| e.id != id)
LEMMA WithoutIds ==
  ASSUME NEW s \in EventSeq, NEW id
  PROVE  /\ Without(s, id) \in EventSeq
         /\ Ids(Without(s, id)) = Ids(s) \ {id}
         /\ Distinct(s) => Distinct(Without(s, id))
<1> DEFINE K == {i \in DOMAIN s : s[i].id # id}
<1>1. {s[i].id : i \in K} = Ids(s) \ {id}
  BY DEF Ids
<1>2. K \in SUBSET DOMAIN s /\ Without(s, id) = Keep(s, K)
  BY DEF Without
<1> HIDE DEF K
<1> QED
  BY <1>1, <1>2, KeepIds

\* Taking one event out.
LEMMA TakeOutIds ==
  ASSUME NEW s \in EventSeq, NEW id \in Ids(s)
  PROVE  LET r == RemoveAt(s, PositionOf(s, id)) IN
         /\ r \in EventSeq /\ s[PositionOf(s, id)] \in Event /\ s[PositionOf(s, id)].id = id
         /\ Ids(r) \cup {id} = Ids(s)
         /\ Distinct(s) => Distinct(r) /\ id \notin Ids(r)
<1> DEFINE p == PositionOf(s, id)
           u == SubSeq(s, 1, p - 1)
           w == SubSeq(s, p, Len(s))
           v == SubSeq(s, p + 1, Len(s))
<1>1. p \in 1 .. Len(s) /\ s[p].id = id /\ s[p] \in Event
  BY PositionFound, TakeOut DEF EventSeq
<1>2. Len(s) \in Nat /\ s \in Seq(Event)
  BY Positions DEF EventSeq
<1> HIDE DEF p
<1>3. u \in EventSeq /\ w \in EventSeq /\ s = u \o w
  <2>1. p - 1 \in 0 .. Len(s) /\ p - 1 + 1 = p
    BY <1>1, <1>2
  <2> QED
    BY <2>1, CutIds
<1>4. v \in EventSeq
  <2>1. p \in 0 .. Len(s)
    BY <1>1, <1>2
  <2> QED
    BY <2>1, CutIds
<1>5. w = <<s[p]>> \o v
  <2>1. Len(s) \in p .. Len(s)
    BY <1>1, <1>2
  <2> QED
    BY <1>1, <1>2, <2>1, SubSeqRecursiveFirst
<1>6. RemoveAt(s, p) = u \o v
  BY DEF RemoveAt
<1> HIDE DEF u, v, w
<1>7. <<s[p]>> \in EventSeq /\ Ids(<<s[p]>>) = {id}
  BY <1>1, <1>4, OneIds
<1>8. /\ Ids(w) = {id} \cup Ids(v)
      /\ Distinct(w) => Distinct(v) /\ id \notin Ids(v)
  BY <1>4, <1>5, <1>7, ConcatIds
<1>9. /\ Ids(u \o w) = Ids(u) \cup Ids(w)
      /\ Distinct(u \o w) => Distinct(u) /\ Distinct(w) /\ Ids(u) \cap Ids(w) = {}
  BY <1>3, ConcatIds
<1>10. /\ u \o v \in EventSeq
       /\ Ids(u \o v) = Ids(u) \cup Ids(v)
       /\ Distinct(u) /\ Distinct(v) /\ Ids(u) \cap Ids(v) = {} => Distinct(u \o v)
  BY <1>3, <1>4, ConcatIds, SeqFacts
<1>11. /\ Ids(u \o v) \cup {id} = Ids(s)
       /\ Distinct(s) => Distinct(u \o v) /\ id \notin Ids(u \o v)
  BY <1>3, <1>8, <1>9, <1>10
<1> QED
  BY <1>1, <1>6, <1>10, <1>11 DEF p

\* The oldest event makes room.
LEMMA TailIds ==
  ASSUME NEW s \in EventSeq, s # <<>>
  PROVE  /\ Tail(s) \in EventSeq /\ Head(s) \in Event
         /\ Ids(s) = {Head(s).id} \cup Ids(Tail(s))
         /\ Distinct(s) => Distinct(Tail(s)) /\ Head(s).id \notin Ids(Tail(s))
<1>1. Tail(s) \in EventSeq /\ Head(s) \in Event /\ s = <<Head(s)>> \o Tail(s)
  <2>1. Tail(s) \in Seq(Event) /\ Head(s) \in Event
    BY HeadTailProperties DEF EventSeq
  <2>2. /\ Len(s) \in Nat \ {0} /\ Tail(s) = SubSeq(s, 2, Len(s)) /\ Head(s) = s[1]
        /\ s = SubSeq(s, 1, Len(s))
    BY TailIsSubSeq, SubSeqFull, Positions, EmptySeq DEF EventSeq
  <2>3. SubSeq(s, 1, Len(s)) = <<s[1]>> \o SubSeq(s, 1 + 1, Len(s))
    <3>1. 1 \in 1 .. Len(s) /\ Len(s) \in 1 .. Len(s)
      BY <2>2
    <3> QED
      BY <3>1, SubSeqRecursiveFirst DEF EventSeq
  <2> QED
    BY <2>1, <2>2, <2>3 DEF EventSeq
<1> DEFINE h == <<Head(s)>>
           t == Tail(s)
<1>2. h \in EventSeq /\ Ids(h) = {Head(s).id} /\ t \in EventSeq /\ s = h \o t
  BY <1>1, OneIds
<1> HIDE DEF h, t
<1>3. /\ Ids(h \o t) = Ids(h) \cup Ids(t)
      /\ Distinct(h \o t) => Distinct(t) /\ Ids(h) \cap Ids(t) = {}
  BY <1>2, ConcatIds
<1> QED
  BY <1>1, <1>2, <1>3 DEF t

-----------------------------------------------------------------------------
(* What the stores of a queue hold, and whether they hold each event once. *)

ChannelIds(a, c) == Ids(a.queues[c]) \cup Ids(a.withheld[c]) \cup Ids(a.cancelled[c])

Held(a) == UNION {ChannelIds(a, c) : c \in Channels}

OnceIn(a, c) ==
  /\ Distinct(a.queues[c]) /\ Distinct(a.withheld[c]) /\ Distinct(a.cancelled[c])
  /\ Ids(a.queues[c]) \cap Ids(a.withheld[c]) = {}
  /\ Ids(a.queues[c]) \cap Ids(a.cancelled[c]) = {}
  /\ Ids(a.withheld[c]) \cap Ids(a.cancelled[c]) = {}

Once(a) ==
  /\ \A c \in Channels : OnceIn(a, c)
  /\ \A c, d \in Channels : c # d => ChannelIds(a, c) \cap ChannelIds(a, d) = {}

OnceBatch(b) == Distinct(b.cancelled) /\ Distinct(b.events) /\ Ids(b.cancelled) \cap Ids(b.events) = {}

\* The stores of b are those of a.
SameStores(a, b) ==
  \A c \in Channels : /\ b.queues[c] = a.queues[c] /\ b.withheld[c] = a.withheld[c]
                      /\ b.cancelled[c] = a.cancelled[c]

\* They are, except for the channel c.
OnlyChannel(a, b, c) ==
  \A d \in Channels \ {c} : /\ b.queues[d] = a.queues[d] /\ b.withheld[d] = a.withheld[d]
                            /\ b.cancelled[d] = a.cancelled[d]

\* A queue's stores are sequences of events.
LEMMA Stores ==
  ASSUME NEW a \in BoundedQueue, NEW c \in Channels
  PROVE  /\ a.queues[c] \in EventSeq /\ a.withheld[c] \in EventSeq /\ a.cancelled[c] \in EventSeq
         /\ a.queues[c] \in CappedSeq
BY SeqFacts DEF BoundedQueue

\* The same stores hold the same events.
LEMMA SameHeld ==
  ASSUME NEW a, NEW b, SameStores(a, b)
  PROVE  Held(b) = Held(a) /\ (Once(a) => Once(b))
<1>1. \A c \in Channels : ChannelIds(b, c) = ChannelIds(a, c)
  BY DEF SameStores, ChannelIds
<1>2. Held(b) = Held(a)
  BY <1>1 DEF Held
<1>3. Once(a) => Once(b)
  BY <1>1 DEF Once, OnceIn, SameStores
<1> QED
  BY <1>2, <1>3

\* One event more at the end.
LEMMA AppendIds ==
  ASSUME NEW s \in EventSeq, NEW e \in Event
  PROVE  /\ Append(s, e) \in EventSeq
         /\ Ids(Append(s, e)) = Ids(s) \cup {e.id}
         /\ Distinct(s) /\ e.id \notin Ids(s) => Distinct(Append(s, e))
<1> DEFINE t == <<e>>
<1>1. t \in EventSeq /\ Ids(t) = {e.id} /\ Distinct(t) /\ Append(s, e) = s \o t
  BY OneIds
<1>2. Append(s, e) \in EventSeq
  BY DEF EventSeq
<1> HIDE DEF t
<1>3. /\ Ids(s \o t) = Ids(s) \cup Ids(t)
      /\ Distinct(s) /\ Distinct(t) /\ Ids(s) \cap Ids(t) = {} => Distinct(s \o t)
  BY <1>1, ConcatIds
<1> QED
  BY <1>1, <1>2, <1>3

\* An operation on one channel.
LEMMA ChannelHeld ==
  ASSUME NEW a, NEW b, NEW c \in Channels, OnlyChannel(a, b, c)
  PROVE  /\ ChannelIds(b, c) \subseteq Held(b) /\ ChannelIds(a, c) \subseteq Held(a)
         /\ \A i \in Held(a) : i \in Held(b) \/ i \in ChannelIds(a, c) \ ChannelIds(b, c)
         /\ \A i \in Held(b) : i \in Held(a) \/ i \in ChannelIds(b, c) \ ChannelIds(a, c)
<1>1. \A d \in Channels \ {c} : ChannelIds(b, d) = ChannelIds(a, d)
  BY DEF OnlyChannel, ChannelIds
<1>2. ASSUME NEW i \in Held(a), i \notin ChannelIds(a, c) PROVE i \in Held(b)
  BY <1>1, <1>2 DEF Held
<1>3. ASSUME NEW i \in Held(b), i \notin ChannelIds(b, c) PROVE i \in Held(a)
  BY <1>1, <1>3 DEF Held
<1>4. ChannelIds(b, c) \subseteq Held(b) /\ ChannelIds(a, c) \subseteq Held(a)
  BY DEF Held
<1> QED
  BY <1>2, <1>3, <1>4

\* It keeps every event once if it does so in its channel and brings in no event that
\* is held already.
LEMMA ChannelOnce ==
  ASSUME NEW a, NEW b, NEW c \in Channels, OnlyChannel(a, b, c), Once(a), OnceIn(b, c), NEW N,
         ChannelIds(b, c) \subseteq ChannelIds(a, c) \cup N, N \cap Held(a) = {}
  PROVE  /\ Once(b)
         /\ \A i \in Held(b) : i \in ChannelIds(a, c) => i \in ChannelIds(b, c)
<1>1. \A d \in Channels \ {c} : ChannelIds(b, d) = ChannelIds(a, d) /\ OnceIn(b, d)
  BY DEF OnlyChannel, ChannelIds, Once, OnceIn
<1>2. \A d \in Channels \ {c} : ChannelIds(b, d) \cap ChannelIds(b, c) = {}
  <2>1. ASSUME NEW d \in Channels \ {c}, NEW i \in ChannelIds(b, d), i \in ChannelIds(b, c) PROVE FALSE
    <3>1. i \in ChannelIds(a, d) /\ i \in Held(a)
      BY <1>1, <2>1 DEF Held
    <3>2. i \in ChannelIds(a, c)
      BY <2>1, <3>1
    <3> QED
      BY <2>1, <3>1, <3>2 DEF Once
  <2> QED
    BY <2>1
<1>3. Once(b)
  BY <1>1, <1>2 DEF Once
<1>4. ASSUME NEW i \in Held(b), i \in ChannelIds(a, c) PROVE i \in ChannelIds(b, c)
  <2>1. PICK d \in Channels : i \in ChannelIds(b, d)
    BY DEF Held
  <2>2. d # c => i \in ChannelIds(a, d)
    BY <1>1, <2>1
  <2> QED
    BY <1>4, <2>1, <2>2 DEF Once
<1> QED
  BY <1>3, <1>4

\* push: the new event comes in, the oldest may go.
LEMMA PushHeld ==
  ASSUME NEW a \in BoundedQueue, NEW c \in Channels, NEW e \in Event
  PROVE  LET b == Push(a, c, e) IN
         /\ \A i \in Held(a) : i \in Held(b) \/ i \in PushEvicts(a, c)
         /\ \A i \in PushEvicts(a, c) : i \in Held(a)
         /\ e.id \in Ids(b.queues[c]) /\ e.id \in Held(b)
         /\ \A i \in Held(b) : i \in Held(a) \/ i = e.id
         /\ \A d \in Channels : b.withheld[d] = a.withheld[d] /\ b.cancelled[d] = a.cancelled[d]
         /\ Once(a) /\ e.id \notin Held(a) => Once(b) /\ \A i \in PushEvicts(a, c) : i \notin Held(b)
<1> DEFINE old == a.queues[c]
           kept == IF Len(old) >= MaxPending THEN Tail(old) ELSE old
           b == Push(a, c, e)
<1>1. old \in EventSeq /\ MaxPending \in Nat \ {0} /\ Len(<<>>) = 0
  BY Stores, QueueAssumption
<1>2. kept \in EventSeq /\ Ids(old) = PushEvicts(a, c) \cup Ids(kept)
      /\ (Distinct(old) => Distinct(kept) /\ PushEvicts(a, c) \cap Ids(kept) = {})
  BY <1>1, TailIds DEF PushEvicts
<1>3. b.queues[c] = Append(kept, e) /\ OnlyChannel(a, b, c)
      /\ b.withheld[c] = a.withheld[c] /\ b.cancelled[c] = a.cancelled[c]
  BY DEF Push, BoundedQueue, OnlyChannel
<1> HIDE DEF kept, b
<1>4. /\ Ids(b.queues[c]) = Ids(kept) \cup {e.id}
      /\ Distinct(kept) /\ e.id \notin Ids(kept) => Distinct(b.queues[c])
  BY <1>2, <1>3, AppendIds
<1>5. ChannelIds(b, c) \cup PushEvicts(a, c) = ChannelIds(a, c) \cup PushEvicts(a, c) \cup {e.id}
  BY <1>2, <1>3, <1>4 DEF ChannelIds
<1>6. ASSUME Once(a), e.id \notin Held(a) PROVE Once(b) /\ \A i \in PushEvicts(a, c) : i \notin Held(b)
  <2>1. OnceIn(a, c) /\ e.id \notin ChannelIds(a, c)
    BY <1>6 DEF Once, Held
  <2>2. OnceIn(b, c) /\ ChannelIds(b, c) \subseteq ChannelIds(a, c) \cup {e.id}
    BY <1>2, <1>3, <1>4, <2>1 DEF OnceIn, ChannelIds
  <2>3. \A i \in PushEvicts(a, c) : i \in ChannelIds(a, c) /\ i \notin ChannelIds(b, c)
    BY <1>2, <1>3, <1>4, <2>1 DEF OnceIn, ChannelIds
  <2>4. {e.id} \cap Held(a) = {}
    BY <1>6
  <2> QED
    BY <1>3, <1>6, <2>2, <2>3, <2>4, ChannelOnce
<1>7. \A i \in Held(a) : i \in Held(b) \/ i \in PushEvicts(a, c)
  <2> TAKE i \in Held(a)
  <2>1. i \in Held(b) \/ i \in ChannelIds(a, c) \ ChannelIds(b, c)
    BY <1>3, ChannelHeld
  <2> QED
    BY <1>5, <2>1
<1>8. \A i \in Held(b) : i \in Held(a) \/ i = e.id
  <2> TAKE i \in Held(b)
  <2>1. i \in Held(a) \/ i \in ChannelIds(b, c) \ ChannelIds(a, c)
    BY <1>3, ChannelHeld
  <2>2. PushEvicts(a, c) \subseteq ChannelIds(a, c)
    BY <1>2 DEF ChannelIds
  <2> QED
    BY <1>5, <2>1, <2>2
<1>9. e.id \in Ids(b.queues[c]) /\ e.id \in Held(b)
  BY <1>4 DEF Held, ChannelIds
<1>10. \A d \in Channels : b.withheld[d] = a.withheld[d] /\ b.cancelled[d] = a.cancelled[d]
  BY <1>3 DEF OnlyChannel
<1>11. \A i \in PushEvicts(a, c) : i \in Held(a)
  BY <1>2 DEF Held, ChannelIds
<1> QED
  BY <1>6, <1>7, <1>8, <1>9, <1>10, <1>11 DEF b

\* mark_native_steer_pending: a queued event is set aside.
LEMMA SteerHeld ==
  ASSUME NEW a \in BoundedQueue, NEW c \in Channels, NEW id \in Ids(a.queues[c])
  PROVE  LET b == MarkNativeSteerPending(a, c, id) IN
         /\ Held(b) = Held(a)
         /\ Ids(b.withheld[c]) = Ids(a.withheld[c]) \cup {id}
         /\ \A d \in Channels : /\ b.cancelled[d] = a.cancelled[d]
                                /\ d # c => b.withheld[d] = a.withheld[d]
         /\ Distinct(a.withheld[c]) /\ id \notin Ids(a.withheld[c]) => Distinct(b.withheld[c])
         /\ Once(a) => Once(b)
<1> DEFINE p == PositionOf(a.queues[c], id)
           b == MarkNativeSteerPending(a, c, id)
           rest == RemoveAt(a.queues[c], p)
           ev == a.queues[c][p]
<1>1. a.queues[c] \in EventSeq /\ a.withheld[c] \in EventSeq
  BY Stores
<1>2. /\ rest \in EventSeq /\ ev \in Event /\ ev.id = id
      /\ Ids(rest) \cup {id} = Ids(a.queues[c])
      /\ Distinct(a.queues[c]) => Distinct(rest) /\ id \notin Ids(rest)
  BY <1>1, TakeOutIds
<1>3. /\ b.queues[c] = rest /\ b.withheld[c] = Append(a.withheld[c], ev) /\ OnlyChannel(a, b, c)
      /\ b.cancelled[c] = a.cancelled[c]
  BY DEF MarkNativeSteerPending, BoundedQueue, OnlyChannel
<1> HIDE DEF rest, ev, p, b
<1>4. /\ Ids(b.withheld[c]) = Ids(a.withheld[c]) \cup {id}
      /\ Distinct(a.withheld[c]) /\ id \notin Ids(a.withheld[c]) => Distinct(b.withheld[c])
  BY <1>1, <1>2, <1>3, AppendIds
<1>5. ChannelIds(b, c) = ChannelIds(a, c)
  BY <1>2, <1>3, <1>4 DEF ChannelIds
<1>6. Once(a) => Once(b)
  <2>1. ASSUME Once(a) PROVE OnceIn(b, c)
    BY <1>2, <1>3, <1>4, <2>1 DEF Once, OnceIn
  <2>2. ChannelIds(b, c) \subseteq ChannelIds(a, c) \cup {} /\ {} \cap Held(a) = {}
    BY <1>5
  <2> QED
    BY <1>3, <2>1, <2>2, ChannelOnce
<1>7. Held(b) = Held(a)
  <2>1. /\ \A i \in Held(a) : i \in Held(b) \/ i \in ChannelIds(a, c) \ ChannelIds(b, c)
        /\ \A i \in Held(b) : i \in Held(a) \/ i \in ChannelIds(b, c) \ ChannelIds(a, c)
    BY <1>3, ChannelHeld
  <2> HIDE DEF Held
  <2> QED
    BY <1>5, <2>1
<1> QED
  BY <1>3, <1>4, <1>6, <1>7 DEF b, OnlyChannel

\* release_native_steer: a withheld event goes back to the front.
LEMMA ReleaseHeld ==
  ASSUME NEW a \in BoundedQueue, NEW c \in Channels, NEW id
  PROVE  LET b == ReleaseNativeSteer(a, c, id) IN
         /\ \A i \in Held(a) : i \in Held(b) \/ i \in ReleaseTrims(a, c, id)
         /\ \A i \in ReleaseTrims(a, c, id) : i \in Held(a)
         /\ \A i \in Held(b) : i \in Held(a)
         /\ \A d \in Channels : /\ b.cancelled[d] = a.cancelled[d]
                                /\ d # c => b.withheld[d] = a.withheld[d]
         /\ Distinct(a.withheld[c]) => /\ Distinct(b.withheld[c])
                                       /\ Ids(b.withheld[c]) = Ids(a.withheld[c]) \ {id}
         /\ Once(a) => Once(b) /\ \A i \in ReleaseTrims(a, c, id) : i \notin Held(b)
<1> DEFINE b == ReleaseNativeSteer(a, c, id)
<1>1. CASE id \notin Ids(a.withheld[c])
  BY <1>1 DEF ReleaseNativeSteer, ReleaseTrims
<1>2. CASE id \in Ids(a.withheld[c])
  <2> DEFINE p == PositionOf(a.withheld[c], id)
             rest == RemoveAt(a.withheld[c], p)
             ev == a.withheld[c][p]
             all == Released(a, c, id)
             back == TrimBack(all)
             out == ReleaseTrims(a, c, id)
  <2>1. a.queues[c] \in EventSeq /\ a.withheld[c] \in EventSeq
    BY Stores
  <2>2. /\ rest \in EventSeq /\ ev \in Event /\ ev.id = id
        /\ Ids(rest) \cup {id} = Ids(a.withheld[c])
        /\ Distinct(a.withheld[c]) => Distinct(rest) /\ id \notin Ids(rest)
    BY <1>2, <2>1, TakeOutIds
  <2>3. /\ b.withheld[c] = rest /\ b.queues[c] = back /\ OnlyChannel(a, b, c)
        /\ b.cancelled[c] = a.cancelled[c]
    BY <1>2 DEF ReleaseNativeSteer, BoundedQueue, OnlyChannel
  <2>4. all = <<ev>> \o a.queues[c] /\ out = Ids(Trimmed(all))
    BY <1>2 DEF Released, ReleaseTrims
  <2> HIDE DEF rest, ev, p, b, all, out
  <2>5. /\ all \in EventSeq /\ Ids(all) = {id} \cup Ids(a.queues[c])
        /\ Distinct(a.queues[c]) /\ id \notin Ids(a.queues[c]) => Distinct(all)
    <3>1. <<ev>> \in EventSeq /\ Ids(<<ev>>) = {id} /\ Distinct(<<ev>>)
      BY <2>1, <2>2, OneIds
    <3>2. <<ev>> \o a.queues[c] \in EventSeq
      BY <2>1, <2>2, SeqFacts
    <3> QED
      BY <2>1, <2>4, <3>1, <3>2, ConcatIds
  <2>6. /\ Ids(all) = Ids(back) \cup out
        /\ Distinct(all) => Distinct(back) /\ Ids(back) \cap out = {}
    BY <2>4, <2>5, TrimIds
  <2> HIDE DEF back
  <2>7. /\ ChannelIds(b, c) \cup out = ChannelIds(a, c) \cup out
        /\ ChannelIds(b, c) \subseteq ChannelIds(a, c)
    BY <2>2, <2>3, <2>5, <2>6 DEF ChannelIds
  <2>8. ASSUME Once(a) PROVE Once(b) /\ \A i \in out : i \notin Held(b)
    <3>1. OnceIn(a, c)
      BY <2>8 DEF Once
    <3>2. Distinct(all) /\ id \notin Ids(rest)
      BY <1>2, <2>2, <2>5, <3>1 DEF OnceIn
    <3>3. OnceIn(b, c)
      BY <1>2, <2>2, <2>3, <2>5, <2>6, <3>1, <3>2 DEF OnceIn
    <3>4. \A i \in out : i \in ChannelIds(a, c) /\ i \notin ChannelIds(b, c)
      BY <1>2, <2>2, <2>3, <2>5, <2>6, <3>1, <3>2 DEF OnceIn, ChannelIds
    <3>5. ChannelIds(b, c) \subseteq ChannelIds(a, c) \cup {} /\ {} \cap Held(a) = {}
      BY <2>7
    <3> QED
      BY <2>3, <2>8, <3>3, <3>4, <3>5, ChannelOnce
  <2>9. /\ \A i \in Held(a) : i \in Held(b) \/ i \in out
        /\ \A i \in Held(b) : i \in Held(a)
    BY <2>3, <2>7, ChannelHeld
  <2>10. Distinct(a.withheld[c]) => Distinct(b.withheld[c]) /\ Ids(b.withheld[c]) = Ids(a.withheld[c]) \ {id}
    BY <2>2, <2>3
  <2>11. \A i \in out : i \in Held(a)
    BY <1>2, <2>5, <2>6 DEF Held, ChannelIds
  <2> QED
    BY <2>3, <2>8, <2>9, <2>10, <2>11 DEF b, out, OnlyChannel
<1> QED
  BY <1>1, <1>2

\* remove_event: a delivered steer is taken out of the queue and of what is withheld.
LEMMA RemoveHeld ==
  ASSUME NEW a \in BoundedQueue, NEW c \in Channels, NEW id
  PROVE  LET b == RemoveEvent(a, c, id) IN
         /\ \A i \in Held(a) : i \in Held(b) \/ i = id
         /\ \A i \in Held(b) : i \in Held(a)
         /\ \A d \in Channels : /\ b.cancelled[d] = a.cancelled[d]
                                /\ d # c => b.withheld[d] = a.withheld[d]
         /\ Ids(b.withheld[c]) = Ids(a.withheld[c]) \ {id}
         /\ Distinct(a.withheld[c]) => Distinct(b.withheld[c])
         /\ Once(a) => Once(b) /\ (id \in Ids(a.withheld[c]) => id \notin Held(b))
<1> DEFINE b == RemoveEvent(a, c, id)
<1>1. a.queues[c] \in EventSeq /\ a.withheld[c] \in EventSeq
  BY Stores
<1>2. /\ b.queues[c] = Without(a.queues[c], id) /\ b.withheld[c] = Without(a.withheld[c], id)
      /\ OnlyChannel(a, b, c) /\ b.cancelled[c] = a.cancelled[c]
  BY DEF RemoveEvent, BoundedQueue, OnlyChannel
<1> HIDE DEF b
<1>3. /\ Ids(b.queues[c]) = Ids(a.queues[c]) \ {id} /\ Ids(b.withheld[c]) = Ids(a.withheld[c]) \ {id}
      /\ Distinct(a.queues[c]) => Distinct(b.queues[c])
      /\ Distinct(a.withheld[c]) => Distinct(b.withheld[c])
  BY <1>1, <1>2, WithoutIds
<1>4. ChannelIds(b, c) \cup {id} = ChannelIds(a, c) \cup {id} /\ ChannelIds(b, c) \subseteq ChannelIds(a, c)
  BY <1>2, <1>3 DEF ChannelIds
<1>5. ASSUME Once(a) PROVE Once(b) /\ (id \in Ids(a.withheld[c]) => id \notin Held(b))
  <2>1. OnceIn(a, c) /\ OnceIn(b, c)
    BY <1>2, <1>3, <1>5 DEF Once, OnceIn
  <2>2. ChannelIds(b, c) \subseteq ChannelIds(a, c) \cup {} /\ {} \cap Held(a) = {}
    BY <1>4
  <2>3. id \in Ids(a.withheld[c]) => id \in ChannelIds(a, c) /\ id \notin ChannelIds(b, c)
    BY <1>2, <1>3, <2>1 DEF OnceIn, ChannelIds
  <2> QED
    BY <1>2, <1>5, <2>1, <2>2, <2>3, ChannelOnce
<1> QED
  BY <1>2, <1>3, <1>4, <1>5, ChannelHeld DEF b, OnlyChannel

\* Events go to the front of one channel's queue; those past the cap go.
LEMMA FrontHeld ==
  ASSUME NEW a \in BoundedQueue, NEW b, NEW c \in Channels, NEW s \in EventSeq,
         OnlyChannel(a, b, c), b.withheld[c] = a.withheld[c], b.cancelled[c] = a.cancelled[c],
         b.queues[c] = TrimBack(s \o a.queues[c])
  PROVE  LET out == Ids(Trimmed(s \o a.queues[c])) IN
         /\ \A i \in Held(a) \cup Ids(s) : i \in Held(b) \/ i \in out
         /\ \A i \in out : i \in Held(a) \/ i \in Ids(s)
         /\ \A i \in Held(b) : i \in Held(a) \/ i \in Ids(s)
         /\ Once(a) /\ Distinct(s) /\ Ids(s) \cap Held(a) = {} =>
              Once(b) /\ \A i \in out : i \notin Held(b)
<1> DEFINE all == s \o a.queues[c]
           back == TrimBack(all)
           out == Ids(Trimmed(all))
<1>1. a.queues[c] \in EventSeq
  BY Stores
<1>2. /\ all \in EventSeq /\ Ids(all) = Ids(s) \cup Ids(a.queues[c])
      /\ Distinct(s) /\ Distinct(a.queues[c]) /\ Ids(s) \cap Ids(a.queues[c]) = {} => Distinct(all)
  BY <1>1, ConcatIds, SeqFacts
<1> HIDE DEF all
<1>3. Ids(all) = Ids(back) \cup out /\ (Distinct(all) => Distinct(back) /\ Ids(back) \cap out = {})
  BY <1>2, TrimIds
<1>4. b.queues[c] = back
  BY DEF all
<1> HIDE DEF back, out
<1>5. /\ ChannelIds(b, c) \cup out = ChannelIds(a, c) \cup Ids(s) \cup out
      /\ ChannelIds(b, c) \subseteq ChannelIds(a, c) \cup Ids(s)
  BY <1>2, <1>3, <1>4 DEF ChannelIds
<1>6. /\ ChannelIds(b, c) \subseteq Held(b) /\ ChannelIds(a, c) \subseteq Held(a)
      /\ \A i \in Held(a) : i \in Held(b) \/ i \in ChannelIds(a, c) \ ChannelIds(b, c)
      /\ \A i \in Held(b) : i \in Held(a) \/ i \in ChannelIds(b, c) \ ChannelIds(a, c)
  BY ChannelHeld
<1>7. ASSUME Once(a), Distinct(s), Ids(s) \cap Held(a) = {}
      PROVE  Once(b) /\ \A i \in out : i \notin Held(b)
  <2>1. OnceIn(a, c) /\ Ids(s) \cap ChannelIds(a, c) = {}
    BY <1>6, <1>7 DEF Once
  <2>2. Distinct(all)
    BY <1>2, <1>7, <2>1 DEF OnceIn, ChannelIds
  <2>3. OnceIn(b, c)
    BY <1>2, <1>3, <1>4, <2>1, <2>2 DEF OnceIn, ChannelIds
  <2>4. Once(b) /\ \A i \in Held(b) : i \in ChannelIds(a, c) => i \in ChannelIds(b, c)
    BY <1>5, <1>7, <2>3, ChannelOnce
  <2>5. \A i \in out : i \notin ChannelIds(b, c) /\ (i \in ChannelIds(a, c) \/ i \in Ids(s))
    BY <1>2, <1>3, <1>4, <2>1, <2>2 DEF OnceIn, ChannelIds
  <2>6. \A i \in out : i \in Ids(s) => i \notin Held(b)
    BY <1>6, <1>7, <2>5
  <2> QED
    BY <2>4, <2>5, <2>6
<1>8. \A i \in Held(a) \cup Ids(s) : i \in Held(b) \/ i \in out
  BY <1>5, <1>6
<1>9. \A i \in Held(b) : i \in Held(a) \/ i \in Ids(s)
  BY <1>5, <1>6
<1>10. \A i \in out : i \in Held(a) \/ i \in Ids(s)
  BY <1>2, <1>3, <1>6 DEF ChannelIds
<1> QED
  BY <1>7, <1>8, <1>9, <1>10 DEF out, all

\* requeue within the budget, and requeue_preserve_timestamps.
LEMMA RequeueHeld ==
  ASSUME NEW a \in BoundedQueue, NEW t \in Batch, NEW b,
         \/ ~RetriesExhausted(a, t.ch) /\ b = Requeue(a, t)
         \/ b = RequeuePreserve(a, t)
  PROVE  /\ \A i \in Held(a) \cup Ids(t.events) : i \in Held(b) \/ i \in RequeueTrims(a, t)
         /\ \A i \in RequeueTrims(a, t) : i \in Held(a) \/ i \in Ids(t.events)
         /\ \A i \in Held(b) : i \in Held(a) \/ i \in Ids(t.events)
         /\ \A d \in Channels : b.withheld[d] = a.withheld[d] /\ b.cancelled[d] = a.cancelled[d]
         /\ Once(a) /\ Distinct(t.events) /\ Ids(t.events) \cap Held(a) = {} =>
              Once(b) /\ \A i \in RequeueTrims(a, t) : i \notin Held(b)
<1> DEFINE c == t.ch
           s == t.events
<1>1. c \in Channels /\ s \in EventSeq
  BY DEF Batch, EventSeq
<1>2. /\ OnlyChannel(a, b, c) /\ b.withheld[c] = a.withheld[c] /\ b.cancelled[c] = a.cancelled[c]
      /\ b.queues[c] = TrimBack(s \o a.queues[c])
  BY ZenonT(40), <1>1 DEF Requeue, RequeuePreserve, BoundedQueue, OnlyChannel
<1>3. RequeueTrims(a, t) = Ids(Trimmed(s \o a.queues[c]))
  BY DEF RequeueTrims
<1>4. \A d \in Channels : b.withheld[d] = a.withheld[d] /\ b.cancelled[d] = a.cancelled[d]
  BY <1>2 DEF OnlyChannel
<1> HIDE DEF c, s
<1> QED
  BY <1>1, <1>2, <1>3, <1>4, FrontHeld DEF s

\* requeue past the budget leaves the stores.
LEMMA ExhaustedHeld ==
  ASSUME NEW a \in BoundedQueue, NEW t \in Batch, RetriesExhausted(a, t.ch)
  PROVE  SameStores(a, Requeue(a, t))
BY DEF Requeue, BoundedQueue, SameStores

\* mark_complete, the deadline's extension and compaction do.
LEMMA StoresKept ==
  ASSUME NEW a \in BoundedQueue, NEW c \in Channels
  PROVE  /\ SameStores(a, MarkComplete(a, c)) /\ SameStores(a, ExtendDeadline(a, c))
         /\ SameStores(a, CompactExpiredState(a))
BY DEF MarkComplete, ExtendDeadline, CompactExpiredState, BoundedQueue, SameStores

\* requeue_as_cancelled stores the whole batch.
LEMMA CancelHeld ==
  ASSUME NEW a \in BoundedQueue, NEW t \in Batch
  PROVE  LET b == RequeueAsCancelled(a, t) IN
         /\ Held(b) = Held(a) \cup BatchIds(t)
         /\ \A d \in Channels : /\ b.withheld[d] = a.withheld[d]
                                /\ \A i \in Ids(b.cancelled[d]) : i \in Ids(a.cancelled[d]) \/ i \in BatchIds(t)
         /\ Once(a) /\ OnceBatch(t) /\ BatchIds(t) \cap Held(a) = {} => Once(b)
<1> DEFINE c == t.ch
           b == RequeueAsCancelled(a, t)
           u == a.cancelled[c] \o t.cancelled
           v == u \o t.events
<1>1. c \in Channels /\ t.events \in EventSeq /\ t.cancelled \in EventSeq
  BY DEF Batch, EventSeq
<1>2. a.cancelled[c] \in EventSeq
  BY <1>1, Stores
<1>3. /\ u \in EventSeq /\ Ids(u) = Ids(a.cancelled[c]) \cup Ids(t.cancelled)
      /\ Distinct(a.cancelled[c]) /\ Distinct(t.cancelled) /\ Ids(a.cancelled[c]) \cap Ids(t.cancelled) = {}
           => Distinct(u)
  BY <1>1, <1>2, ConcatIds, SeqFacts
<1>4. /\ OnlyChannel(a, b, c) /\ b.withheld[c] = a.withheld[c] /\ b.queues[c] = a.queues[c]
      /\ b.cancelled[c] = v
  BY <1>1 DEF RequeueAsCancelled, BoundedQueue, OnlyChannel
<1> HIDE DEF u, b
<1>5. /\ Ids(v) = Ids(u) \cup Ids(t.events)
      /\ Distinct(u) /\ Distinct(t.events) /\ Ids(u) \cap Ids(t.events) = {} => Distinct(v)
  BY <1>1, <1>3, ConcatIds
<1> HIDE DEF v
<1>6. ChannelIds(b, c) = ChannelIds(a, c) \cup BatchIds(t)
  BY <1>3, <1>4, <1>5 DEF ChannelIds, BatchIds
<1> HIDE DEF c
<1>7. /\ ChannelIds(b, c) \subseteq Held(b) /\ ChannelIds(a, c) \subseteq Held(a)
      /\ \A i \in Held(a) : i \in Held(b) \/ i \in ChannelIds(a, c) \ ChannelIds(b, c)
      /\ \A i \in Held(b) : i \in Held(a) \/ i \in ChannelIds(b, c) \ ChannelIds(a, c)
  BY <1>1, <1>4, ChannelHeld
<1>8. Held(b) = Held(a) \cup BatchIds(t)
  BY <1>6, <1>7
<1>9. \A d \in Channels : /\ b.withheld[d] = a.withheld[d]
                          /\ \A i \in Ids(b.cancelled[d]) : i \in Ids(a.cancelled[d]) \/ i \in BatchIds(t)
  <2>1. \A i \in Ids(b.cancelled[c]) : i \in Ids(a.cancelled[c]) \/ i \in BatchIds(t)
    BY <1>3, <1>4, <1>5 DEF BatchIds
  <2> QED
    BY <1>4, <2>1 DEF OnlyChannel
<1>10. ASSUME Once(a), OnceBatch(t), BatchIds(t) \cap Held(a) = {} PROVE Once(b)
  <2>1. OnceIn(a, c) /\ BatchIds(t) \cap ChannelIds(a, c) = {}
    BY <1>1, <1>7, <1>10 DEF Once
  <2>2. Distinct(v)
    BY <1>3, <1>5, <1>10, <2>1 DEF OnceIn, OnceBatch, ChannelIds, BatchIds
  <2>3. OnceIn(b, c)
    BY <1>3, <1>4, <1>5, <2>1, <2>2 DEF OnceIn, ChannelIds, BatchIds
  <2>4. ChannelIds(b, c) \subseteq ChannelIds(a, c) \cup BatchIds(t)
    BY <1>6
  <2> QED
    BY <1>1, <1>4, <1>10, <2>3, <2>4, ChannelOnce
<1> QED
  BY <1>8, <1>9, <1>10 DEF b

\* drain_channel drops what the channel holds.
LEMMA DrainHeld ==
  ASSUME NEW a \in BoundedQueue, NEW c \in Channels
  PROVE  LET b == DrainChannel(a, c) IN
         /\ \A i \in Held(a) : i \in Held(b) \/ i \in ChannelIds(a, c)
         /\ \A i \in Held(b) : i \in Held(a)
         /\ b.withheld[c] = <<>> /\ b.cancelled[c] = <<>>
         /\ \A d \in Channels \ {c} : b.withheld[d] = a.withheld[d] /\ b.cancelled[d] = a.cancelled[d]
         /\ Once(a) => Once(b) /\ \A i \in ChannelIds(a, c) : i \notin Held(b)
<1> DEFINE b == DrainChannel(a, c)
<1>1. /\ OnlyChannel(a, b, c) /\ b.withheld[c] = <<>> /\ b.queues[c] = <<>> /\ b.cancelled[c] = <<>>
  BY DEF DrainChannel, BoundedQueue, OnlyChannel
<1> HIDE DEF b
<1>2. ChannelIds(b, c) = {} /\ OnceIn(b, c)
  BY <1>1, EmptyIds DEF ChannelIds, OnceIn
<1>3. /\ \A i \in Held(a) : i \in Held(b) \/ i \in ChannelIds(a, c) \ ChannelIds(b, c)
      /\ \A i \in Held(b) : i \in Held(a) \/ i \in ChannelIds(b, c) \ ChannelIds(a, c)
  BY <1>1, ChannelHeld
<1>4. ASSUME Once(a) PROVE Once(b) /\ \A i \in ChannelIds(a, c) : i \notin Held(b)
  <2>1. ChannelIds(b, c) \subseteq ChannelIds(a, c) \cup {} /\ {} \cap Held(a) = {}
    BY <1>2
  <2> QED
    BY <1>1, <1>2, <1>4, <2>1, ChannelOnce
<1>5. \A d \in Channels \ {c} : b.withheld[d] = a.withheld[d] /\ b.cancelled[d] = a.cancelled[d]
  BY <1>1 DEF OnlyChannel
<1> QED
  BY <1>1, <1>2, <1>3, <1>4, <1>5 DEF b

\* The expiry of lapsed turns puts what they withheld back into the queues.
LEMMA ExpireHeld ==
  ASSUME NEW a \in BoundedQueue
  PROVE  LET x == ExpireInFlight(a) IN
         /\ \A i \in Held(a) : i \in Held(x) \/ i \in ExpiryTrims(a)
         /\ \A d \in Channels : /\ x.cancelled[d] = a.cancelled[d]
                                /\ x.withheld[d] = a.withheld[d] \/ x.withheld[d] = <<>>
<1> DEFINE x == ExpireInFlight(a)
           X == Expired(a)
<1>1. ASSUME NEW d \in Channels, d \notin X
      PROVE  x.queues[d] = a.queues[d] /\ x.withheld[d] = a.withheld[d] /\ x.cancelled[d] = a.cancelled[d]
  BY <1>1 DEF ExpireInFlight, BoundedQueue
<1>2. ASSUME NEW d \in Channels, d \in X
      PROVE  /\ x.queues[d] = TrimBack(a.withheld[d] \o a.queues[d]) /\ x.withheld[d] = <<>>
             /\ x.cancelled[d] = a.cancelled[d]
  BY <1>2 DEF ExpireInFlight, BoundedQueue
<1>3. \A d \in X : Ids(Trimmed(a.withheld[d] \o a.queues[d])) \subseteq ExpiryTrims(a)
  BY DEF ExpiryTrims
<1> HIDE DEF x, X
<1>4. ASSUME NEW d \in Channels, NEW i \in ChannelIds(a, d) PROVE i \in ChannelIds(x, d) \/ i \in ExpiryTrims(a)
  <2>1. CASE d \notin X
    BY <1>1, <1>4, <2>1 DEF ChannelIds
  <2>2. CASE d \in X
    <3> DEFINE all == a.withheld[d] \o a.queues[d]
    <3>1. a.withheld[d] \in EventSeq /\ a.queues[d] \in EventSeq
      BY Stores
    <3>2. all \in EventSeq /\ Ids(all) = Ids(a.withheld[d]) \cup Ids(a.queues[d])
      BY <3>1, SeqFacts, ConcatIds
    <3>3. Ids(Trimmed(all)) \subseteq ExpiryTrims(a) /\ x.queues[d] = TrimBack(all)
          /\ x.cancelled[d] = a.cancelled[d]
      BY <1>2, <1>3, <2>2
    <3> HIDE DEF all
    <3>4. Ids(all) = Ids(x.queues[d]) \cup Ids(Trimmed(all))
      BY <3>2, <3>3, TrimIds
    <3> QED
      BY <1>4, <3>2, <3>3, <3>4 DEF ChannelIds
  <2> QED
    BY <2>1, <2>2
<1>5. \A i \in Held(a) : i \in Held(x) \/ i \in ExpiryTrims(a)
  BY <1>4 DEF Held
<1> QED
  BY <1>1, <1>2, <1>5 DEF x

\* What a flush of channel c keeps and hands out.
FlushOf(x, r, c) ==
  /\ r.batch.ch = c
  /\ OnlyChannel(x, r.q, c) /\ r.q.withheld[c] = x.withheld[c] /\ r.q.cancelled[c] = <<>>
  /\ Ids(x.queues[c]) \cup Ids(x.cancelled[c]) = Ids(r.q.queues[c]) \cup BatchIds(r.batch)
  /\ Ids(r.batch.cancelled) \subseteq Ids(x.cancelled[c])
  /\ OnceIn(x, c) => /\ OnceIn(r.q, c) /\ OnceBatch(r.batch)
                     /\ Ids(r.q.queues[c]) \cap BatchIds(r.batch) = {}

\* The main path of flush_next.
LEMMA FlushQueuedHeld ==
  ASSUME NEW x \in BoundedQueue, NEW c \in Channels
  PROVE  FlushOf(x, FlushQueued(x, c), c)
<1> DEFINE s == x.queues[c]
           n == IF Len(s) < MaxBatch THEN Len(s) ELSE MaxBatch
           u == SubSeq(s, 1, n)
           v == SubSeq(s, n + 1, Len(s))
           w == SortByCreatedAt(u)
           r == FlushQueued(x, c)
<1>1. s \in EventSeq /\ x.cancelled[c] \in EventSeq
  BY Stores
<1>2. n \in 0 .. Len(s)
  BY <1>1, Positions, QueueAssumption
<1>3. /\ OnlyChannel(x, r.q, c) /\ r.q.withheld[c] = x.withheld[c] /\ r.q.cancelled[c] = <<>>
      /\ r.q.queues[c] = v /\ r.batch.events = w /\ r.batch.cancelled = x.cancelled[c] /\ r.batch.ch = c
  BY DEF FlushQueued, MarkInFlight, BoundedQueue, OnlyChannel
<1> HIDE DEF n
<1>4. u \in EventSeq /\ v \in EventSeq /\ s = u \o v
  BY <1>1, <1>2, CutIds
<1> HIDE DEF s, u, v, r
<1>5. Ids(w) = Ids(u) /\ (Distinct(u) => Distinct(w))
  BY <1>4, SortIds
<1> HIDE DEF w
<1>6. /\ Ids(u \o v) = Ids(u) \cup Ids(v)
      /\ Distinct(u \o v) => Distinct(u) /\ Distinct(v) /\ Ids(u) \cap Ids(v) = {}
  BY <1>4, ConcatIds
<1>7. Ids(x.queues[c]) = Ids(w) \cup Ids(v)
      /\ (Distinct(x.queues[c]) => Distinct(w) /\ Distinct(v) /\ Ids(w) \cap Ids(v) = {})
  BY <1>4, <1>5, <1>6 DEF s
<1>8. OnceIn(x, c) => /\ OnceIn(r.q, c) /\ OnceBatch(r.batch)
                      /\ Ids(r.q.queues[c]) \cap BatchIds(r.batch) = {}
  BY <1>3, <1>7, EmptyIds DEF OnceIn, OnceBatch, BatchIds
<1>9. Ids(x.queues[c]) \cup Ids(x.cancelled[c]) = Ids(r.q.queues[c]) \cup BatchIds(r.batch)
  BY <1>3, <1>7 DEF BatchIds
<1> QED
  BY <1>3, <1>8, <1>9 DEF FlushOf, r

\* The fallback of flush_next.
LEMMA FlushCancelledHeld ==
  ASSUME NEW x \in BoundedQueue, NEW c \in Channels
  PROVE  FlushOf(x, FlushCancelled(x, c), c)
<1> DEFINE r == FlushCancelled(x, c)
<1>1. /\ OnlyChannel(x, r.q, c) /\ r.q.withheld[c] = x.withheld[c] /\ r.q.cancelled[c] = <<>>
      /\ r.q.queues[c] = x.queues[c] /\ r.batch.events = x.cancelled[c] /\ r.batch.cancelled = <<>>
      /\ r.batch.ch = c
  BY DEF FlushCancelled, MarkInFlight, BoundedQueue, OnlyChannel
<1> HIDE DEF r
<1>2. OnceIn(x, c) => /\ OnceIn(r.q, c) /\ OnceBatch(r.batch)
                      /\ Ids(r.q.queues[c]) \cap BatchIds(r.batch) = {}
  BY <1>1, EmptyIds DEF OnceIn, OnceBatch, BatchIds
<1>3. Ids(x.queues[c]) \cup Ids(x.cancelled[c]) = Ids(r.q.queues[c]) \cup BatchIds(r.batch)
  BY <1>1, EmptyIds DEF BatchIds
<1>4. Ids(r.batch.cancelled) \subseteq Ids(x.cancelled[c])
  BY <1>1, EmptyIds
<1> QED
  BY <1>1, <1>2, <1>3, <1>4 DEF FlushOf, r

\* flush_next moves a channel's events from the stores to the batch.
LEMMA FlushHeld ==
  ASSUME NEW a \in BoundedQueue, NEW r \in FlushNext(a)
  PROVE  LET x == ExpireInFlight(a) IN
         /\ Held(x) = Held(r.q) \cup BatchIds(r.batch)
         /\ \A i \in Ids(r.batch.cancelled) : i \in Ids(x.cancelled[r.batch.ch])
         /\ \A d \in Channels : /\ r.q.withheld[d] = x.withheld[d]
                                /\ Ids(r.q.cancelled[d]) \subseteq Ids(x.cancelled[d])
         /\ Once(x) => Once(r.q) /\ OnceBatch(r.batch) /\ BatchIds(r.batch) \cap Held(r.q) = {}
<1> DEFINE x == ExpireInFlight(a)
<1>1. x \in BoundedQueue
  BY ExpireBounded
<1>2. PICK c \in Channels : r \in {FlushQueued(x, c), FlushCancelled(x, c)}
  BY DEF FlushNext, OldestHead, Flushable, CancelledReady
<1> HIDE DEF x
<1>3. FlushOf(x, r, c)
  BY <1>1, <1>2, FlushQueuedHeld, FlushCancelledHeld
<1>4. /\ ChannelIds(x, c) = ChannelIds(r.q, c) \cup BatchIds(r.batch)
  BY <1>3, EmptyIds DEF FlushOf, ChannelIds
<1>5. /\ ChannelIds(r.q, c) \subseteq Held(r.q) /\ ChannelIds(x, c) \subseteq Held(x)
      /\ \A i \in Held(x) : i \in Held(r.q) \/ i \in ChannelIds(x, c) \ ChannelIds(r.q, c)
      /\ \A i \in Held(r.q) : i \in Held(x) \/ i \in ChannelIds(r.q, c) \ ChannelIds(x, c)
  BY <1>3, ChannelHeld DEF FlushOf
<1>6. Held(x) = Held(r.q) \cup BatchIds(r.batch)
  BY <1>4, <1>5
<1>7. \A d \in Channels : /\ r.q.withheld[d] = x.withheld[d]
                          /\ Ids(r.q.cancelled[d]) \subseteq Ids(x.cancelled[d])
  BY <1>3, EmptyIds DEF FlushOf, OnlyChannel
<1>8. ASSUME Once(x) PROVE Once(r.q) /\ OnceBatch(r.batch) /\ BatchIds(r.batch) \cap Held(r.q) = {}
  <2>1. OnceIn(x, c)
    BY <1>8 DEF Once
  <2>2. OnceIn(r.q, c) /\ OnceBatch(r.batch) /\ Ids(r.q.queues[c]) \cap BatchIds(r.batch) = {}
    BY <1>3, <2>1 DEF FlushOf
  <2>3. BatchIds(r.batch) \cap ChannelIds(r.q, c) = {}
    <3>1. BatchIds(r.batch) \cap Ids(x.withheld[c]) = {}
      BY <1>3, <2>1 DEF FlushOf, OnceIn
    <3> QED
      BY <1>3, <2>2, <3>1, EmptyIds DEF FlushOf, ChannelIds
  <2>4. Once(r.q) /\ \A i \in Held(r.q) : i \in ChannelIds(x, c) => i \in ChannelIds(r.q, c)
    <3>1. ChannelIds(r.q, c) \subseteq ChannelIds(x, c) \cup {} /\ {} \cap Held(x) = {}
      BY <1>4
    <3>2. OnlyChannel(x, r.q, c)
      BY <1>3 DEF FlushOf
    <3> QED
      BY <1>8, <2>2, <3>1, <3>2, ChannelOnce
  <2> QED
    BY <1>4, <2>2, <2>3, <2>4
<1>9. \A i \in Ids(r.batch.cancelled) : i \in Ids(x.cancelled[r.batch.ch])
  BY <1>3 DEF FlushOf
<1> QED
  BY <1>6, <1>7, <1>8, <1>9 DEF x

\* The auto-expiry block moves events within a channel, or trims them.
LEMMA ExpireOnce ==
  ASSUME NEW a \in BoundedQueue
  PROVE  LET x == ExpireInFlight(a) IN
         /\ \A d \in Channels : ChannelIds(x, d) \subseteq ChannelIds(a, d)
         /\ Once(a) => Once(x)
<1> DEFINE x == ExpireInFlight(a)
           X == Expired(a)
<1>1. ASSUME NEW d \in Channels, d \notin X
      PROVE  x.queues[d] = a.queues[d] /\ x.withheld[d] = a.withheld[d] /\ x.cancelled[d] = a.cancelled[d]
  BY <1>1 DEF ExpireInFlight, BoundedQueue
<1>2. ASSUME NEW d \in Channels, d \in X
      PROVE  /\ x.queues[d] = TrimBack(a.withheld[d] \o a.queues[d]) /\ x.withheld[d] = <<>>
             /\ x.cancelled[d] = a.cancelled[d]
  BY <1>2 DEF ExpireInFlight, BoundedQueue
<1> HIDE DEF x, X
<1>3. ASSUME NEW d \in Channels
      PROVE  ChannelIds(x, d) \subseteq ChannelIds(a, d) /\ (OnceIn(a, d) => OnceIn(x, d))
  <2>1. CASE d \notin X
    BY <1>1, <2>1 DEF ChannelIds, OnceIn
  <2>2. CASE d \in X
    <3> DEFINE all == a.withheld[d] \o a.queues[d]
    <3>1. a.withheld[d] \in EventSeq /\ a.queues[d] \in EventSeq
      BY Stores
    <3>2. /\ all \in EventSeq /\ Ids(all) = Ids(a.withheld[d]) \cup Ids(a.queues[d])
          /\ Distinct(a.withheld[d]) /\ Distinct(a.queues[d])
             /\ Ids(a.withheld[d]) \cap Ids(a.queues[d]) = {} => Distinct(all)
      BY <3>1, SeqFacts, ConcatIds
    <3>3. x.queues[d] = TrimBack(all) /\ x.withheld[d] = <<>> /\ x.cancelled[d] = a.cancelled[d]
      BY <1>2, <2>2
    <3> HIDE DEF all
    <3>4. Ids(x.queues[d]) \subseteq Ids(all) /\ (Distinct(all) => Distinct(x.queues[d]))
      BY <3>2, <3>3, TrimIds
    <3> QED
      BY <3>2, <3>3, <3>4, EmptyIds DEF ChannelIds, OnceIn
  <2> QED
    BY <2>1, <2>2
<1>4. Once(a) => Once(x)
  BY <1>3 DEF Once
<1> QED
  BY <1>3, <1>4 DEF x

\* Each operation on a channel leaves the stores of the others alone.
LEMMA OpsOneChannel ==
  ASSUME NEW a \in BoundedQueue, NEW c \in Channels, NEW e, NEW id, NEW b, b.ch = c
  PROVE  /\ OnlyChannel(a, Push(a, c, e), c)
         /\ OnlyChannel(a, MarkNativeSteerPending(a, c, id), c)
         /\ OnlyChannel(a, ReleaseNativeSteer(a, c, id), c)
         /\ OnlyChannel(a, RemoveEvent(a, c, id), c)
         /\ OnlyChannel(a, ExtendDeadline(a, c), c)
         /\ OnlyChannel(a, DrainChannel(a, c), c)
         /\ OnlyChannel(a, Requeue(a, b), c)
         /\ OnlyChannel(a, RequeuePreserve(a, b), c)
         /\ OnlyChannel(a, RequeueAsCancelled(a, b), c)
         /\ OnlyChannel(a, MarkComplete(a, c), c)
<1>1. OnlyChannel(a, Push(a, c, e), c)
  BY DEF Push, BoundedQueue, OnlyChannel
<1>2. OnlyChannel(a, MarkNativeSteerPending(a, c, id), c)
  BY DEF MarkNativeSteerPending, BoundedQueue, OnlyChannel
<1>3. OnlyChannel(a, ReleaseNativeSteer(a, c, id), c)
  BY DEF ReleaseNativeSteer, BoundedQueue, OnlyChannel
<1>4. OnlyChannel(a, RemoveEvent(a, c, id), c)
  BY DEF RemoveEvent, BoundedQueue, OnlyChannel
<1>5. OnlyChannel(a, ExtendDeadline(a, c), c) /\ OnlyChannel(a, DrainChannel(a, c), c)
  BY DEF ExtendDeadline, DrainChannel, BoundedQueue, OnlyChannel
<1>6. OnlyChannel(a, Requeue(a, b), c)
  BY DEF Requeue, BoundedQueue, OnlyChannel
<1>7. OnlyChannel(a, RequeuePreserve(a, b), c)
  BY DEF RequeuePreserve, BoundedQueue, OnlyChannel
<1>8. OnlyChannel(a, RequeueAsCancelled(a, b), c)
  BY DEF RequeueAsCancelled, BoundedQueue, OnlyChannel
<1>9. OnlyChannel(a, MarkComplete(a, c), c)
  BY DEF MarkComplete, BoundedQueue, OnlyChannel
<1> QED
  BY <1>1, <1>2, <1>3, <1>4, <1>5, <1>6, <1>7, <1>8, <1>9

\* One such operation after another.
LEMMA OneChannelTwice ==
  ASSUME NEW a, NEW b, NEW d, NEW c, OnlyChannel(a, b, c), OnlyChannel(b, d, c)
  PROVE  OnlyChannel(a, d, c)
BY DEF OnlyChannel

\* If the stores gain no events but those of N, no channel does.
LEMMA ChannelGains ==
  ASSUME NEW a, NEW b, NEW c \in Channels, OnlyChannel(a, b, c), Once(b), NEW N,
         \A i \in Held(b) : i \in Held(a) \/ i \in N
  PROVE  /\ \A i \in ChannelIds(b, c) : i \in ChannelIds(a, c) \/ i \in N
         /\ \A d \in Channels \ {c} : ChannelIds(b, d) = ChannelIds(a, d)
<1>1. \A d \in Channels \ {c} : ChannelIds(b, d) = ChannelIds(a, d)
  BY DEF OnlyChannel, ChannelIds
<1>2. ASSUME NEW i \in ChannelIds(b, c), i \notin N PROVE i \in ChannelIds(a, c)
  <2>1. i \in Held(a)
    BY <1>2 DEF Held
  <2>2. PICK d \in Channels : i \in ChannelIds(a, d)
    BY <2>1 DEF Held
  <2> QED
    BY <1>1, <1>2, <2>2 DEF Once
<1> QED
  BY <1>1, <1>2

\* A batch has events, all of its own channel.
LEMMA FlushTakes ==
  ASSUME NEW a \in BoundedQueue, NEW r \in FlushNext(a)
  PROVE  LET x == ExpireInFlight(a) IN
         /\ r.batch.ch \in Channels /\ BatchIds(r.batch) # {}
         /\ OnlyChannel(x, r.q, r.batch.ch)
         /\ ChannelIds(x, r.batch.ch) = ChannelIds(r.q, r.batch.ch) \cup BatchIds(r.batch)
<1> DEFINE x == ExpireInFlight(a)
<1>1. x \in BoundedQueue
  BY ExpireBounded
<1>2. \/ \E c \in Channels : r = FlushQueued(x, c) /\ x.queues[c] # <<>>
      \/ \E c \in Channels : r = FlushCancelled(x, c) /\ x.cancelled[c] # <<>>
  BY DEF FlushNext, OldestHead, Flushable, CancelledReady
<1> HIDE DEF x
<1>3. ASSUME NEW c \in Channels, r = FlushQueued(x, c), x.queues[c] # <<>>
      PROVE  BatchIds(r.batch) # {} /\ FlushOf(x, r, c)
  <2> DEFINE s == x.queues[c]
             n == IF Len(s) < MaxBatch THEN Len(s) ELSE MaxBatch
             u == SubSeq(s, 1, n)
  <2>1. s \in EventSeq /\ Len(s) \in Nat /\ Len(s) # 0
    BY <1>1, <1>3, Stores, EmptySeq DEF EventSeq
  <2>2. n \in 1 .. Len(s) /\ n \in 0 .. Len(s)
    BY <2>1, QueueAssumption
  <2>3. u \in EventSeq
    <3> HIDE DEF n, s
    <3> QED
      BY <2>1, <2>2, CutIds
  <2>4. r.batch.events = SortByCreatedAt(u)
    BY <1>3 DEF FlushQueued
  <2>5. 1 \in DOMAIN u
    BY <2>1, <2>2 DEF EventSeq
  <2> HIDE DEF s, n, u
  <2>6. Ids(r.batch.events) = Ids(u) /\ u[1].id \in Ids(u)
    BY <2>3, <2>4, <2>5, SortIds DEF Ids
  <2> QED
    BY <1>1, <1>3, <2>6, FlushQueuedHeld DEF BatchIds
<1>4. ASSUME NEW c \in Channels, r = FlushCancelled(x, c), x.cancelled[c] # <<>>
      PROVE  BatchIds(r.batch) # {} /\ FlushOf(x, r, c)
  <2> DEFINE s == x.cancelled[c]
  <2>1. s \in EventSeq /\ r.batch.events = s
    BY <1>1, <1>4, Stores DEF FlushCancelled
  <2>2. 1 \in DOMAIN s
    BY <1>4, <2>1, EmptySeq DEF EventSeq
  <2> HIDE DEF s
  <2> QED
    BY <1>1, <1>4, <2>1, <2>2, FlushCancelledHeld DEF BatchIds, Ids
<1>5. PICK c \in Channels : BatchIds(r.batch) # {} /\ FlushOf(x, r, c)
  BY <1>2, <1>3, <1>4
<1>6. r.batch.ch = c /\ OnlyChannel(x, r.q, c)
      /\ ChannelIds(x, c) = ChannelIds(r.q, c) \cup BatchIds(r.batch)
  BY <1>5, EmptyIds DEF FlushOf, ChannelIds
<1> QED
  BY <1>5, <1>6 DEF x
=============================================================================
