--------------------------- MODULE AcpEventProofs ---------------------------
(***************************************************************************)
(* Proofs about the events of the agent harness: every withheld event has  *)
(* a steer request or an ack that answers for it, no event that was never  *)
(* part of a cancelled turn is lost, an event is in one place once and,    *)
(* once it has left, in none again; while no in-flight deadline has passed, *)
(* it is in none after its fate and the harness implements TurnScheduler.  *)
(***************************************************************************)
EXTENDS AcpTurnProofs

-----------------------------------------------------------------------------
(* Steer requests *)

\* A steer request or an ack answers for the event i of channel c.
AskedFor(c, i) ==
  \/ \E a \in acks : a.ch = c /\ a.id = i
  \/ \E s \in TasksOn(c) : i \in OpenSteers(s)

\* Requests and acks are about different events, all of them pushed before, and only a
\* running task has open requests.
SteersOnce ==
  /\ \A a, b \in acks : a.id = b.id => a = b
  /\ \A a \in acks : a.id < nextId
  /\ \A s \in TaskSlots : \A i \in OpenSteers(s) :
       /\ i < nextId /\ \A a \in acks : a.id # i
       /\ \A t \in TaskSlots : t # s => i \notin OpenSteers(t)
  /\ \A s \in TaskSlots :
       /\ tasks[s].buf # NoEvent => tasks[s].buf # tasks[s].pend
       /\ tasks[s].phase # "running" => tasks[s].buf = NoEvent /\ tasks[s].pend = NoEvent

WithheldInv ==
  \A c \in Channels : Distinct(q.withheld[c]) /\ \A i \in Ids(q.withheld[c]) : AskedFor(c, i)

SteerInv == SteersOnce /\ WithheldInv

\* The step leaves every open request where it is; tasks that come or go have none.
SteersLeft ==
  \A s \in Slots :
    \/ /\ tasks[s] # NoTask /\ tasks'[s] # NoTask
       /\ tasks'[s].phase = tasks[s].phase /\ tasks'[s].batch.ch = tasks[s].batch.ch
       /\ tasks'[s].buf = tasks[s].buf /\ tasks'[s].pend = tasks[s].pend
    \/ /\ tasks[s] = NoTask \/ (tasks[s].buf = NoEvent /\ tasks[s].pend = NoEvent)
       /\ tasks'[s] = NoTask \/ (tasks'[s].buf = NoEvent /\ tasks'[s].pend = NoEvent)

\* Such a step keeps the requests and acks apart.
LEMMA SteersSame ==
  ASSUME SteersOnce, SteersLeft, UNCHANGED acks, nextId \in Nat, nextId' \in Nat, nextId <= nextId',
         acks \subseteq AckType, tasks \in [Slots -> GoodTask \cup {NoTask}]
  PROVE  SteersOnce' /\ \A c, i : AskedFor(c, i)' <=> AskedFor(c, i)
<1>1. \A s \in Slots : s \in TaskSlots' /\ OpenSteers(s)' # {} =>
        /\ s \in TaskSlots /\ OpenSteers(s)' = OpenSteers(s)
        /\ tasks'[s].phase = tasks[s].phase /\ tasks'[s].batch.ch = tasks[s].batch.ch
        /\ tasks'[s].buf = tasks[s].buf /\ tasks'[s].pend = tasks[s].pend
  BY DEF SteersLeft, TaskSlots, OpenSteers
<1>2. \A s \in Slots : s \in TaskSlots /\ OpenSteers(s) # {} =>
        /\ s \in TaskSlots' /\ OpenSteers(s)' = OpenSteers(s)
        /\ tasks'[s].batch.ch = tasks[s].batch.ch
  BY DEF SteersLeft, TaskSlots, OpenSteers
<1>3. TaskSlots \subseteq Slots /\ TaskSlots' \subseteq Slots
  BY DEF TaskSlots
<1>4. ASSUME NEW c, NEW i PROVE AskedFor(c, i)' <=> AskedFor(c, i)
  BY <1>1, <1>2, <1>3 DEF AskedFor, TasksOn
<1>5. \A a \in acks' : a.id < nextId'
  <2>1. \A a \in acks : a.id \in Nat /\ a.id < nextId
    BY DEF SteersOnce, AckType
  <2> QED
    BY <2>1
<1>6. ASSUME NEW s \in TaskSlots', NEW i \in OpenSteers(s)'
      PROVE  /\ i < nextId' /\ \A a \in acks' : a.id # i
             /\ \A t \in TaskSlots' : t # s => i \notin OpenSteers(t)'
  <2>1. s \in TaskSlots /\ i \in OpenSteers(s)
    BY <1>1, <1>3, <1>6
  <2>2. i < nextId /\ \A a \in acks : a.id # i
    BY <2>1 DEF SteersOnce
  <2>3. i \in Nat
    BY <2>1 DEF OpenSteers, TaskSlots, GoodTask, Task
  <2>4. \A t \in TaskSlots' : t # s => i \notin OpenSteers(t)'
    BY <1>1, <1>3, <2>1 DEF SteersOnce
  <2> QED
    BY <2>2, <2>3, <2>4
<1>7. ASSUME NEW s \in TaskSlots'
      PROVE  /\ tasks'[s].buf # NoEvent => tasks'[s].buf # tasks'[s].pend
             /\ tasks'[s].phase # "running" => tasks'[s].buf = NoEvent /\ tasks'[s].pend = NoEvent
  BY DEF SteersLeft, SteersOnce, TaskSlots
<1>8. \A a, b \in acks' : a.id = b.id => a = b
  BY DEF SteersOnce
<1> QED
  BY <1>4, <1>5, <1>6, <1>7, <1>8 DEF SteersOnce

\* What is withheld still has its answer when requests and acks stay and the stores of
\* withheld events are kept or emptied.
LEMMA WithheldShrinks ==
  ASSUME WithheldInv, \A c, i : AskedFor(c, i)' <=> AskedFor(c, i),
         \A c \in Channels : q'.withheld[c] = q.withheld[c] \/ q'.withheld[c] = <<>>
  PROVE  WithheldInv'
BY EmptyIds DEF WithheldInv

\* A signal changes no request.
LEMMA SignalledSteers ==
  ASSUME TypeInv, NEW c \in Channels, NEW sig, tasks' \in Signalled(c, sig)
  PROVE  SteersLeft
<1>0. \A s \in Slots : tasks[s] \in GoodTask \/ tasks[s] = NoTask
  BY DEF TypeInv
<1>1. CASE tasks' = tasks
  BY <1>1 DEF SteersLeft
<1>2. ASSUME NEW s \in TasksOn(c), tasks' = Signal(tasks, s, sig)
      PROVE  SteersLeft
  <2> DEFINE v == IF tasks[s].ctl = "open" THEN sig ELSE tasks[s].ctl
             t == [tasks[s] EXCEPT !.ctl = v]
  <2>1. s \in Slots /\ tasks[s] \in GoodTask
    BY PhaseIsTask DEF TasksOn, TaskSlots
  <2>2. tasks' = [tasks EXCEPT ![s] = t]
    BY <1>2, <2>1 DEF Signal, TypeInv
  <2>3. t # NoTask /\ t.batch = tasks[s].batch /\ t.phase = tasks[s].phase
        /\ t.buf = tasks[s].buf /\ t.pend = tasks[s].pend
    BY <2>1 DEF GoodTask, Task, NoTask
  <2>4. tasks[s] # NoTask
    BY <2>1, GoodTaskFacts
  <2> HIDE DEF t
  <2> QED
    BY <2>1, <2>2, <2>3, <2>4 DEF SteersLeft, TypeInv
<1> QED
  BY <1>1, <1>2 DEF Signalled

\* A slot gets a task, or loses one that has ended.
LEMMA SlotSteers ==
  ASSUME TypeInv, SteersOnce, NEW s \in Slots, NEW t, tasks' = [tasks EXCEPT ![s] = t],
         \/ tasks[s] = NoTask /\ t.buf = NoEvent /\ t.pend = NoEvent
         \/ tasks[s].phase \in {"done", "panicked"} /\ t = NoTask
  PROVE  SteersLeft
<1>1. tasks[s] = NoTask \/ (tasks[s].buf = NoEvent /\ tasks[s].pend = NoEvent)
  BY DEF SteersOnce, TaskSlots, NoTask
<1>2. t = NoTask \/ (t.buf = NoEvent /\ t.pend = NoEvent)
  OBVIOUS
<1>3. \A u \in Slots : tasks'[u] = IF u = s THEN t ELSE tasks[u]
  BY DEF TypeInv
<1> QED
  BY <1>1, <1>2, <1>3 DEF SteersLeft

-----------------------------------------------------------------------------
(* What the steps do to the events *)

\* The events of slot s's task.
BatchOf(s) == IF tasks[s] = NoTask THEN {} ELSE BatchIds(tasks[s].batch)

\* The live events of T meet their fate in this step, the others stay as they are.
Dies(T) == \A i \in EventIds : fate'[i] = "live" <=> fate[i] = "live" /\ i \notin T

\* What Settle does.
LEMMA SettleDies ==
  ASSUME NEW T, NEW v, v # "live", fate' = Settle(fate, T, v)
  PROVE  Dies(T)
BY DEF Settle, Dies

\* Fates that stay as they are.
LEMMA NobodyDies ==
  ASSUME UNCHANGED fate
  PROVE  Dies({})
BY DEF Dies

\* A task that is kept keeps its events.
LEMMA BatchesKept ==
  ASSUME TasksKept, NEW s \in Slots
  PROVE  BatchOf(s)' = BatchOf(s)
BY DEF TasksKept, BatchOf, BatchIds

\* Without a lapsed deadline the expiry trims nothing.
LEMMA NoExpiryTrims ==
  ASSUME NEW a, NoLapse(a)
  PROVE  ExpiryTrims(a) = {}
<1>1. Expired(a) = {}
  BY DEF Expired, NoLapse
<1> QED
  BY <1>1 DEF ExpiryTrims

\* The stores after maintenance and after a heartbeat tick: lapsed turns are given up.
LEMMA ExpiryEvents ==
  ASSUME TypeInv, Maintenance \/ HeartbeatTick
  PROVE  \E T : /\ Dies(T)
                /\ \A i \in Held(q) : i \in Held(q') \/ i \in T
                /\ \A d \in Channels : /\ q'.cancelled[d] = q.cancelled[d]
                                       /\ q'.withheld[d] = q.withheld[d] \/ q'.withheld[d] = <<>>
                /\ NoLapse(q) => SameStores(q, q') /\ T = {}
<1>1. PICK a \in {q, CompactExpiredState(q)} :
        q' = ExpireInFlight(a) /\ fate' = Settle(fate, ExpiryTrims(a), "dropped")
  BY DEF Maintenance, HeartbeatTick
<1>2. q \in BoundedQueue /\ a \in BoundedQueue
  BY <1>1, CompactBounded DEF TypeInv
<1>3. SameStores(q, a) /\ (NoLapse(q) => NoLapse(a))
  <2>1. CASE a = q
    BY <2>1 DEF SameStores
  <2>2. CASE a = CompactExpiredState(q)
    BY <1>2, <2>2 DEF CompactExpiredState, BoundedQueue, SameStores, NoLapse
  <2> QED
    BY <1>1, <2>1, <2>2
<1>4. Held(a) = Held(q)
  BY <1>3, SameHeld
<1>5. /\ \A i \in Held(a) : i \in Held(q') \/ i \in ExpiryTrims(a)
      /\ \A d \in Channels : /\ q'.cancelled[d] = a.cancelled[d]
                             /\ q'.withheld[d] = a.withheld[d] \/ q'.withheld[d] = <<>>
  BY <1>1, <1>2, ExpireHeld
<1>6. NoLapse(q) => SameStores(q, q') /\ ExpiryTrims(a) = {}
  BY <1>1, <1>2, <1>3, ExpireIsIdle, NoExpiryTrims
<1>7. Dies(ExpiryTrims(a))
  BY <1>1, SettleDies
<1>8. \A d \in Channels : a.cancelled[d] = q.cancelled[d] /\ a.withheld[d] = q.withheld[d]
  BY <1>3 DEF SameStores
<1> QED
  BY <1>4, <1>5, <1>6, <1>7, <1>8

\* dispatch_pending hands a batch to an agent.
LEMMA DispatchedEvents ==
  ASSUME TypeInv, NEW r \in FlushNext(q), q' = r.q, fate' = Settle(fate, ExpiryTrims(q), "dropped")
  PROVE  /\ r.batch \in Batch /\ NewTask(r.batch, "open") \in GoodTask
         /\ \E T : /\ Dies(T)
                   /\ \A i \in Held(q) : i \in Held(q') \/ i \in BatchIds(r.batch) \/ i \in T
                   /\ NoLapse(q) => T = {}
         /\ \A i \in Ids(r.batch.cancelled) : i \in Ids(q.cancelled[r.batch.ch])
         /\ \A d \in Channels : /\ Ids(q'.cancelled[d]) \subseteq Ids(q.cancelled[d])
                                /\ q'.withheld[d] = q.withheld[d] \/ q'.withheld[d] = <<>>
         /\ NoLapse(q) =>
              /\ Held(q) = Held(q') \cup BatchIds(r.batch)
              /\ \A d \in Channels : q'.withheld[d] = q.withheld[d]
              /\ Once(q) => Once(q') /\ OnceBatch(r.batch) /\ BatchIds(r.batch) \cap Held(q') = {}
<1> DEFINE x == ExpireInFlight(q)
<1>1. q \in BoundedQueue
  BY DEF TypeInv
<1>2. r.batch \in Batch /\ NewTask(r.batch, "open") \in GoodTask
  BY <1>1, FlushBounded, NewTaskGood
<1>3. /\ \A i \in Held(q) : i \in Held(x) \/ i \in ExpiryTrims(q)
      /\ \A d \in Channels : /\ x.cancelled[d] = q.cancelled[d]
                             /\ x.withheld[d] = q.withheld[d] \/ x.withheld[d] = <<>>
  BY <1>1, ExpireHeld
<1>4. /\ Held(x) = Held(q') \cup BatchIds(r.batch)
      /\ \A i \in Ids(r.batch.cancelled) : i \in Ids(x.cancelled[r.batch.ch])
      /\ \A d \in Channels : /\ q'.withheld[d] = x.withheld[d]
                             /\ Ids(q'.cancelled[d]) \subseteq Ids(x.cancelled[d])
      /\ Once(x) => Once(q') /\ OnceBatch(r.batch) /\ BatchIds(r.batch) \cap Held(q') = {}
  BY <1>1, FlushHeld
<1>5. Dies(ExpiryTrims(q)) /\ (NoLapse(q) => x = q /\ ExpiryTrims(q) = {})
  BY <1>1, SettleDies, ExpireIsIdle, NoExpiryTrims
<1>6. r.batch.ch \in Channels
  BY <1>2 DEF Batch
<1> HIDE DEF x
<1>7. /\ Dies(ExpiryTrims(q)) /\ (NoLapse(q) => ExpiryTrims(q) = {})
      /\ \A i \in Held(q) : i \in Held(q') \/ i \in BatchIds(r.batch) \/ i \in ExpiryTrims(q)
  BY <1>3, <1>4, <1>5
<1>8. \A i \in Ids(r.batch.cancelled) : i \in Ids(q.cancelled[r.batch.ch])
  BY <1>3, <1>4, <1>6
<1>9. \A d \in Channels : /\ Ids(q'.cancelled[d]) \subseteq Ids(q.cancelled[d])
                          /\ q'.withheld[d] = q.withheld[d] \/ q'.withheld[d] = <<>>
  BY <1>3, <1>4
<1>10. NoLapse(q) =>
         /\ Held(q) = Held(q') \cup BatchIds(r.batch)
         /\ \A d \in Channels : q'.withheld[d] = q.withheld[d]
         /\ Once(q) => Once(q') /\ OnceBatch(r.batch) /\ BatchIds(r.batch) \cap Held(q') = {}
  BY <1>4, <1>5
<1> QED
  BY <1>2, <1>7, <1>8, <1>9, <1>10

\* Event i was cancelled with an earlier turn, and its batch is flushed and put back.
MergedBounces(i) ==
  \E r \in FlushNext(q) : /\ i \in Ids(r.batch.cancelled)
                          /\ q' = MarkComplete(RequeuePreserve(r.q, r.batch), r.batch.ch)

\* dispatch_pending finds nothing to flush, or no agent for the batch: the batch goes back, but
\* for the events of an earlier cancelled turn it carried.
LEMMA BouncedEvents ==
  ASSUME TypeInv,
         \/ /\ q' = ExpireInFlight(q) /\ fate' = Settle(fate, ExpiryTrims(q), "dropped")
         \/ \E r \in FlushNext(q) :
              /\ q' = MarkComplete(RequeuePreserve(r.q, r.batch), r.batch.ch)
              /\ fate' = Settle(fate, ExpiryTrims(q) \cup RequeueTrims(r.q, r.batch), "dropped")
  PROVE  \E T, L :
         /\ Dies(T)
         /\ \A i \in Held(q) : i \in Held(q') \/ i \in T \/ i \in L
         /\ \A i \in L : (\E d \in Channels : i \in Ids(q.cancelled[d])) /\ MergedBounces(i)
         /\ \A d \in Channels : /\ Ids(q'.cancelled[d]) \subseteq Ids(q.cancelled[d])
                                /\ q'.withheld[d] = q.withheld[d] \/ q'.withheld[d] = <<>>
         /\ NoLapse(q) =>
              /\ \A i \in Held(q') \cup T : i \in Held(q)
              /\ \A d \in Channels : q'.withheld[d] = q.withheld[d]
              /\ Once(q) => Once(q') /\ \A i \in T : i \notin Held(q')
<1> DEFINE x == ExpireInFlight(q)
           E == ExpiryTrims(q)
<1>1. q \in BoundedQueue
  BY DEF TypeInv
<1>2. /\ \A i \in Held(q) : i \in Held(x) \/ i \in E
      /\ \A d \in Channels : /\ x.cancelled[d] = q.cancelled[d]
                             /\ x.withheld[d] = q.withheld[d] \/ x.withheld[d] = <<>>
  BY <1>1, ExpireHeld
<1>3. NoLapse(q) => x = q /\ E = {}
  BY <1>1, ExpireIsIdle, NoExpiryTrims
<1>4. CASE q' = x /\ fate' = Settle(fate, E, "dropped")
  <2>1. Dies(E)
    BY <1>4, SettleDies
  <2>2. PICK T, L : T = E /\ L = {}
    OBVIOUS
  <2>3. \A i \in L : (\E d \in Channels : i \in Ids(q.cancelled[d])) /\ MergedBounces(i)
    BY <2>2
  <2> HIDE DEF x, E
  <2>4. /\ Dies(T)
        /\ \A i \in Held(q) : i \in Held(q') \/ i \in T \/ i \in L
        /\ \A d \in Channels : /\ Ids(q'.cancelled[d]) \subseteq Ids(q.cancelled[d])
                               /\ q'.withheld[d] = q.withheld[d] \/ q'.withheld[d] = <<>>
        /\ NoLapse(q) =>
             /\ \A i \in Held(q') \cup T : i \in Held(q)
             /\ \A d \in Channels : q'.withheld[d] = q.withheld[d]
             /\ Once(q) => Once(q') /\ \A i \in T : i \notin Held(q')
    BY <1>2, <1>3, <1>4, <2>1, <2>2
  <2> QED
    BY <2>3, <2>4
<1>5. ASSUME NEW r \in FlushNext(q), q' = MarkComplete(RequeuePreserve(r.q, r.batch), r.batch.ch),
             fate' = Settle(fate, E \cup RequeueTrims(r.q, r.batch), "dropped")
      PROVE  \E T, L :
             /\ Dies(T)
             /\ \A i \in Held(q) : i \in Held(q') \/ i \in T \/ i \in L
             /\ \A i \in L : (\E d \in Channels : i \in Ids(q.cancelled[d])) /\ MergedBounces(i)
             /\ \A d \in Channels : /\ Ids(q'.cancelled[d]) \subseteq Ids(q.cancelled[d])
                                    /\ q'.withheld[d] = q.withheld[d] \/ q'.withheld[d] = <<>>
             /\ NoLapse(q) =>
                  /\ \A i \in Held(q') \cup T : i \in Held(q)
                  /\ \A d \in Channels : q'.withheld[d] = q.withheld[d]
                  /\ Once(q) => Once(q') /\ \A i \in T : i \notin Held(q')
  <2> DEFINE b == r.batch
             y == RequeuePreserve(r.q, b)
             R == RequeueTrims(r.q, b)
             L == Ids(b.cancelled)
  <2>1. r.q \in BoundedQueue /\ b \in Batch /\ b.ch \in Channels
    BY <1>1, FlushBounded DEF Batch
  <2>2. /\ Held(x) = Held(r.q) \cup BatchIds(b)
        /\ \A i \in L : i \in Ids(x.cancelled[b.ch])
        /\ \A d \in Channels : /\ r.q.withheld[d] = x.withheld[d]
                               /\ Ids(r.q.cancelled[d]) \subseteq Ids(x.cancelled[d])
        /\ Once(x) => Once(r.q) /\ OnceBatch(b) /\ BatchIds(b) \cap Held(r.q) = {}
    BY <1>1, FlushHeld
  <2>3. /\ \A i \in Held(r.q) \cup Ids(b.events) : i \in Held(y) \/ i \in R
        /\ \A i \in R : i \in Held(r.q) \/ i \in Ids(b.events)
        /\ \A i \in Held(y) : i \in Held(r.q) \/ i \in Ids(b.events)
        /\ \A d \in Channels : y.withheld[d] = r.q.withheld[d] /\ y.cancelled[d] = r.q.cancelled[d]
        /\ Once(r.q) /\ Distinct(b.events) /\ Ids(b.events) \cap Held(r.q) = {} =>
             Once(y) /\ \A i \in R : i \notin Held(y)
    BY <2>1, RequeueHeld
  <2>4. y \in BoundedQueue
    BY <2>1, RequeueBounded
  <2>5. Dies(E \cup R)
    BY <1>5, SettleDies
  <2>5a. \A i \in L : MergedBounces(i)
    BY <1>5 DEF MergedBounces
  <2> HIDE DEF x, E, b, y, R
  <2>6. SameStores(y, q')
    BY <1>5, <2>1, <2>4, StoresKept DEF b, y
  <2>7. Held(q') = Held(y) /\ (Once(y) => Once(q'))
    BY <2>6, SameHeld
  <2>8. BatchIds(b) = Ids(b.events) \cup L
    BY DEF BatchIds
  <2> HIDE DEF L
  <2>9. \A i \in Held(q) : i \in Held(q') \/ i \in E \cup R \/ i \in L
    BY <1>2, <2>2, <2>3, <2>7, <2>8
  <2>10. \A i \in L : (\E d \in Channels : i \in Ids(q.cancelled[d])) /\ MergedBounces(i)
    BY <1>2, <2>1, <2>2, <2>5a
  <2>11. \A d \in Channels : /\ Ids(q'.cancelled[d]) \subseteq Ids(q.cancelled[d])
                             /\ q'.withheld[d] = x.withheld[d]
    BY <1>2, <2>2, <2>3, <2>6 DEF SameStores
  <2>12. ASSUME NoLapse(q)
         PROVE  /\ \A i \in Held(q') \cup E \cup R : i \in Held(q)
                /\ \A d \in Channels : q'.withheld[d] = q.withheld[d]
                /\ Once(q) => Once(q') /\ \A i \in E \cup R : i \notin Held(q')
    <3>1. x = q /\ E = {}
      BY <1>3, <2>12
    <3>2. Once(q) => Once(q') /\ \A i \in R : i \notin Held(q')
      BY <2>2, <2>3, <2>7, <2>8, <3>1 DEF OnceBatch
    <3> QED
      BY <2>2, <2>3, <2>7, <2>8, <2>11, <3>1, <3>2
  <2> DEFINE T == E \cup R
  <2>13. \A d \in Channels : /\ Ids(q'.cancelled[d]) \subseteq Ids(q.cancelled[d])
                             /\ q'.withheld[d] = q.withheld[d] \/ q'.withheld[d] = <<>>
    BY <1>2, <2>11
  <2>14. /\ Dies(T)
         /\ \A i \in Held(q) : i \in Held(q') \/ i \in T \/ i \in L
         /\ NoLapse(q) =>
              /\ \A i \in Held(q') \cup T : i \in Held(q)
              /\ \A d \in Channels : q'.withheld[d] = q.withheld[d]
              /\ Once(q) => Once(q') /\ \A i \in T : i \notin Held(q')
    BY <2>5, <2>9, <2>12
  <2> HIDE DEF T
  <2> QED
    BY <2>10, <2>13, <2>14
<1> QED
  BY <1>4, <1>5

\* A relay event is accepted: it is queued, and withheld if a steer request for it went out;
\* at the cap the oldest event of its channel goes.
LEMMA PushedEvents ==
  ASSUME TypeInv, NEW c \in Channels, NEW at \in 1 .. MaxCreated, RelayEvent(c, at), PushAccepted(q, c)
  PROVE  LET T == PushEvicts(q, c) IN
         /\ nextId \in EventIds /\ nextId' = nextId + 1
         /\ \A i \in EventIds : fate'[i] = "live" <=> i = nextId \/ (fate[i] = "live" /\ i \notin T)
         /\ \A i \in Held(q) : i \in Held(q') \/ i \in T
         /\ \A i \in T : i \in Held(q)
         /\ nextId \in Held(q') /\ \A i \in Held(q') : i \in Held(q) \/ i = nextId
         /\ \A d \in Channels : q'.cancelled[d] = q.cancelled[d]
         /\ Once(q) /\ nextId \notin Held(q) => Once(q') /\ \A i \in T : i \notin Held(q')
         /\ \/ /\ SteersLeft
               /\ \A d \in Channels : q'.withheld[d] = q.withheld[d]
            \/ \E s \in TasksOn(c) :
                 /\ tasks[s].phase = "running" /\ tasks[s].buf = NoEvent
                 /\ tasks' = [tasks EXCEPT ![s] = [tasks[s] EXCEPT !.buf = nextId]]
                 /\ \A d \in Channels \ {c} : q'.withheld[d] = q.withheld[d]
                 /\ Ids(q'.withheld[c]) = Ids(q.withheld[c]) \cup {nextId}
                 /\ Distinct(q.withheld[c]) /\ nextId \notin Ids(q.withheld[c]) => Distinct(q'.withheld[c])
<1> DEFINE e == NewEvent(at)
           a == Push(q, c, e)
           T == PushEvicts(q, c)
<1>1. q \in BoundedQueue /\ nextId \in EventIds /\ nextId' = nextId + 1
  BY DEF TypeInv, TypeOK, RelayEvent, EventIds
<1>2. e \in Event /\ e.id = nextId
  BY <1>1, HarnessAssumption DEF NewEvent, Event, EventIds
<1>3. \A i \in EventIds : fate'[i] = "live" <=> i = nextId \/ (fate[i] = "live" /\ i \notin T)
  <2>1. fate' = [Settle(fate, T, "dropped") EXCEPT ![e.id] = "live"]
    BY DEF RelayEvent
  <2> HIDE DEF e
  <2> QED
    BY <1>2, <2>1 DEF Settle
<1>4. /\ \A i \in Held(q) : i \in Held(a) \/ i \in T
      /\ \A i \in T : i \in Held(q)
      /\ e.id \in Ids(a.queues[c]) /\ e.id \in Held(a)
      /\ \A i \in Held(a) : i \in Held(q) \/ i = e.id
      /\ \A d \in Channels : a.withheld[d] = q.withheld[d] /\ a.cancelled[d] = q.cancelled[d]
      /\ Once(q) /\ e.id \notin Held(q) => Once(a) /\ \A i \in T : i \notin Held(a)
  BY <1>1, <1>2, PushHeld
<1>5. a \in BoundedQueue
  BY <1>1, <1>2, PushBounded
<1>6. \/ q' = a /\ SteersLeft
      \/ \E s \in TasksOn(c) : SteerAccepted(c, e, s)
  <2>1. UNCHANGED tasks => SteersLeft
    BY DEF SteersLeft, TypeInv
  <2>2. CASE MidTurn(c, e)
    BY <2>1, <2>2, SignalledSteers DEF MidTurn
  <2>3. CASE q' = a /\ UNCHANGED tasks
    BY <2>1, <2>3
  <2> QED
    BY <2>2, <2>3 DEF RelayEvent
<1> HIDE DEF e, T
<1>7. CASE q' = a /\ SteersLeft
  <2> HIDE DEF a
  <2> QED
    BY <1>1, <1>2, <1>3, <1>4, <1>7 DEF T
<1>8. ASSUME NEW s \in TasksOn(c), SteerAccepted(c, e, s)
      PROVE  /\ Held(q') = Held(a) /\ (Once(a) => Once(q'))
             /\ \A d \in Channels : q'.cancelled[d] = a.cancelled[d]
             /\ tasks[s].phase = "running" /\ tasks[s].buf = NoEvent
             /\ tasks' = [tasks EXCEPT ![s] = [tasks[s] EXCEPT !.buf = nextId]]
             /\ \A d \in Channels \ {c} : q'.withheld[d] = a.withheld[d]
             /\ Ids(q'.withheld[c]) = Ids(a.withheld[c]) \cup {nextId}
             /\ Distinct(a.withheld[c]) /\ nextId \notin Ids(a.withheld[c]) => Distinct(q'.withheld[c])
  <2>1. q' = MarkNativeSteerPending(a, c, e.id)
    BY <1>8 DEF SteerAccepted
  <2> HIDE DEF a
  <2>2. /\ Held(q') = Held(a)
        /\ Ids(q'.withheld[c]) = Ids(a.withheld[c]) \cup {e.id}
        /\ \A d \in Channels : /\ q'.cancelled[d] = a.cancelled[d]
                               /\ d # c => q'.withheld[d] = a.withheld[d]
        /\ Distinct(a.withheld[c]) /\ e.id \notin Ids(a.withheld[c]) => Distinct(q'.withheld[c])
        /\ Once(a) => Once(q')
    BY <1>4, <1>5, <2>1, SteerHeld
  <2>3. s \in Slots /\ tasks[s] \in GoodTask
    BY PhaseIsTask DEF TasksOn, TaskSlots
  <2>4. /\ tasks[s].phase = "running" /\ tasks[s].buf = NoEvent
        /\ tasks' = [tasks EXCEPT ![s] = [tasks[s] EXCEPT !.buf = nextId]]
    BY <1>2, <1>8, <2>3 DEF SteerAccepted, TypeInv
  <2> QED
    BY <1>2, <2>2, <2>4
<1>9. ASSUME NEW s \in TasksOn(c), SteerAccepted(c, e, s)
      PROVE  /\ \A i \in Held(q) : i \in Held(q') \/ i \in T
             /\ nextId \in Held(q') /\ \A i \in Held(q') : i \in Held(q) \/ i = nextId
             /\ \A d \in Channels : q'.cancelled[d] = q.cancelled[d]
             /\ Once(q) /\ nextId \notin Held(q) => Once(q') /\ \A i \in T : i \notin Held(q')
             /\ tasks[s].phase = "running" /\ tasks[s].buf = NoEvent
             /\ tasks' = [tasks EXCEPT ![s] = [tasks[s] EXCEPT !.buf = nextId]]
             /\ \A d \in Channels \ {c} : q'.withheld[d] = q.withheld[d]
             /\ Ids(q'.withheld[c]) = Ids(q.withheld[c]) \cup {nextId}
             /\ Distinct(q.withheld[c]) /\ nextId \notin Ids(q.withheld[c]) => Distinct(q'.withheld[c])
  <2> HIDE DEF a
  <2> QED
    BY <1>2, <1>4, <1>8, <1>9
<1> QED
  BY <1>1, <1>3, <1>4, <1>6, <1>7, <1>9 DEF T

\* A membership removal drops what the channel holds.
LEMMA DrainedEvents ==
  ASSUME TypeInv, NEW c \in Channels, MemberRemoved(c)
  PROVE  LET T == ChannelIds(q, c) IN
         /\ Dies(T)
         /\ \A i \in Held(q) : i \in Held(q') \/ i \in T
         /\ \A i \in Held(q') \cup T : i \in Held(q)
         /\ \A d \in Channels : /\ Ids(q'.cancelled[d]) \subseteq Ids(q.cancelled[d])
                                /\ q'.withheld[d] = q.withheld[d] \/ q'.withheld[d] = <<>>
                                /\ d # c => q'.withheld[d] = q.withheld[d]
         /\ Once(q) => Once(q') /\ \A i \in T : i \notin Held(q')
<1>1. q \in BoundedQueue /\ q' = DrainChannel(q, c)
  BY DEF TypeInv, MemberRemoved
<1>2. /\ \A i \in Held(q) : i \in Held(q') \/ i \in ChannelIds(q, c)
      /\ \A i \in Held(q') : i \in Held(q)
      /\ q'.withheld[c] = <<>> /\ q'.cancelled[c] = <<>>
      /\ \A d \in Channels \ {c} : q'.withheld[d] = q.withheld[d] /\ q'.cancelled[d] = q.cancelled[d]
      /\ Once(q) => Once(q') /\ \A i \in ChannelIds(q, c) : i \notin Held(q')
  BY <1>1, DrainHeld
<1>3. Dies(ChannelIds(q, c))
  <2>1. fate' = Settle(fate, ChannelIds(q, c), "dropped")
    BY DEF MemberRemoved, ChannelIds
  <2> QED
    BY <2>1, SettleDies
<1>4. ChannelIds(q, c) \subseteq Held(q)
  BY DEF Held
<1>5. \A d \in Channels : Ids(q'.cancelled[d]) \subseteq Ids(q.cancelled[d])
  BY <1>2, EmptyIds
<1> QED
  BY <1>2, <1>3, <1>4, <1>5

\* A steer ack removes the delivered event, or puts the withheld one back.
LEMMA AnsweredEvents ==
  ASSUME TypeInv, NEW a \in acks, HandleAck(a)
  PROVE  /\ a.ch \in Channels /\ acks' = acks \ {a} /\ SteersLeft
         /\ \E T : /\ Dies(T)
                   /\ \A i \in Held(q) : i \in Held(q') \/ i \in T
                   /\ \A i \in T : i \in Held(q) \/ i = a.id
                   /\ Once(q) /\ (a.id \in Held(q) => a.id \in Ids(q.withheld[a.ch])) =>
                        \A i \in T : i \notin Held(q')
         /\ \A i \in Held(q') : i \in Held(q)
         /\ \A d \in Channels : /\ q'.cancelled[d] = q.cancelled[d]
                                /\ d # a.ch => q'.withheld[d] = q.withheld[d]
         /\ Distinct(q.withheld[a.ch]) => /\ Distinct(q'.withheld[a.ch])
                                          /\ Ids(q'.withheld[a.ch]) = Ids(q.withheld[a.ch]) \ {a.id}
         /\ Once(q) => Once(q')
<1> DEFINE c == a.ch
           x == ExtendDeadline(q, c)
<1>1. q \in BoundedQueue /\ c \in Channels /\ acks' = acks \ {a}
  BY DEF TypeInv, TypeOK, HandleAck
<1>2. SteersLeft
  <2>1. UNCHANGED tasks => SteersLeft
    BY DEF SteersLeft, TypeInv
  <2> QED
    BY <1>1, <2>1, SignalledSteers DEF HandleAck
<1>3. CASE a.kind = "success"
  <2>1. q' = RemoveEvent(x, c, a.id) /\ fate' = Settle(fate, {a.id}, "delivered")
    BY <1>3 DEF HandleAck
  <2>2. x \in BoundedQueue /\ SameStores(q, x)
    BY <1>1, ExtendBounded, StoresKept
  <2>3. Dies({a.id})
    BY <2>1, SettleDies
  <2> HIDE DEF x, c
  <2>4. /\ \A i \in Held(x) : i \in Held(q') \/ i = a.id
        /\ \A i \in Held(q') : i \in Held(x)
        /\ \A d \in Channels : /\ q'.cancelled[d] = x.cancelled[d]
                               /\ d # c => q'.withheld[d] = x.withheld[d]
        /\ Ids(q'.withheld[c]) = Ids(x.withheld[c]) \ {a.id}
        /\ Distinct(x.withheld[c]) => Distinct(q'.withheld[c])
        /\ Once(x) => Once(q') /\ (a.id \in Ids(x.withheld[c]) => a.id \notin Held(q'))
    BY <1>1, <2>1, <2>2, RemoveHeld
  <2>5. Held(x) = Held(q) /\ (Once(q) => Once(x))
    BY <2>2, SameHeld
  <2>6. \A d \in Channels : x.cancelled[d] = q.cancelled[d] /\ x.withheld[d] = q.withheld[d]
    BY <2>2 DEF SameStores
  <2>7. Once(q) /\ (a.id \in Held(q) => a.id \in Ids(q.withheld[c])) => a.id \notin Held(q')
    BY <1>1, <2>4, <2>5, <2>6
  <2>8. PICK T : T = {a.id}
    OBVIOUS
  <2>9. /\ Dies(T)
        /\ \A i \in Held(q) : i \in Held(q') \/ i \in T
        /\ \A i \in T : i \in Held(q) \/ i = a.id
        /\ Once(q) /\ (a.id \in Held(q) => a.id \in Ids(q.withheld[c])) => \A i \in T : i \notin Held(q')
    BY <2>3, <2>4, <2>5, <2>7, <2>8
  <2>10. /\ \A i \in Held(q') : i \in Held(q)
         /\ \A d \in Channels : /\ q'.cancelled[d] = q.cancelled[d]
                                /\ d # c => q'.withheld[d] = q.withheld[d]
         /\ Distinct(q.withheld[c]) => /\ Distinct(q'.withheld[c])
                                       /\ Ids(q'.withheld[c]) = Ids(q.withheld[c]) \ {a.id}
         /\ Once(q) => Once(q')
    BY <1>1, <2>4, <2>5, <2>6
  <2> QED
    BY <1>1, <1>2, <2>9, <2>10 DEF c
<1>4. CASE a.kind # "success"
  <2>1. q' = ReleaseNativeSteer(q, c, a.id) /\ fate' = Settle(fate, ReleaseTrims(q, c, a.id), "dropped")
    BY <1>4 DEF HandleAck
  <2> DEFINE T == ReleaseTrims(q, c, a.id)
  <2>2. Dies(T)
    BY <2>1, SettleDies
  <2> HIDE DEF c
  <2>3. /\ \A i \in Held(q) : i \in Held(q') \/ i \in T
        /\ \A i \in T : i \in Held(q)
        /\ \A i \in Held(q') : i \in Held(q)
        /\ \A d \in Channels : /\ q'.cancelled[d] = q.cancelled[d]
                               /\ d # c => q'.withheld[d] = q.withheld[d]
        /\ Distinct(q.withheld[c]) => /\ Distinct(q'.withheld[c])
                                      /\ Ids(q'.withheld[c]) = Ids(q.withheld[c]) \ {a.id}
        /\ Once(q) => Once(q') /\ \A i \in T : i \notin Held(q')
    BY <1>1, <2>1, ReleaseHeld
  <2> HIDE DEF T
  <2> QED
    BY <1>1, <1>2, <2>2, <2>3 DEF c
<1> QED
  BY <1>3, <1>4

\* Batch b goes back through requeue, with retries left.
Retried(b) == RequeueFailed(b) /\ ~RetriesExhausted(q, b.ch)

\* A turn is over: its batch ends, is stored as cancelled, or goes back through requeue, which
\* puts back its events but not those of an earlier cancelled turn.
LEMMA EndedEvents ==
  ASSUME TypeInv, NEW s \in Slots, HandleResult(s) \/ HandlePanic(s)
  PROVE  LET b == tasks[s].batch IN
         /\ tasks[s] \in GoodTask /\ tasks[s].phase \in {"done", "panicked"}
         /\ tasks' = [tasks EXCEPT ![s] = NoTask]
         /\ UNCHANGED <<acks, nextId, lapses>> /\ cxl \subseteq cxl'
         /\ \E T : /\ Dies(T)
                   /\ \A i \in Held(q) \cup Ids(b.events) : i \in Held(q') \/ i \in T
                   /\ \A i \in Ids(b.cancelled) : i \in Held(q') \/ i \in T \/ Retried(b)
                   /\ \A i \in T : i \in Held(q) \/ i \in BatchIds(b)
                   /\ Once(q) /\ OnceBatch(b) /\ BatchIds(b) \cap Held(q) = {} =>
                        Once(q') /\ \A i \in T : i \notin Held(q')
         /\ \A i \in Held(q') : i \in Held(q) \/ i \in BatchIds(b)
         /\ \A d \in Channels : /\ q'.withheld[d] = q.withheld[d]
                                /\ \A i \in Ids(q'.cancelled[d]) : i \in Ids(q.cancelled[d]) \/ i \in cxl'
<1> DEFINE b == tasks[s].batch
<1>1. /\ tasks[s] \in GoodTask /\ tasks[s].phase \in {"done", "panicked"}
      /\ tasks' = [tasks EXCEPT ![s] = NoTask] /\ UNCHANGED <<acks, nextId, lapses>>
  BY PhaseIsTask DEF HandleResult, HandlePanic
<1>2. q \in BoundedQueue /\ b.ch \in Channels \cup {Heartbeat} /\ (b.ch # Heartbeat => b \in Batch)
  BY <1>1, GoodTaskFacts DEF TypeInv
<1>3. \/ \E v \in {"delivered", "dropped", "dead"} : EndBatch(b, v)
      \/ b \in Batch /\ StoreCancelled(b)
      \/ b \in Batch /\ RequeueFailed(b)
  <2>1. tasks[s].returned => b \in Batch
    BY <1>1, GoodTaskFacts
  <2>2. CASE HandleResult(s)
    BY <2>1, <2>2 DEF HandleResult, ResultBatch
  <2>3. CASE HandlePanic(s)
    BY <1>2, <2>3 DEF HandlePanic
  <2> QED
    BY <2>2, <2>3
<1>4. ASSUME NEW qq \in BoundedQueue, MarkTaskComplete(qq, b.ch) PROVE SameStores(qq, q')
  <2>1. CASE b.ch = Heartbeat
    BY <1>4, <2>1 DEF MarkTaskComplete, SameStores
  <2>2. CASE b.ch # Heartbeat
    BY <1>2, <1>4, <2>2, StoresKept DEF MarkTaskComplete
  <2> QED
    BY <2>1, <2>2
<1>5. Ids(b.events) \subseteq BatchIds(b) /\ Ids(b.cancelled) \subseteq BatchIds(b)
  BY DEF BatchIds
<1> DEFINE Goal == /\ cxl \subseteq cxl'
                   /\ \E T : /\ Dies(T)
                             /\ \A i \in Held(q) \cup Ids(b.events) : i \in Held(q') \/ i \in T
                             /\ \A i \in Ids(b.cancelled) : i \in Held(q') \/ i \in T \/ Retried(b)
                             /\ \A i \in T : i \in Held(q) \/ i \in BatchIds(b)
                             /\ Once(q) /\ OnceBatch(b) /\ BatchIds(b) \cap Held(q) = {} =>
                                  Once(q') /\ \A i \in T : i \notin Held(q')
                   /\ \A i \in Held(q') : i \in Held(q) \/ i \in BatchIds(b)
                   /\ \A d \in Channels :
                        /\ q'.withheld[d] = q.withheld[d]
                        /\ \A i \in Ids(q'.cancelled[d]) : i \in Ids(q.cancelled[d]) \/ i \in cxl'
<1> HIDE DEF b
<1>6. ASSUME SameStores(q, q'), Dies(BatchIds(b)), cxl' = cxl PROVE Goal
  <2>1. Held(q') = Held(q) /\ (Once(q) => Once(q'))
    BY <1>6, SameHeld
  <2>2. \A d \in Channels : q'.withheld[d] = q.withheld[d] /\ q'.cancelled[d] = q.cancelled[d]
    BY <1>6 DEF SameStores
  <2> QED
    BY <1>5, <1>6, <2>1, <2>2
<1>7. ASSUME NEW v \in {"delivered", "dropped", "dead"}, EndBatch(b, v) PROVE Goal
  <2>1. SameStores(q, q') /\ cxl' = cxl /\ fate' = Settle(fate, BatchIds(b), v)
    BY <1>2, <1>4, <1>7 DEF EndBatch
  <2> QED
    BY <1>6, <2>1, SettleDies
<1>8. ASSUME b \in Batch, StoreCancelled(b) PROVE Goal
  <2> DEFINE y == RequeueAsCancelled(q, b)
  <2>1. y \in BoundedQueue
    BY <1>2, <1>8, RequeueAsCancelledBounded
  <2>2. SameStores(y, q') /\ cxl' = cxl \cup BatchIds(b) /\ Dies({})
    BY <1>4, <1>8, <2>1, NobodyDies DEF StoreCancelled
  <2>3. /\ Held(y) = Held(q) \cup BatchIds(b)
        /\ \A d \in Channels : /\ y.withheld[d] = q.withheld[d]
                               /\ \A i \in Ids(y.cancelled[d]) : i \in Ids(q.cancelled[d]) \/ i \in BatchIds(b)
        /\ Once(q) /\ OnceBatch(b) /\ BatchIds(b) \cap Held(q) = {} => Once(y)
    BY <1>2, <1>8, CancelHeld
  <2> HIDE DEF y
  <2>4. Held(q') = Held(y) /\ (Once(y) => Once(q'))
    BY <2>2, SameHeld
  <2>5. \A d \in Channels : q'.withheld[d] = y.withheld[d] /\ q'.cancelled[d] = y.cancelled[d]
    BY <2>2 DEF SameStores
  <2>6. PICK T : T = {}
    OBVIOUS
  <2>7. /\ Dies(T)
        /\ \A i \in Held(q) \cup Ids(b.events) : i \in Held(q') \/ i \in T
        /\ \A i \in Ids(b.cancelled) : i \in Held(q') \/ i \in T \/ Retried(b)
        /\ \A i \in T : i \in Held(q) \/ i \in BatchIds(b)
        /\ Once(q) /\ OnceBatch(b) /\ BatchIds(b) \cap Held(q) = {} =>
             Once(q') /\ \A i \in T : i \notin Held(q')
    BY <1>5, <2>2, <2>3, <2>4, <2>6
  <2> QED
    BY <2>2, <2>3, <2>4, <2>5, <2>7
<1>9. ASSUME b \in Batch, RequeueFailed(b) PROVE Goal
  <2> DEFINE y == Requeue(q, b)
             T == RequeueTrims(q, b)
  <2>1. y \in BoundedQueue
    BY <1>2, <1>9, RequeueBounded
  <2>2. SameStores(y, q') /\ cxl' = cxl
    BY <1>4, <1>9, <2>1 DEF RequeueFailed
  <2>3. CASE RetriesExhausted(q, b.ch)
    <3>1. SameStores(q, y)
      BY <1>2, <1>9, <2>3, ExhaustedHeld
    <3>2. SameStores(q, q')
      BY <2>2, <3>1 DEF SameStores
    <3>3. fate' = Settle(fate, BatchIds(b), "dead")
      BY <1>9, <2>3 DEF RequeueFailed
    <3> QED
      BY <1>6, <2>2, <3>2, <3>3, SettleDies
  <2>4. CASE ~RetriesExhausted(q, b.ch)
    <3>1. fate' = Settle(fate, T, "dropped")
      BY <1>9, <2>4 DEF RequeueFailed
    <3>2. Dies(T)
      BY <3>1, SettleDies
    <3>3. /\ \A i \in Held(q) \cup Ids(b.events) : i \in Held(y) \/ i \in T
          /\ \A i \in T : i \in Held(q) \/ i \in Ids(b.events)
          /\ \A i \in Held(y) : i \in Held(q) \/ i \in Ids(b.events)
          /\ \A d \in Channels : y.withheld[d] = q.withheld[d] /\ y.cancelled[d] = q.cancelled[d]
          /\ Once(q) /\ Distinct(b.events) /\ Ids(b.events) \cap Held(q) = {} =>
               Once(y) /\ \A i \in T : i \notin Held(y)
      BY <1>2, <1>9, <2>4, RequeueHeld
    <3> HIDE DEF y, T
    <3>4. Held(q') = Held(y) /\ (Once(y) => Once(q'))
      BY <2>2, SameHeld
    <3>5. \A d \in Channels : q'.withheld[d] = y.withheld[d] /\ q'.cancelled[d] = y.cancelled[d]
      BY <2>2 DEF SameStores
    <3>6. Once(q) /\ OnceBatch(b) /\ BatchIds(b) \cap Held(q) = {} =>
            Once(q') /\ \A i \in T : i \notin Held(q')
      BY <1>5, <3>3, <3>4 DEF OnceBatch
    <3>7. Retried(b)
      BY <1>9, <2>4 DEF Retried
    <3> QED
      BY <1>5, <2>2, <3>2, <3>3, <3>4, <3>5, <3>6, <3>7
  <2> QED
    BY <2>3, <2>4
<1>10. Goal
  BY <1>3, <1>7, <1>8, <1>9
<1> QED
  BY <1>1, <1>10 DEF b

\* The remaining steps leave the stores, the batches and the fates alone.
LEMMA QuietEvents ==
  ASSUME TypeInv,
         \/ NoMaintenance \/ CollectRespawns \/ DrainDone \/ PeriodicTick \/ Shutdown
         \/ \E c \in Channels : MemberAdded(c) \/ CancelTurn(c) \/ Rotate(c) \/ SwitchModel(c)
         \/ \E c \in Channels, at \in 1 .. MaxCreated : RelayEvent(c, at) /\ ~PushAccepted(q, c)
         \/ \E s \in Slots : TaskStep(s)
         \/ Clock
         \/ UNCHANGED vars
  PROVE  /\ SameStores(q, q') /\ UNCHANGED <<fate, cxl>> /\ TasksKept
         /\ nextId' \in {nextId, nextId + 1} /\ (lapses' = 0 => lapses = 0)
<1>0. q \in BoundedQueue /\ SameStores(q, q) /\ (UNCHANGED tasks => TasksKept)
  BY DEF TypeInv, SameStores, TasksKept
<1>1. CASE NoMaintenance \/ CollectRespawns \/ DrainDone \/ PeriodicTick \/ Shutdown \/ UNCHANGED vars
  BY <1>0, <1>1 DEF NoMaintenance, CollectRespawns, DrainDone, PeriodicTick, Shutdown, vars
<1>2. ASSUME NEW c \in Channels, MemberAdded(c) \/ CancelTurn(c) \/ Rotate(c) \/ SwitchModel(c)
      PROVE  SameStores(q, q') /\ UNCHANGED <<fate, cxl, nextId, lapses>> /\ TasksKept
  <2>1. TasksKept
    BY <1>2, InputsQuiet DEF QuietStep
  <2>2. UNCHANGED <<q, fate, cxl, nextId, lapses>>
    BY <1>2 DEF MemberAdded, CancelTurn, Rotate, SwitchModel
  <2> QED
    BY <1>0, <2>1, <2>2
<1>3. ASSUME NEW c \in Channels, NEW at \in 1 .. MaxCreated, RelayEvent(c, at), ~PushAccepted(q, c)
      PROVE  SameStores(q, q') /\ UNCHANGED <<fate, cxl, lapses>> /\ TasksKept /\ nextId' = nextId + 1
  BY <1>0, <1>3 DEF RelayEvent
<1>4. ASSUME NEW s \in Slots, TaskStep(s)
      PROVE  SameStores(q, q') /\ UNCHANGED <<fate, cxl, nextId, lapses>> /\ TasksKept
  <2>1. UNCHANGED <<q, fate, cxl, nextId, lapses>>
    BY <1>4 DEF TaskStep, TakeSteer, SteerReply, TurnEnds, TurnCancelled, Finish, TaskPanics,
                RespawnEnds, MainLoopVars
  <2>2. TasksKept
    BY <1>0, <1>4, TaskStepCases DEF QuietStep, RespawnEnds
  <2> QED
    BY <1>0, <2>1, <2>2
<1>5. CASE Clock
  <2>1. UNCHANGED <<tasks, fate, cxl, nextId>>
    BY <1>5 DEF Clock, ThrottleElapses, DeadlinePasses, CrashesAge, CooldownElapses
  <2>2. SameStores(q, q')
    BY <1>0, <1>5 DEF Clock, ThrottleElapses, DeadlinePasses, CrashesAge, CooldownElapses,
                      SameStores, BoundedQueue
  <2>3. lapses' \in {lapses, lapses + 1} /\ lapses \in Nat
    BY <1>5 DEF Clock, ThrottleElapses, DeadlinePasses, CrashesAge, CooldownElapses, TypeInv, TypeOK
  <2> QED
    BY <1>0, <2>1, <2>2, <2>3
<1> QED
  BY <1>1, <1>2, <1>3, <1>4, <1>5

\* Every step is one of these.
LEMMA EventCases ==
  ASSUME TypeInv, [Next]_vars
  PROVE  \/ Maintenance \/ HeartbeatTick \/ DispatchStep
         \/ \E c \in Channels, at \in 1 .. MaxCreated : RelayEvent(c, at) /\ PushAccepted(q, c)
         \/ \E c \in Channels : MemberRemoved(c)
         \/ \E a \in acks : HandleAck(a)
         \/ \E s \in Slots : HandleResult(s) \/ HandlePanic(s)
         \/ /\ SameStores(q, q') /\ UNCHANGED <<fate, cxl>> /\ TasksKept
            /\ nextId' \in {nextId, nextId + 1} /\ (lapses' = 0 => lapses = 0)
BY QuietEvents DEF Next, MainLoop, Inputs

-----------------------------------------------------------------------------
(* No event disappears silently. *)

\* The events of cancelled turns are on record, wherever they are now, and every other live
\* event is in a store or in a batch.
AccountInv ==
  /\ \A c \in Channels : Ids(q.cancelled[c]) \subseteq cxl
  /\ \A s \in TaskSlots : Ids(tasks[s].batch.cancelled) \subseteq cxl
  /\ \A i \in EventIds : fate[i] = "live" /\ i \notin cxl =>
       i \in Held(q) \/ \E s \in Slots : i \in BatchOf(s)

\* What a step must do.
LEMMA AccountStep ==
  ASSUME AccountInv, NEW T, cxl \subseteq cxl',
         \A i \in EventIds : fate'[i] = "live" => (fate[i] = "live" /\ i \notin T) \/ i \in Held(q'),
         \A i \in Held(q) : i \in Held(q') \/ i \in T \/ i \in cxl' \/ \E s \in Slots : i \in BatchOf(s)',
         \A s \in Slots : \A i \in BatchOf(s) :
           i \in Held(q') \/ i \in T \/ i \in cxl' \/ \E t \in Slots : i \in BatchOf(t)',
         \A c \in Channels : Ids(q'.cancelled[c]) \subseteq cxl',
         \A s \in Slots : tasks'[s] # NoTask => Ids(tasks'[s].batch.cancelled) \subseteq cxl'
  PROVE  AccountInv'
<1>1. \A s \in TaskSlots' : Ids(tasks'[s].batch.cancelled) \subseteq cxl'
  BY DEF TaskSlots
<1>2. \A i \in EventIds : fate'[i] = "live" /\ i \notin cxl' =>
        i \in Held(q') \/ \E s \in Slots : i \in BatchOf(s)'
  BY DEF AccountInv
<1>3. (\A i \in EventIds : fate[i] = "live" /\ i \notin cxl =>
        i \in Held(q) \/ \E s \in Slots : i \in BatchOf(s))'
  <2>1. Held(q)' = Held(q')
    BY DEF Held, ChannelIds
  <2> QED
    BY <1>2, <2>1
<1> QED
  BY <1>1, <1>3 DEF AccountInv

\* A step that keeps the tasks and stores no cancelled batch.
LEMMA AccountKept ==
  ASSUME AccountInv, TasksKept, UNCHANGED cxl, NEW T,
         \A i \in EventIds : fate'[i] = "live" => (fate[i] = "live" /\ i \notin T) \/ i \in Held(q'),
         \A i \in Held(q) : i \in Held(q') \/ i \in T \/ i \in cxl,
         \A d \in Channels : Ids(q'.cancelled[d]) \subseteq Ids(q.cancelled[d])
  PROVE  AccountInv'
<1>1. \A s \in Slots : BatchOf(s)' = BatchOf(s)
  BY BatchesKept
<1>2. \A s \in Slots : tasks'[s] # NoTask => Ids(tasks'[s].batch.cancelled) \subseteq cxl'
  BY DEF TasksKept, AccountInv, TaskSlots
<1>3. \A c \in Channels : Ids(q'.cancelled[c]) \subseteq cxl'
  BY DEF AccountInv
<1> QED
  BY <1>1, <1>2, <1>3, AccountStep

\* A step that hands an idle agent a batch b.
LEMMA AccountTaken ==
  ASSUME TypeInv, SlotInv, AccountInv, UNCHANGED cxl, NEW T, NEW s \in Idle, NEW t \in GoodTask,
         tasks' = [tasks EXCEPT ![s] = t], Dies(T),
         \A i \in Held(q) : i \in Held(q') \/ i \in BatchIds(t.batch) \/ i \in T,
         \A d \in Channels : Ids(q'.cancelled[d]) \subseteq Ids(q.cancelled[d]),
         Ids(t.batch.cancelled) \subseteq cxl
  PROVE  AccountInv'
<1>1. s \in Slots /\ tasks[s] = NoTask /\ t # NoTask
  BY GoodTaskFacts DEF Idle, SlotInv, SlotExclusive
<1>2. \A u \in Slots : tasks'[u] = IF u = s THEN t ELSE tasks[u]
  BY <1>1 DEF TypeInv
<1>3. /\ BatchOf(s) = {} /\ BatchOf(s)' = BatchIds(t.batch)
      /\ \A u \in Slots \ {s} : BatchOf(u)' = BatchOf(u)
  BY <1>1, <1>2 DEF BatchOf, BatchIds
<1>4. \A u \in Slots : tasks'[u] # NoTask => Ids(tasks'[u].batch.cancelled) \subseteq cxl'
  BY <1>2 DEF AccountInv, TaskSlots
<1>5. \A c \in Channels : Ids(q'.cancelled[c]) \subseteq cxl'
  BY DEF AccountInv
<1>6. \A i \in EventIds : fate'[i] = "live" => (fate[i] = "live" /\ i \notin T) \/ i \in Held(q')
  BY DEF Dies
<1>7. \A i \in Held(q) : i \in Held(q') \/ i \in T \/ i \in cxl' \/ \E u \in Slots : i \in BatchOf(u)'
  BY <1>1, <1>3
<1>8. \A u \in Slots : \A i \in BatchOf(u) :
        i \in Held(q') \/ i \in T \/ i \in cxl' \/ \E w \in Slots : i \in BatchOf(w)'
  BY <1>3
<1> QED
  BY <1>4, <1>5, <1>6, <1>7, <1>8, AccountStep

\* A step that ends a task.
LEMMA AccountEnded ==
  ASSUME TypeInv, AccountInv, NEW s \in Slots, HandleResult(s) \/ HandlePanic(s)
  PROVE  AccountInv'
<1> DEFINE b == tasks[s].batch
<1>1. /\ tasks[s] \in GoodTask /\ tasks' = [tasks EXCEPT ![s] = NoTask] /\ cxl \subseteq cxl'
  BY EndedEvents
<1>2. PICK T : /\ Dies(T)
               /\ \A i \in Held(q) \cup Ids(b.events) : i \in Held(q') \/ i \in T
  BY EndedEvents
<1>3. \A d \in Channels : \A i \in Ids(q'.cancelled[d]) : i \in Ids(q.cancelled[d]) \/ i \in cxl'
  BY EndedEvents
<1>4. tasks[s] # NoTask /\ BatchOf(s) = Ids(b.events) \cup Ids(b.cancelled)
  BY <1>1, GoodTaskFacts DEF BatchOf, BatchIds
<1>5. Ids(b.cancelled) \subseteq cxl
  BY <1>4 DEF AccountInv, TaskSlots
<1>6. \A u \in Slots : tasks'[u] = IF u = s THEN NoTask ELSE tasks[u]
  BY <1>1 DEF TypeInv
<1>7. \A u \in Slots \ {s} : BatchOf(u)' = BatchOf(u)
  BY <1>6 DEF BatchOf, BatchIds
<1>8. \A u \in Slots : tasks'[u] # NoTask => Ids(tasks'[u].batch.cancelled) \subseteq cxl'
  BY <1>1, <1>6 DEF AccountInv, TaskSlots
<1>9. \A c \in Channels : Ids(q'.cancelled[c]) \subseteq cxl'
  BY <1>1, <1>3 DEF AccountInv
<1>10. \A i \in EventIds : fate'[i] = "live" => (fate[i] = "live" /\ i \notin T) \/ i \in Held(q')
  BY <1>2 DEF Dies
<1> HIDE DEF b
<1>11. \A u \in Slots : \A i \in BatchOf(u) :
         i \in Held(q') \/ i \in T \/ i \in cxl' \/ \E w \in Slots : i \in BatchOf(w)'
  BY <1>1, <1>2, <1>4, <1>5, <1>7
<1> QED
  BY <1>1, <1>2, <1>8, <1>9, <1>10, <1>11, AccountStep

\* dispatch_pending and the heartbeat tick.
LEMMA AccountDispatch ==
  ASSUME TypeInv, SlotInv, AccountInv, DispatchStep
  PROVE  AccountInv'
<1>1. UNCHANGED cxl
  BY DEF DispatchStep
<1>2. ASSUME NEW r \in FlushNext(q), Idle # {}, q' = r.q,
             tasks' = [tasks EXCEPT ![Claim(r.batch.ch)] = NewTask(r.batch, "open")],
             fate' = Settle(fate, ExpiryTrims(q), "dropped")
      PROVE  AccountInv'
  <2> DEFINE t == NewTask(r.batch, "open")
             s == Claim(r.batch.ch)
  <2>1. /\ r.batch \in Batch /\ t \in GoodTask
        /\ \E T : /\ Dies(T)
                  /\ \A i \in Held(q) : i \in Held(q') \/ i \in BatchIds(r.batch) \/ i \in T
        /\ \A i \in Ids(r.batch.cancelled) : i \in Ids(q.cancelled[r.batch.ch])
        /\ \A d \in Channels : Ids(q'.cancelled[d]) \subseteq Ids(q.cancelled[d])
    BY <1>2, DispatchedEvents
  <2>2. t.batch = r.batch
    BY DEF NewTask
  <2>3. s \in Idle
    BY <1>2, ClaimIdle
  <2>4. Ids(r.batch.cancelled) \subseteq cxl
    BY <2>1 DEF AccountInv, Batch
  <2>5. tasks' = [tasks EXCEPT ![s] = t]
    BY <1>2
  <2> HIDE DEF t, s
  <2>6. PICK T : Dies(T) /\ \A i \in Held(q) : i \in Held(q') \/ i \in BatchIds(t.batch) \/ i \in T
    BY <2>1, <2>2
  <2> QED
    BY <1>1, <2>1, <2>2, <2>3, <2>4, <2>5, <2>6, AccountTaken
<1>3. ASSUME UNCHANGED tasks,
             \/ /\ q' = ExpireInFlight(q) /\ fate' = Settle(fate, ExpiryTrims(q), "dropped")
             \/ \E r \in FlushNext(q) :
                  /\ q' = MarkComplete(RequeuePreserve(r.q, r.batch), r.batch.ch)
                  /\ fate' = Settle(fate, ExpiryTrims(q) \cup RequeueTrims(r.q, r.batch), "dropped")
      PROVE  AccountInv'
  <2>1. PICK T, L : /\ Dies(T)
                    /\ \A i \in Held(q) : i \in Held(q') \/ i \in T \/ i \in L
                    /\ \A i \in L : \E d \in Channels : i \in Ids(q.cancelled[d])
                    /\ \A d \in Channels : Ids(q'.cancelled[d]) \subseteq Ids(q.cancelled[d])
    BY <1>3, BouncedEvents
  <2>2. TasksKept
    BY <1>3 DEF TasksKept
  <2>3. \A i \in L : i \in cxl
    BY <2>1 DEF AccountInv
  <2>4. \A i \in EventIds : fate'[i] = "live" => (fate[i] = "live" /\ i \notin T) \/ i \in Held(q')
    BY <2>1 DEF Dies
  <2> QED
    BY <1>1, <2>1, <2>2, <2>3, <2>4, AccountKept
<1> QED
  BY <1>2, <1>3 DEF DispatchStep

\* Maintenance and the heartbeat tick, which hands out a task without events.
LEMMA AccountExpiry ==
  ASSUME TypeInv, SlotInv, AccountInv, Maintenance \/ HeartbeatTick
  PROVE  AccountInv'
<1>1. PICK T : /\ Dies(T)
               /\ \A i \in Held(q) : i \in Held(q') \/ i \in T
               /\ \A d \in Channels : q'.cancelled[d] = q.cancelled[d]
  BY ExpiryEvents
<1>2. UNCHANGED cxl
  BY DEF Maintenance, HeartbeatTick
<1>3. CASE UNCHANGED tasks
  <2>1. TasksKept
    BY <1>3 DEF TasksKept
  <2>2. \A i \in EventIds : fate'[i] = "live" => (fate[i] = "live" /\ i \notin T) \/ i \in Held(q')
    BY <1>1 DEF Dies
  <2> QED
    BY <1>1, <1>2, <2>1, <2>2, AccountKept
<1>4. CASE ~UNCHANGED tasks
  <2> DEFINE b == [ch |-> Heartbeat, events |-> <<>>, cancelled |-> <<>>, reason |-> "none"]
             t == NewTask(b, "none")
             s == FirstOf(Idle)
  <2>1. t \in GoodTask /\ t.batch = b
    BY HeartbeatTaskGood DEF NewTask
  <2>2. Idle # {} /\ tasks' = [tasks EXCEPT ![s] = t]
    BY <1>4 DEF Maintenance, HeartbeatTick
  <2>3. s \in Idle
    BY <2>2, FirstOfMember DEF Idle
  <2>4. Ids(t.batch.cancelled) \subseteq cxl
    BY <2>1, EmptyIds
  <2> HIDE DEF t, s
  <2> QED
    BY <1>1, <1>2, <2>1, <2>2, <2>3, <2>4, AccountTaken
<1> QED
  BY <1>3, <1>4

\* The accounting is inductive.
LEMMA AccountNext == TypeInv /\ SlotInv /\ AccountInv /\ [Next]_vars => AccountInv'
<1> SUFFICES ASSUME TypeInv, SlotInv, AccountInv, [Next]_vars PROVE AccountInv'
  OBVIOUS
<1>1. ASSUME NEW c \in Channels, NEW at \in 1 .. MaxCreated, RelayEvent(c, at), PushAccepted(q, c)
      PROVE  AccountInv'
  <2> DEFINE T == PushEvicts(q, c)
  <2>1. /\ \A i \in EventIds : fate'[i] = "live" <=> i = nextId \/ (fate[i] = "live" /\ i \notin T)
        /\ \A i \in Held(q) : i \in Held(q') \/ i \in T
        /\ nextId \in Held(q')
        /\ \A d \in Channels : q'.cancelled[d] = q.cancelled[d]
    BY <1>1, PushedEvents
  <2>2. UNCHANGED cxl /\ TasksKept
    BY <1>1, InputsQuiet DEF RelayEvent, QuietStep
  <2> HIDE DEF T
  <2> QED
    BY <2>1, <2>2, AccountKept
<1>2. ASSUME NEW c \in Channels, MemberRemoved(c) PROVE AccountInv'
  <2> DEFINE T == ChannelIds(q, c)
  <2>1. /\ Dies(T)
        /\ \A i \in Held(q) : i \in Held(q') \/ i \in T
        /\ \A d \in Channels : Ids(q'.cancelled[d]) \subseteq Ids(q.cancelled[d])
    BY <1>2, DrainedEvents
  <2>2. UNCHANGED cxl /\ TasksKept
    BY <1>2, InputsQuiet DEF MemberRemoved, QuietStep
  <2> HIDE DEF T
  <2>3. \A i \in EventIds : fate'[i] = "live" => (fate[i] = "live" /\ i \notin T) \/ i \in Held(q')
    BY <2>1 DEF Dies
  <2> QED
    BY <2>1, <2>2, <2>3, AccountKept
<1>3. ASSUME NEW a \in acks, HandleAck(a) PROVE AccountInv'
  <2>1. PICK T : Dies(T) /\ \A i \in Held(q) : i \in Held(q') \/ i \in T
    BY <1>3, AnsweredEvents
  <2>2. \A d \in Channels : q'.cancelled[d] = q.cancelled[d]
    BY <1>3, AnsweredEvents
  <2>3. UNCHANGED cxl /\ TasksKept
    BY <1>3, AckQuiet DEF HandleAck, QuietStep
  <2>4. \A i \in EventIds : fate'[i] = "live" => (fate[i] = "live" /\ i \notin T) \/ i \in Held(q')
    BY <2>1 DEF Dies
  <2> QED
    BY <2>1, <2>2, <2>3, <2>4, AccountKept
<1>4. ASSUME SameStores(q, q'), UNCHANGED <<fate, cxl>>, TasksKept PROVE AccountInv'
  <2>1. Held(q') = Held(q) /\ \A d \in Channels : q'.cancelled[d] = q.cancelled[d]
    BY <1>4, SameHeld DEF SameStores
  <2>2. \A i \in EventIds : fate'[i] = "live" => (fate[i] = "live" /\ i \notin {}) \/ i \in Held(q')
    BY <1>4
  <2> QED
    BY <1>4, <2>1, <2>2, AccountKept
<1> QED
  BY <1>1, <1>2, <1>3, <1>4, EventCases, AccountExpiry, AccountDispatch, AccountEnded

\* At the start there is nothing to account for.
LEMMA AccountInit == Init => AccountInv
<1> SUFFICES ASSUME Init PROVE AccountInv
  OBVIOUS
<1>1. TaskSlots = {} /\ \A i \in EventIds : fate[i] # "live"
  BY DEF Init, TaskSlots
<1>2. \A c \in Channels : q.cancelled[c] = <<>>
  BY DEF Init, NewQueue
<1> QED
  BY <1>1, <1>2, EmptyIds DEF AccountInv

-----------------------------------------------------------------------------
(* Every withheld event has an answer coming. *)

\* The task of slot s becomes t and answers some of its requests with the acks A; open ones stay.
Answering(s, t, A, open) ==
  /\ tasks[s] \in GoodTask /\ t \in GoodTask
  /\ tasks' = [tasks EXCEPT ![s] = t] /\ t.batch.ch = tasks[s].batch.ch
  /\ acks' = acks \cup A /\ UNCHANGED nextId
  /\ open = {t.buf, t.pend} \ {NoEvent} /\ open \subseteq OpenSteers(s)
  /\ \A a \in A : a.ch = tasks[s].batch.ch /\ a.id \in OpenSteers(s) /\ a.id \notin open
  /\ \A a, b \in A : a.id = b.id => a = b
  /\ \A i \in OpenSteers(s) : i \in open \/ \E a \in A : a.id = i
  /\ t.buf # NoEvent => t.buf # t.pend
  /\ t.phase # "running" => t.buf = NoEvent /\ t.pend = NoEvent

\* Such a step keeps the requests and acks apart, and no request loses its answer.
LEMMA SteersAnswered ==
  ASSUME TypeInv, SteersOnce, NEW s \in Slots, NEW t, NEW A, NEW open, Answering(s, t, A, open)
  PROVE  SteersOnce' /\ \A c, i : AskedFor(c, i)' <=> AskedFor(c, i)
<1>0. /\ tasks[s] \in GoodTask /\ t \in GoodTask
      /\ tasks' = [tasks EXCEPT ![s] = t] /\ t.batch.ch = tasks[s].batch.ch
      /\ acks' = acks \cup A /\ UNCHANGED nextId
      /\ open = {t.buf, t.pend} \ {NoEvent}
      /\ \A a, b \in A : a.id = b.id => a = b
      /\ t.buf # NoEvent => t.buf # t.pend
      /\ t.phase # "running" => t.buf = NoEvent /\ t.pend = NoEvent
  BY DEF Answering
<1>1. t # NoTask /\ tasks[s] # NoTask
  BY <1>0, GoodTaskFacts
<1>2. \A u \in Slots : tasks'[u] = IF u = s THEN t ELSE tasks[u]
  BY <1>0 DEF TypeInv
<1>3. /\ TaskSlots' = TaskSlots /\ s \in TaskSlots /\ TaskSlots \subseteq Slots
      /\ OpenSteers(s)' = open /\ \A u \in TaskSlots : u # s => OpenSteers(u)' = OpenSteers(u)
  BY <1>0, <1>1, <1>2 DEF TaskSlots, OpenSteers
<1>4. \A c : TasksOn(c)' = TasksOn(c)
  BY <1>0, <1>2, <1>3 DEF TasksOn
<1>5. /\ \A a \in A : a.ch = tasks[s].batch.ch /\ a.id \in OpenSteers(s) /\ a.id \notin open
      /\ open \subseteq OpenSteers(s)
      /\ \A i \in OpenSteers(s) : i \in open \/ \E a \in A : a.id = i
  BY DEF Answering
<1>6. \A a \in acks, b \in A : a.id # b.id
  BY <1>3, <1>5 DEF SteersOnce
<1>7. \A a, b \in acks' : a.id = b.id => a = b
  BY <1>0, <1>6 DEF SteersOnce
<1>8. \A a \in acks' : a.id < nextId'
  BY <1>0, <1>3, <1>5 DEF SteersOnce
<1>9. \A u \in TaskSlots' : \A i \in OpenSteers(u)' :
        /\ i < nextId' /\ \A a \in acks' : a.id # i
        /\ \A w \in TaskSlots' : w # u => i \notin OpenSteers(w)'
  <2> SUFFICES ASSUME NEW u \in TaskSlots, NEW i \in OpenSteers(u)'
               PROVE  /\ i < nextId' /\ \A a \in acks' : a.id # i
                      /\ \A w \in TaskSlots : w # u => i \notin OpenSteers(w)'
    BY <1>3
  <2>1. i \in OpenSteers(u)
    BY <1>3, <1>5
  <2>2. i < nextId /\ (\A a \in acks : a.id # i) /\ \A w \in TaskSlots : w # u => i \notin OpenSteers(w)
    BY <2>1 DEF SteersOnce
  <2>3. \A w \in TaskSlots : w # u => i \notin OpenSteers(w)'
    BY <1>3, <1>5, <2>2
  <2>4. \A a \in A : a.id # i
    BY <1>3, <1>5, <2>2
  <2> QED
    BY <1>0, <2>2, <2>3, <2>4
<1>10. \A u \in TaskSlots' :
         /\ tasks'[u].buf # NoEvent => tasks'[u].buf # tasks'[u].pend
         /\ tasks'[u].phase # "running" => tasks'[u].buf = NoEvent /\ tasks'[u].pend = NoEvent
  BY <1>0, <1>2, <1>3 DEF SteersOnce
<1>11. SteersOnce'
  BY <1>7, <1>8, <1>9, <1>10 DEF SteersOnce
<1>12. ASSUME NEW c, NEW i PROVE AskedFor(c, i)' <=> AskedFor(c, i)
  <2>1. ASSUME AskedFor(c, i) PROVE AskedFor(c, i)'
    <3>1. CASE \E a \in acks : a.ch = c /\ a.id = i
      BY <1>0, <3>1 DEF AskedFor
    <3>2. ASSUME NEW u \in TasksOn(c), i \in OpenSteers(u) PROVE AskedFor(c, i)'
      <4>1. CASE u # s
        <5>1. u \in TasksOn(c)' /\ i \in OpenSteers(u)'
          BY <1>3, <1>4, <3>2, <4>1 DEF TasksOn
        <5> QED
          BY <5>1 DEF AskedFor
      <4>2. CASE u = s /\ i \in open
        <5>1. s \in TasksOn(c)' /\ i \in OpenSteers(s)'
          BY <1>3, <1>4, <3>2, <4>2
        <5> QED
          BY <5>1 DEF AskedFor
      <4>3. CASE u = s /\ \E a \in A : a.id = i
        <5>1. tasks[s].batch.ch = c
          BY <3>2, <4>3 DEF TasksOn
        <5> QED
          BY <1>0, <1>5, <4>3, <5>1 DEF AskedFor
      <4> QED
        BY <1>5, <3>2, <4>1, <4>2, <4>3
    <3> QED
      BY <2>1, <3>1, <3>2 DEF AskedFor
  <2>2. ASSUME AskedFor(c, i)' PROVE AskedFor(c, i)
    <3>1. CASE \E a \in acks : a.ch = c /\ a.id = i
      BY <3>1 DEF AskedFor
    <3>2. ASSUME NEW a \in A, a.ch = c, a.id = i PROVE AskedFor(c, i)
      <4>1. s \in TasksOn(c) /\ i \in OpenSteers(s)
        BY <1>3, <1>5, <3>2 DEF TasksOn
      <4> QED
        BY <4>1 DEF AskedFor
    <3>3. ASSUME NEW u \in TasksOn(c)', i \in OpenSteers(u)' PROVE AskedFor(c, i)
      <4>1. u \in TasksOn(c) /\ i \in OpenSteers(u)
        BY <1>3, <1>4, <1>5, <3>3 DEF TasksOn
      <4> QED
        BY <4>1 DEF AskedFor
    <3> QED
      BY <1>0, <2>2, <3>1, <3>2, <3>3 DEF AskedFor
  <2> QED
    BY <2>1, <2>2
<1> QED
  BY <1>11, <1>12

\* The prompt task: requests are written, answered, and released when it ends.
LEMMA SteersTask ==
  ASSUME TypeInv, SteersOnce, NEW s \in Slots, TaskStep(s)
  PROVE  SteersOnce' /\ \A c, i : AskedFor(c, i)' <=> AskedFor(c, i)
<1>1. CASE RespawnEnds(s)
  <2>1. UNCHANGED <<tasks, acks, nextId>>
    BY <1>1 DEF RespawnEnds, MainLoopVars
  <2>2. SteersLeft /\ nextId \in Nat /\ acks \subseteq AckType /\ tasks \in [Slots -> GoodTask \cup {NoTask}]
    BY <2>1 DEF SteersLeft, TypeInv, TypeOK, AckType
  <2> QED
    BY <2>1, <2>2, SteersSame
<1> DEFINE u == tasks[s]
<1>2. CASE TakeSteer(s)
  <2>1. u \in GoodTask /\ u.batch.ch \in Channels /\ u.buf # NoEvent /\ u.pend = NoEvent
        /\ u.phase = "running" /\ u.buf \in Nat
    BY <1>2, PhaseIsTask, GoodTaskFacts DEF TakeSteer, Running, Batch
  <2>2. OpenSteers(s) = {u.buf}
    BY <2>1 DEF OpenSteers
  <2>3. UNCHANGED nextId
    BY <1>2 DEF TakeSteer, MainLoopVars
  <2>4. CASE /\ tasks' = [tasks EXCEPT ![s].pend = u.buf, ![s].buf = NoEvent]
             /\ UNCHANGED acks
    <3> DEFINE t == [u EXCEPT !.pend = u.buf, !.buf = NoEvent]
    <3>1. t \in GoodTask
      BY <2>1, TaskUpdates DEF NoEvent
    <3>2. tasks' = [tasks EXCEPT ![s] = t]
      BY <2>4 DEF TypeInv
    <3>3. t.pend = u.buf /\ t.buf = NoEvent /\ t.batch = u.batch /\ t.phase = u.phase
      BY <2>1 DEF GoodTask, Task
    <3>4. PICK A : A = {}
      OBVIOUS
    <3> HIDE DEF t
    <3>5. PICK open : open = {t.buf, t.pend} \ {NoEvent}
      OBVIOUS
    <3>6. open = OpenSteers(s) /\ t.batch.ch = u.batch.ch
      BY <2>1, <2>2, <3>3, <3>5
    <3>7. /\ open \subseteq OpenSteers(s)
          /\ \A a \in A : a.ch = tasks[s].batch.ch /\ a.id \in OpenSteers(s) /\ a.id \notin open
          /\ \A a, b \in A : a.id = b.id => a = b
          /\ \A i \in OpenSteers(s) : i \in open \/ \E a \in A : a.id = i
          /\ acks' = acks \cup A
      BY <2>4, <3>4, <3>6
    <3>8. Answering(s, t, A, open)
      BY <2>1, <2>3, <3>1, <3>2, <3>3, <3>5, <3>6, <3>7 DEF Answering
    <3> QED
      BY <3>8, SteersAnswered
  <2>5. CASE /\ tasks' = [tasks EXCEPT ![s].buf = NoEvent]
             /\ acks' = acks \cup {AckOf(s, u.buf, "fallback")}
    <3> DEFINE t == [u EXCEPT !.buf = NoEvent]
               A == {AckOf(s, u.buf, "fallback")}
    <3>1. t \in GoodTask
      BY <2>1, TaskUpdates DEF NoEvent
    <3>2. tasks' = [tasks EXCEPT ![s] = t]
      BY <2>5 DEF TypeInv
    <3>3. t.pend = NoEvent /\ t.buf = NoEvent /\ t.batch = u.batch /\ t.phase = u.phase
      BY <2>1 DEF GoodTask, Task
    <3>4. /\ acks' = acks \cup A
          /\ \A a \in A : a.ch = u.batch.ch /\ a.id = u.buf
          /\ \A a, b \in A : a = b
          /\ \E a \in A : a.id = u.buf
      BY <2>5 DEF AckOf
    <3> HIDE DEF t, A
    <3> DEFINE open == {t.buf, t.pend} \ {NoEvent}
    <3>5. open = {} /\ t.batch.ch = u.batch.ch
      BY <3>3
    <3>6. /\ \A a \in A : a.ch = u.batch.ch /\ a.id \in OpenSteers(s) /\ a.id \notin open
          /\ \A i \in OpenSteers(s) : i \in open \/ \E a \in A : a.id = i
          /\ \A a, b \in A : a.id = b.id => a = b
      BY <2>2, <3>4, <3>5
    <3>7. Answering(s, t, A, open)
      BY <2>1, <2>3, <3>1, <3>2, <3>3, <3>4, <3>5, <3>6 DEF Answering
    <3> QED
      BY <3>7, SteersAnswered
  <2> QED
    BY <1>2, <2>4, <2>5 DEF TakeSteer
<1>3. ASSUME NEW kind \in {"success", "release", "fallback"}, SteerReply(s, kind)
      PROVE  SteersOnce' /\ \A c, i : AskedFor(c, i)' <=> AskedFor(c, i)
  <2>1. u \in GoodTask /\ u.batch.ch \in Channels /\ u.pend # NoEvent /\ u.phase = "running" /\ u.pend \in Nat
    BY <1>3, PhaseIsTask, GoodTaskFacts DEF SteerReply, Running, Batch
  <2>2. u.buf # u.pend
    BY <2>1, GoodTaskFacts DEF SteersOnce, TaskSlots
  <2>3. OpenSteers(s) = {u.buf, u.pend} \ {NoEvent}
    BY DEF OpenSteers
  <2> DEFINE t == [u EXCEPT !.pend = NoEvent]
             A == {AckOf(s, u.pend, kind)}
  <2>4. t \in GoodTask
    BY <2>1, TaskUpdates DEF NoEvent
  <2>5. tasks' = [tasks EXCEPT ![s] = t] /\ UNCHANGED nextId
    BY <1>3 DEF SteerReply, MainLoopVars, TypeInv
  <2>6. t.pend = NoEvent /\ t.buf = u.buf /\ t.batch = u.batch /\ t.phase = u.phase
    BY <2>1 DEF GoodTask, Task
  <2>7. /\ acks' = acks \cup A
        /\ \A a \in A : a.ch = u.batch.ch /\ a.id = u.pend
        /\ \A a, b \in A : a = b
        /\ \E a \in A : a.id = u.pend
    BY <1>3 DEF SteerReply, AckOf
  <2> HIDE DEF t, A
  <2>0. PICK open : open = {t.buf, t.pend} \ {NoEvent}
    OBVIOUS
  <2>8. open = OpenSteers(s) \ {u.pend} /\ u.pend \in OpenSteers(s) /\ t.batch.ch = u.batch.ch
    BY <2>0, <2>1, <2>2, <2>3, <2>6
  <2>9. /\ \A a \in A : a.ch = u.batch.ch /\ a.id \in OpenSteers(s) /\ a.id \notin open
        /\ \A i \in OpenSteers(s) : i \in open \/ \E a \in A : a.id = i
        /\ \A a, b \in A : a.id = b.id => a = b
    BY <2>7, <2>8
  <2>10. open \subseteq OpenSteers(s) /\ (t.buf # NoEvent => t.buf # t.pend) /\ t.phase = "running"
    BY <2>1, <2>6, <2>8
  <2>11. /\ tasks[s] \in GoodTask /\ t \in GoodTask /\ tasks' = [tasks EXCEPT ![s] = t]
         /\ t.batch.ch = tasks[s].batch.ch /\ acks' = acks \cup A /\ UNCHANGED nextId
         /\ \A a \in A : a.ch = tasks[s].batch.ch /\ a.id \in OpenSteers(s) /\ a.id \notin open
         /\ t.phase # "running" => t.buf = NoEvent /\ t.pend = NoEvent
    BY <2>1, <2>4, <2>5, <2>7, <2>8, <2>9, <2>10
  <2>12. Answering(s, t, A, open)
    BY <2>0, <2>9, <2>10, <2>11 DEF Answering
  <2> QED
    BY <2>12, SteersAnswered
<1>4. ASSUME u \in GoodTask, ReleaseSteers(s), UNCHANGED nextId, NEW t \in GoodTask,
             tasks' = [tasks EXCEPT ![s] = t],
             t.buf = NoEvent, t.pend = NoEvent, t.batch.ch = u.batch.ch
      PROVE  SteersOnce' /\ \A c, i : AskedFor(c, i)' <=> AskedFor(c, i)
  <2> DEFINE A == {AckOf(s, i, "release") : i \in OpenSteers(s)}
  <2>0. acks' = acks \cup A
    BY <1>4 DEF ReleaseSteers
  <2>1. \A i : AckOf(s, i, "release").ch = u.batch.ch /\ AckOf(s, i, "release").id = i
    BY DEF AckOf
  <2>2. \A a \in A : a.ch = u.batch.ch /\ a.id \in OpenSteers(s)
    BY <2>1
  <2>3. \A a, b \in A : a.id = b.id => a = b
    BY <2>1
  <2>4. \A i \in OpenSteers(s) : \E a \in A : a.id = i
    BY <2>1
  <2> HIDE DEF A
  <2>7. PICK open : open = {t.buf, t.pend} \ {NoEvent}
    OBVIOUS
  <2>5. open = {}
    BY <1>4, <2>7
  <2>6. /\ \A a \in A : a.ch = u.batch.ch /\ a.id \in OpenSteers(s) /\ a.id \notin open
        /\ \A i \in OpenSteers(s) : i \in open \/ \E a \in A : a.id = i
        /\ open \subseteq OpenSteers(s)
    BY <2>2, <2>4, <2>5
  <2>8. /\ tasks[s] \in GoodTask /\ t \in GoodTask /\ tasks' = [tasks EXCEPT ![s] = t]
        /\ t.batch.ch = tasks[s].batch.ch /\ UNCHANGED nextId
        /\ \A a \in A : a.ch = tasks[s].batch.ch /\ a.id \in OpenSteers(s) /\ a.id \notin open
        /\ t.buf # NoEvent => t.buf # t.pend
        /\ t.phase # "running" => t.buf = NoEvent /\ t.pend = NoEvent
    BY <1>4, <2>6
  <2>9. Answering(s, t, A, open)
    BY <2>0, <2>3, <2>6, <2>7, <2>8 DEF Answering
  <2> QED
    BY <2>9, SteersAnswered
<1>5. ASSUME NEW o \in Outcomes, TurnEnds(s, o) \/ TurnCancelled(s, o)
      PROVE  SteersOnce' /\ \A c, i : AskedFor(c, i)' <=> AskedFor(c, i)
  <2>1. u \in GoodTask /\ tasks' \in [Slots -> GoodTask \cup {NoTask}]
    <3>1. TypeInv'
      BY <1>5, TypeTask
    <3> QED
      BY <1>5, <3>1, PhaseIsTask DEF TypeInv, TurnEnds, TurnCancelled, Running
  <2>2. PICK v, r : Finish(s, o, v, r)
    BY <1>5 DEF TurnEnds, TurnCancelled
  <2> DEFINE t == [u EXCEPT !.phase = "done", !.outcome = o, !.returned = v,
                            !.batch.reason = r, !.buf = NoEvent, !.pend = NoEvent]
  <2>3. tasks' = [tasks EXCEPT ![s] = t] /\ ReleaseSteers(s) /\ UNCHANGED nextId
    BY <2>2 DEF Finish, TypeInv, MainLoopVars
  <2>4. t.buf = NoEvent /\ t.pend = NoEvent /\ t.batch.ch = u.batch.ch /\ t # NoTask
    BY <2>1 DEF GoodTask, Task, NoTask
  <2> HIDE DEF t
  <2>5. t \in GoodTask
    BY <2>1, <2>3, <2>4 DEF TypeInv
  <2> QED
    BY <1>4, <2>1, <2>3, <2>4, <2>5
<1>6. CASE TaskPanics(s)
  <2> DEFINE t == [u EXCEPT !.phase = "panicked", !.buf = NoEvent, !.pend = NoEvent]
  <2>1. u \in GoodTask /\ tasks' \in [Slots -> GoodTask \cup {NoTask}]
    <3>1. TypeInv'
      BY <1>6, TypeTask
    <3> QED
      BY <1>6, <3>1, PhaseIsTask DEF TypeInv, TaskPanics, Running
  <2>2. tasks' = [tasks EXCEPT ![s] = t] /\ ReleaseSteers(s) /\ UNCHANGED nextId
    BY <1>6 DEF TaskPanics, TypeInv, MainLoopVars
  <2>3. t.buf = NoEvent /\ t.pend = NoEvent /\ t.batch.ch = u.batch.ch /\ t # NoTask
    BY <2>1 DEF GoodTask, Task, NoTask
  <2> HIDE DEF t
  <2>4. t \in GoodTask
    BY <2>1, <2>2, <2>3 DEF TypeInv
  <2> QED
    BY <1>4, <2>1, <2>2, <2>3, <2>4
<1> QED
  BY <1>1, <1>2, <1>3, <1>5, <1>6 DEF TaskStep
\* Other steps leave the requests where they are; tasks that come or go have none.
LEMMA SteersLeftCases ==
  ASSUME TypeInv, SlotInv, SteersOnce, [Next]_vars
  PROVE  \/ SteersLeft /\ UNCHANGED acks /\ nextId' \in {nextId, nextId + 1}
         \/ \E s \in Slots : TaskStep(s)
         \/ \E a \in acks : HandleAck(a)
         \/ \E c \in Channels, at \in 1 .. MaxCreated : RelayEvent(c, at) /\ PushAccepted(q, c)
<1> DEFINE Left == SteersLeft /\ UNCHANGED acks /\ nextId' \in {nextId, nextId + 1}
<1>1. UNCHANGED tasks => SteersLeft
  BY DEF SteersLeft, TypeInv
<1>2. CASE \/ NoMaintenance \/ CollectRespawns \/ DrainDone \/ PeriodicTick \/ Shutdown \/ UNCHANGED vars
           \/ Clock \/ Maintenance
           \/ \E c \in Channels : MemberAdded(c) \/ MemberRemoved(c)
           \/ \E c \in Channels, at \in 1 .. MaxCreated : RelayEvent(c, at) /\ ~PushAccepted(q, c)
  <2>1. UNCHANGED <<tasks, acks>> /\ nextId' \in {nextId, nextId + 1}
    BY <1>2 DEF NoMaintenance, CollectRespawns, DrainDone, PeriodicTick, Shutdown, vars, Clock,
                ThrottleElapses, DeadlinePasses, CrashesAge, CooldownElapses, MemberAdded,
                MemberRemoved, RelayEvent, Maintenance
  <2> QED
    BY <1>1, <2>1
<1>3. ASSUME NEW c \in Channels, CancelTurn(c) \/ Rotate(c) \/ SwitchModel(c) PROVE Left
  <2>1. UNCHANGED <<acks, nextId>> /\ (UNCHANGED tasks \/ \E sig : tasks' \in Signalled(c, sig))
    BY <1>3 DEF CancelTurn, Rotate, SwitchModel
  <2>2. SteersLeft
    BY <1>1, <2>1, SignalledSteers
  <2> QED
    BY <2>1, <2>2
<1>4. ASSUME NEW s \in Slots, HandleResult(s) \/ HandlePanic(s) PROVE Left
  <2>1. /\ tasks[s].phase \in {"done", "panicked"} /\ tasks' = [tasks EXCEPT ![s] = NoTask]
        /\ UNCHANGED <<acks, nextId>>
    BY <1>4, EndedEvents
  <2> QED
    BY <2>1, SlotSteers
<1>5. ASSUME NEW s \in Idle, NEW b, NEW ctl, tasks' = [tasks EXCEPT ![s] = NewTask(b, ctl)]
      PROVE  SteersLeft
  <2> DEFINE t == NewTask(b, ctl)
  <2>1. t.buf = NoEvent /\ t.pend = NoEvent /\ tasks' = [tasks EXCEPT ![s] = t]
    BY <1>5 DEF NewTask
  <2>2. s \in Slots /\ tasks[s] = NoTask
    BY DEF Idle, SlotInv, SlotExclusive
  <2> HIDE DEF t
  <2> QED
    BY <2>1, <2>2, SlotSteers
<1>6. CASE HeartbeatTick \/ DispatchStep
  <2>1. UNCHANGED <<acks, nextId>>
    BY <1>6 DEF HeartbeatTick, DispatchStep
  <2>2. Idle # {} => FirstOf(Idle) \in Idle /\ \A r \in FlushNext(q) : Claim(r.batch.ch) \in Idle
    BY FirstOfMember, ClaimIdle DEF Idle
  <2>3. \/ UNCHANGED tasks
        \/ \E s \in Idle : \E b, ctl : tasks' = [tasks EXCEPT ![s] = NewTask(b, ctl)]
    <3>1. CASE HeartbeatTick
      BY <2>2, <3>1 DEF HeartbeatTick
    <3>2. CASE DispatchStep
      <4>1. UNCHANGED tasks \/ \E r \in FlushNext(q) :
              Idle # {} /\ tasks' = [tasks EXCEPT ![Claim(r.batch.ch)] = NewTask(r.batch, "open")]
        BY <3>2 DEF DispatchStep
      <4> QED
        BY <2>2, <4>1
    <3> QED
      BY <1>6, <3>1, <3>2
  <2> QED
    BY <1>1, <1>5, <2>1, <2>3
<1>7. CASE MainLoop
  BY <1>2, <1>4, <1>6, <1>7 DEF MainLoop
<1>8. CASE Inputs
  BY <1>2, <1>3, <1>6, <1>8 DEF Inputs
<1> QED
  BY <1>2, <1>7, <1>8 DEF Next

\* Only an accepted event and an ack bring new requests or take one's answer away.
LEMMA AskedCases ==
  ASSUME TypeInv, SlotInv, SteersOnce, [Next]_vars
  PROVE  \/ SteersOnce' /\ \A c, i : AskedFor(c, i)' <=> AskedFor(c, i)
         \/ \E a \in acks : HandleAck(a)
         \/ \E c \in Channels, at \in 1 .. MaxCreated : RelayEvent(c, at) /\ PushAccepted(q, c)
<1>1. /\ nextId \in Nat /\ acks \subseteq AckType /\ tasks \in [Slots -> GoodTask \cup {NoTask}]
  BY HarnessAssumption DEF TypeInv, TypeOK, AckType
<1>2. CASE SteersLeft /\ UNCHANGED acks /\ nextId' \in {nextId, nextId + 1}
  <2>1. nextId' \in Nat /\ nextId <= nextId'
    BY <1>1, <1>2
  <2> QED
    BY <1>1, <1>2, <2>1, SteersSame
<1> QED
  BY <1>2, SteersLeftCases, SteersTask

\* No other step adds to what is withheld.
LEMMA WithheldCases ==
  ASSUME TypeInv, [Next]_vars
  PROVE  \/ \A d \in Channels : q'.withheld[d] = q.withheld[d] \/ q'.withheld[d] = <<>>
         \/ \E a \in acks : HandleAck(a)
         \/ \E c \in Channels, at \in 1 .. MaxCreated : RelayEvent(c, at) /\ PushAccepted(q, c)
<1> DEFINE Shrinks == \A d \in Channels : q'.withheld[d] = q.withheld[d] \/ q'.withheld[d] = <<>>
<1>1. CASE Maintenance \/ HeartbeatTick
  BY <1>1, ExpiryEvents
<1>2. CASE DispatchStep
  <2>1. CASE \E r \in FlushNext(q) : q' = r.q /\ fate' = Settle(fate, ExpiryTrims(q), "dropped")
    BY <2>1, DispatchedEvents
  <2>2. CASE \/ /\ q' = ExpireInFlight(q) /\ fate' = Settle(fate, ExpiryTrims(q), "dropped")
             \/ \E r \in FlushNext(q) :
                  /\ q' = MarkComplete(RequeuePreserve(r.q, r.batch), r.batch.ch)
                  /\ fate' = Settle(fate, ExpiryTrims(q) \cup RequeueTrims(r.q, r.batch), "dropped")
    <3>1. \E T, L : Shrinks
      BY <2>2, BouncedEvents
    <3> QED
      BY <3>1
  <2> QED
    BY <1>2, <2>1, <2>2 DEF DispatchStep
<1>3. CASE \E c \in Channels : MemberRemoved(c)
  BY <1>3, DrainedEvents
<1>4. CASE \E s \in Slots : HandleResult(s) \/ HandlePanic(s)
  BY <1>4, EndedEvents
<1>5. CASE SameStores(q, q')
  BY <1>5 DEF SameStores
<1> QED
  BY <1>1, <1>2, <1>3, <1>4, <1>5, EventCases

\* A relay event is accepted; its steer request may have gone out.
LEMMA SteerPushed ==
  ASSUME TypeInv, SteerInv, NEW c \in Channels, NEW at \in 1 .. MaxCreated,
         RelayEvent(c, at), PushAccepted(q, c)
  PROVE  SteerInv'
<1>1. UNCHANGED acks /\ nextId' = nextId + 1 /\ nextId \in Nat \ {0}
  BY HarnessAssumption DEF RelayEvent, TypeInv, TypeOK
<1>2. CASE SteersLeft /\ \A d \in Channels : q'.withheld[d] = q.withheld[d]
  <2>1. /\ nextId' \in Nat /\ nextId <= nextId' /\ acks \subseteq AckType
        /\ tasks \in [Slots -> GoodTask \cup {NoTask}]
    BY <1>1 DEF TypeInv, TypeOK, AckType
  <2>2. SteersOnce' /\ \A d, i : AskedFor(d, i)' <=> AskedFor(d, i)
    BY <1>1, <1>2, <2>1, SteersSame DEF SteerInv
  <2> QED
    BY <1>2, <2>2, WithheldShrinks DEF SteerInv
<1>3. ASSUME NEW s \in TasksOn(c), tasks[s].phase = "running", tasks[s].buf = NoEvent,
             tasks' = [tasks EXCEPT ![s] = [tasks[s] EXCEPT !.buf = nextId]],
             \A d \in Channels \ {c} : q'.withheld[d] = q.withheld[d],
             Ids(q'.withheld[c]) = Ids(q.withheld[c]) \cup {nextId},
             Distinct(q.withheld[c]) /\ nextId \notin Ids(q.withheld[c]) => Distinct(q'.withheld[c])
      PROVE  SteerInv'
  <2> DEFINE t == [tasks[s] EXCEPT !.buf = nextId]
  <2>1. s \in Slots /\ tasks[s] \in GoodTask /\ tasks[s].batch.ch = c /\ tasks[s] # NoTask /\ s \in TaskSlots
    BY PhaseIsTask, GoodTaskFacts DEF TasksOn, TaskSlots
  <2>2. /\ t.buf = nextId /\ t.pend = tasks[s].pend /\ t.batch = tasks[s].batch
        /\ t.phase = "running" /\ t # NoTask /\ tasks[s].pend \in Nat
    BY <1>3, <2>1 DEF GoodTask, Task, NoTask
  <2>3. \A u \in Slots : tasks'[u] = IF u = s THEN t ELSE tasks[u]
    BY <1>3, <2>1 DEF TypeInv
  <2> HIDE DEF t
  <2>4. nextId # NoEvent /\ OpenSteers(s) = {tasks[s].pend} \ {NoEvent}
    BY <1>1, <1>3 DEF OpenSteers, NoEvent
  <2>5. /\ TaskSlots' = TaskSlots /\ TaskSlots \subseteq Slots
        /\ OpenSteers(s)' = OpenSteers(s) \cup {nextId}
        /\ \A u \in TaskSlots : u # s => OpenSteers(u)' = OpenSteers(u)
    BY <2>1, <2>2, <2>3, <2>4 DEF TaskSlots, OpenSteers
  <2>6. \A d : TasksOn(d)' = TasksOn(d)
    BY <2>1, <2>2, <2>3, <2>5 DEF TasksOn
  <2>7. /\ \A u \in TaskSlots : \A i \in OpenSteers(u) : i \in Nat /\ i < nextId /\ \A a \in acks : a.id # i
        /\ \A a \in acks : a.id \in Nat /\ a.id < nextId
    <3>1. \A u \in TaskSlots : tasks[u] \in GoodTask
      BY DEF TaskSlots, TypeInv
    <3> QED
      BY <3>1 DEF SteerInv, SteersOnce, OpenSteers, GoodTask, Task, TypeInv, TypeOK
  <2>8. /\ \A u \in TaskSlots : nextId \notin OpenSteers(u)
        /\ \A a \in acks : a.id # nextId
    BY <1>1, <2>7
  <2>9. \A d, i : AskedFor(d, i)' <=> AskedFor(d, i) \/ (d = c /\ i = nextId)
    <3>0. s \in TasksOn(c) /\ \A d : TasksOn(d) \subseteq TaskSlots /\ (s \in TasksOn(d) => d = c)
      BY <2>1 DEF TasksOn
    <3> QED
      BY <1>1, <2>5, <2>6, <3>0 DEF AskedFor
  <2>10. \A u \in TaskSlots' : \A i \in OpenSteers(u)' :
           /\ i < nextId' /\ \A a \in acks' : a.id # i
           /\ \A w \in TaskSlots' : w # u => i \notin OpenSteers(w)'
    <3> SUFFICES ASSUME NEW u \in TaskSlots, NEW i \in OpenSteers(u)'
                 PROVE  /\ i < nextId' /\ \A a \in acks' : a.id # i
                        /\ \A w \in TaskSlots : w # u => i \notin OpenSteers(w)'
      BY <2>5
    <3>1. CASE i = nextId
      <4>1. u = s
        BY <2>5, <2>8, <3>1
      <4> QED
        BY <1>1, <2>5, <2>8, <3>1, <4>1
    <3>2. CASE i # nextId
      <4>1. i \in OpenSteers(u)
        BY <2>5, <3>2
      <4>2. \A w \in TaskSlots : w # u => i \notin OpenSteers(w)
        BY <4>1 DEF SteerInv, SteersOnce
      <4>3. i \in Nat /\ i < nextId /\ \A a \in acks : a.id # i
        BY <2>7, <4>1
      <4>4. i < nextId'
        BY <1>1, <4>3
      <4> QED
        BY <1>1, <2>5, <3>2, <4>2, <4>3, <4>4
    <3> QED
      BY <3>1, <3>2
  <2>11. \A u \in TaskSlots' :
           /\ tasks'[u].buf # NoEvent => tasks'[u].buf # tasks'[u].pend
           /\ tasks'[u].phase # "running" => tasks'[u].buf = NoEvent /\ tasks'[u].pend = NoEvent
    <3>1. nextId # tasks[s].pend
      BY <2>1, <2>4, <2>8
    <3> QED
      BY <2>2, <2>3, <2>5, <3>1 DEF SteerInv, SteersOnce
  <2>12. (\A a, b \in acks' : a.id = b.id => a = b) /\ \A a \in acks' : a.id < nextId'
    BY <1>1, <2>7 DEF SteerInv, SteersOnce
  <2>13. SteersOnce'
    BY <2>10, <2>11, <2>12 DEF SteersOnce
  <2>14. nextId \notin Ids(q.withheld[c])
    BY <2>8 DEF SteerInv, WithheldInv, AskedFor, TasksOn
  <2>15. \A d \in Channels : Distinct(q'.withheld[d]) /\ \A i \in Ids(q'.withheld[d]) : AskedFor(d, i)'
    BY <1>3, <2>9, <2>14 DEF SteerInv, WithheldInv
  <2> QED
    BY <2>13, <2>15 DEF SteerInv, WithheldInv
<1> QED
  BY <1>2, <1>3, PushedEvents

\* An ack is received: the event it is about leaves the withheld ones.
LEMMA SteerAck ==
  ASSUME TypeInv, SteerInv, NEW a \in acks, HandleAck(a)
  PROVE  SteerInv'
<1>1. /\ a.ch \in Channels /\ acks' = acks \ {a} /\ SteersLeft
      /\ \A d \in Channels : d # a.ch => q'.withheld[d] = q.withheld[d]
      /\ Distinct(q.withheld[a.ch]) => /\ Distinct(q'.withheld[a.ch])
                                       /\ Ids(q'.withheld[a.ch]) = Ids(q.withheld[a.ch]) \ {a.id}
  BY AnsweredEvents
<1>2. UNCHANGED nextId
  BY DEF HandleAck
<1>3. \A s \in Slots : (s \in TaskSlots /\ OpenSteers(s) # {}) \/ (s \in TaskSlots' /\ OpenSteers(s)' # {}) =>
        /\ s \in TaskSlots /\ s \in TaskSlots' /\ OpenSteers(s)' = OpenSteers(s)
        /\ tasks'[s].batch.ch = tasks[s].batch.ch
  BY <1>1 DEF SteersLeft, TaskSlots, OpenSteers
<1>4. TaskSlots \subseteq Slots /\ TaskSlots' \subseteq Slots
  BY DEF TaskSlots
<1>5. ASSUME NEW c, NEW i, AskedFor(c, i), ~(c = a.ch /\ i = a.id)
      PROVE  AskedFor(c, i)'
  BY <1>1, <1>3, <1>4, <1>5 DEF AskedFor, TasksOn
<1>6. \A s \in TaskSlots' : \A i \in OpenSteers(s)' :
        /\ i < nextId' /\ \A b \in acks' : b.id # i
        /\ \A t \in TaskSlots' : t # s => i \notin OpenSteers(t)'
  BY <1>1, <1>2, <1>3, <1>4 DEF SteerInv, SteersOnce
<1>7. \A s \in TaskSlots' :
        /\ tasks'[s].buf # NoEvent => tasks'[s].buf # tasks'[s].pend
        /\ tasks'[s].phase # "running" => tasks'[s].buf = NoEvent /\ tasks'[s].pend = NoEvent
  BY <1>1 DEF SteersLeft, SteerInv, SteersOnce, TaskSlots
<1>8. SteersOnce'
  BY <1>1, <1>2, <1>6, <1>7 DEF SteerInv, SteersOnce
<1>9. ASSUME NEW c \in Channels
      PROVE  Distinct(q'.withheld[c]) /\ \A i \in Ids(q'.withheld[c]) : AskedFor(c, i)'
  <2>1. Distinct(q.withheld[c]) /\ \A i \in Ids(q.withheld[c]) : AskedFor(c, i)
    BY DEF SteerInv, WithheldInv
  <2>2. CASE c = a.ch
    BY <1>1, <1>5, <2>1, <2>2
  <2>3. CASE c # a.ch
    BY <1>1, <1>5, <2>1, <2>3
  <2> QED
    BY <2>2, <2>3
<1> QED
  BY <1>8, <1>9 DEF SteerInv, WithheldInv

\* The requests, the acks and what is withheld stay in step.
LEMMA SteerNext == TypeInv /\ SlotInv /\ SteerInv /\ [Next]_vars => SteerInv'
<1> SUFFICES ASSUME TypeInv, SlotInv, SteerInv, [Next]_vars PROVE SteerInv'
  OBVIOUS
<1>1. CASE /\ SteersOnce' /\ \A c, i : AskedFor(c, i)' <=> AskedFor(c, i)
           /\ \A d \in Channels : q'.withheld[d] = q.withheld[d] \/ q'.withheld[d] = <<>>
  BY <1>1, WithheldShrinks DEF SteerInv
<1> QED
  BY <1>1, AskedCases, WithheldCases, SteerAck, SteerPushed DEF SteerInv

\* At the start nobody asks and nothing is withheld.
LEMMA SteerInit == Init => SteerInv
<1> SUFFICES ASSUME Init PROVE SteerInv
  OBVIOUS
<1>1. TaskSlots = {} /\ acks = {}
  BY DEF Init, TaskSlots
<1>2. \A c \in Channels : q.withheld[c] = <<>>
  BY DEF Init, NewQueue
<1>3. Distinct(<<>>)
  BY DEF Distinct
<1> QED
  BY <1>1, <1>2, <1>3, EmptyIds DEF SteerInv, SteersOnce, WithheldInv

-----------------------------------------------------------------------------
(* One copy of an event, and none once it is gone *)

\* No store and no batch has an event twice, and no two of them share one.
PlacedInv ==
  /\ Once(q)
  /\ \A s \in TaskSlots : OnceBatch(tasks[s].batch)
  /\ \A s \in Slots : \A i \in BatchOf(s) : i \notin Held(q) /\ \A t \in Slots \ {s} : i \notin BatchOf(t)

\* The event i is in a store or in a batch.
Somewhere(i) == i \in Held(q) \/ \E s \in Slots : i \in BatchOf(s)

\* Such an event was pushed.
KnownInv == \A i : Somewhere(i) => i \in EventIds /\ i < nextId

PlaceInv == PlacedInv /\ KnownInv

\* The event i arrives in this step.
Arrives(i) == i = nextId /\ nextId \in EventIds /\ nextId' = nextId + 1

\* No other event appears that was not there.
NoneBack == \A i : Somewhere(i)' => Somewhere(i) \/ Arrives(i)

\* What a step must do.
LEMMA PlaceStep ==
  ASSUME PlaceInv, Once(q'), nextId \in Nat, nextId' \in Nat, nextId <= nextId',
         \A s \in Slots : tasks'[s] # NoTask => OnceBatch(tasks'[s].batch),
         \A s \in Slots : \A i \in BatchOf(s)' :
           i \notin Held(q') /\ \A t \in Slots \ {s} : i \notin BatchOf(t)',
         \A i \in Held(q') : Somewhere(i) \/ Arrives(i),
         \A s \in Slots : \A i \in BatchOf(s)' : Somewhere(i)
  PROVE  PlaceInv' /\ NoneBack
<1>1. Held(q)' = Held(q')
  BY DEF Held, ChannelIds
<1>2. Once(q)' = Once(q')
  BY DEF Once, OnceIn, ChannelIds
<1>3. \A s \in TaskSlots' : OnceBatch(tasks'[s].batch)
  BY DEF TaskSlots
<1>4. PlacedInv'
  <2>1. (\A s \in TaskSlots : OnceBatch(tasks[s].batch))'
    BY <1>3 DEF OnceBatch
  <2> QED
    BY <1>1, <1>2, <2>1 DEF PlacedInv
<1>5. NoneBack
  BY <1>1 DEF NoneBack, Somewhere
<1>6. \A i : Somewhere(i) \/ Arrives(i) => i \in EventIds /\ i < nextId'
  <2>1. \A i \in EventIds : i < nextId => i < nextId'
    BY DEF EventIds
  <2>2. \A i : Arrives(i) => i \in EventIds /\ i < nextId'
    BY DEF Arrives
  <2> QED
    BY <2>1, <2>2 DEF PlaceInv, KnownInv
<1>7. KnownInv'
  BY <1>5, <1>6 DEF NoneBack, KnownInv
<1> QED
  BY <1>4, <1>5, <1>7 DEF PlaceInv

\* A step that keeps the tasks, and brings at most the event that arrives.
LEMMA PlaceKept ==
  ASSUME PlaceInv, TasksKept, Once(q'), nextId' \in {nextId, nextId + 1}, nextId \in Nat,
         \A i \in Held(q') : i \in Held(q) \/ Arrives(i)
  PROVE  PlaceInv' /\ NoneBack
<1>1. \A s \in Slots : BatchOf(s)' = BatchOf(s)
  BY BatchesKept
<1>2. \A s \in Slots : tasks'[s] # NoTask => OnceBatch(tasks'[s].batch)
  BY DEF PlaceInv, PlacedInv, TaskSlots, TasksKept, OnceBatch
<1>3. \A s \in Slots : \A i \in BatchOf(s) : ~Arrives(i)
  <2>1. \A s \in Slots : \A i \in BatchOf(s) : i \in EventIds /\ i < nextId
    BY DEF PlaceInv, KnownInv, Somewhere
  <2>2. \A i \in EventIds : i < nextId => i # nextId
    BY DEF EventIds
  <2> QED
    BY <2>1, <2>2 DEF Arrives
<1>4. \A s \in Slots : \A i \in BatchOf(s)' :
        i \notin Held(q') /\ \A t \in Slots \ {s} : i \notin BatchOf(t)'
  BY <1>1, <1>3 DEF PlaceInv, PlacedInv
<1>5. \A i \in Held(q') : Somewhere(i) \/ Arrives(i)
  BY DEF Somewhere
<1>6. \A s \in Slots : \A i \in BatchOf(s)' : Somewhere(i)
  BY <1>1 DEF Somewhere
<1>7. nextId' \in Nat /\ nextId <= nextId'
  OBVIOUS
<1> QED
  BY <1>2, <1>4, <1>5, <1>6, <1>7, PlaceStep

\* A step that hands events of the stores to an idle agent.
LEMMA PlaceTaken ==
  ASSUME TypeInv, SlotInv, PlaceInv, NEW s \in Idle, NEW t \in GoodTask,
         tasks' = [tasks EXCEPT ![s] = t], UNCHANGED nextId, nextId \in Nat,
         Once(q'), OnceBatch(t.batch), BatchIds(t.batch) \cap Held(q') = {},
         \A i \in Held(q') : i \in Held(q), \A i \in BatchIds(t.batch) : i \in Held(q)
  PROVE  PlaceInv' /\ NoneBack
<1>1. s \in Slots /\ tasks[s] = NoTask /\ t # NoTask
  BY GoodTaskFacts DEF Idle, SlotInv, SlotExclusive
<1>2. \A u \in Slots : tasks'[u] = IF u = s THEN t ELSE tasks[u]
  BY <1>1 DEF TypeInv
<1>3. /\ BatchOf(s) = {} /\ BatchOf(s)' = BatchIds(t.batch)
      /\ \A u \in Slots \ {s} : BatchOf(u)' = BatchOf(u)
  BY <1>1, <1>2 DEF BatchOf, BatchIds
<1>4. \A u \in Slots : tasks'[u] # NoTask => OnceBatch(tasks'[u].batch)
  BY <1>2 DEF PlaceInv, PlacedInv, TaskSlots
<1>5. \A u \in Slots : \A i \in BatchOf(u)' :
        i \notin Held(q') /\ \A w \in Slots \ {u} : i \notin BatchOf(w)'
  <2>1. \A u \in Slots \ {s} : \A i \in BatchOf(u) :
          i \notin Held(q) /\ \A w \in Slots \ {u} : i \notin BatchOf(w)
    BY DEF PlaceInv, PlacedInv
  <2> QED
    BY <1>1, <1>3, <2>1
<1>6. \A i \in Held(q') : Somewhere(i) \/ Arrives(i)
  BY DEF Somewhere
<1>7. \A u \in Slots : \A i \in BatchOf(u)' : Somewhere(i)
  BY <1>3 DEF Somewhere
<1>8. nextId' \in Nat /\ nextId <= nextId'
  OBVIOUS
<1> QED
  BY <1>4, <1>5, <1>6, <1>7, <1>8, PlaceStep

\* A step that ends a task: what goes back was its own.
LEMMA PlaceEnded ==
  ASSUME TypeInv, PlaceInv, NEW s \in Slots, HandleResult(s) \/ HandlePanic(s)
  PROVE  PlaceInv' /\ NoneBack
<1> DEFINE b == tasks[s].batch
<1>1. /\ tasks[s] \in GoodTask /\ tasks' = [tasks EXCEPT ![s] = NoTask] /\ UNCHANGED nextId
      /\ Once(q) /\ OnceBatch(b) /\ BatchIds(b) \cap Held(q) = {} => Once(q')
      /\ \A i \in Held(q') : i \in Held(q) \/ i \in BatchIds(b)
  BY EndedEvents
<1>2. tasks[s] # NoTask /\ BatchOf(s) = BatchIds(b)
  BY <1>1, GoodTaskFacts DEF BatchOf
<1>3. \A u \in Slots : tasks'[u] = IF u = s THEN NoTask ELSE tasks[u]
  BY <1>1 DEF TypeInv
<1>4. BatchOf(s)' = {} /\ \A u \in Slots \ {s} : BatchOf(u)' = BatchOf(u)
  BY <1>3 DEF BatchOf, BatchIds
<1>5. OnceBatch(b) /\ BatchIds(b) \cap Held(q) = {} /\ Once(q)
  BY <1>2 DEF PlaceInv, PlacedInv, TaskSlots
<1>6. \A u \in Slots : tasks'[u] # NoTask => OnceBatch(tasks'[u].batch)
  BY <1>3 DEF PlaceInv, PlacedInv, TaskSlots
<1> HIDE DEF b
<1>7. \A u \in Slots : \A i \in BatchOf(u)' :
         i \notin Held(q') /\ \A w \in Slots \ {u} : i \notin BatchOf(w)'
  <2>1. \A u \in Slots \ {s} : \A i \in BatchOf(u) :
          i \notin Held(q) /\ i \notin BatchOf(s) /\ \A w \in Slots \ {u} : i \notin BatchOf(w)
    BY DEF PlaceInv, PlacedInv
  <2> QED
    BY <1>1, <1>2, <1>4, <2>1
<1>8. \A i \in Held(q') : Somewhere(i) \/ Arrives(i)
  BY <1>1, <1>2 DEF Somewhere
<1>9. \A u \in Slots : \A i \in BatchOf(u)' : Somewhere(i)
  BY <1>4 DEF Somewhere
<1>10. nextId \in Nat /\ nextId' \in Nat /\ nextId <= nextId'
  BY <1>1, HarnessAssumption DEF TypeInv, TypeOK
<1> QED
  BY <1>1, <1>5, <1>6, <1>7, <1>8, <1>9, <1>10, PlaceStep

\* dispatch_pending, also when it gives up turns whose deadline has passed.
LEMMA PlaceDispatch ==
  ASSUME TypeInv, SlotInv, PlaceInv, DispatchStep
  PROVE  PlaceInv' /\ NoneBack
<1> DEFINE x == ExpireInFlight(q)
<1>1. UNCHANGED nextId /\ nextId \in Nat /\ q \in BoundedQueue /\ Once(q)
  BY HarnessAssumption DEF DispatchStep, TypeInv, TypeOK, PlaceInv, PlacedInv
<1>2. Once(x) /\ \A i \in Held(x) : i \in Held(q)
  <2>1. Once(x) /\ \A d \in Channels : ChannelIds(x, d) \subseteq ChannelIds(q, d)
    BY <1>1, ExpireOnce
  <2> QED
    BY <2>1 DEF Held
<1>3. ASSUME NEW r \in FlushNext(q)
      PROVE  /\ r.q \in BoundedQueue /\ r.batch \in Batch /\ r.batch.ch \in Channels
             /\ Held(x) = Held(r.q) \cup BatchIds(r.batch)
             /\ Once(r.q) /\ OnceBatch(r.batch) /\ BatchIds(r.batch) \cap Held(r.q) = {}
  <2>1. /\ Held(x) = Held(r.q) \cup BatchIds(r.batch)
        /\ Once(x) => Once(r.q) /\ OnceBatch(r.batch) /\ BatchIds(r.batch) \cap Held(r.q) = {}
    BY <1>1, FlushHeld
  <2>2. r.q \in BoundedQueue /\ r.batch \in Batch
    BY <1>1, FlushBounded
  <2> QED
    BY <1>2, <2>1, <2>2 DEF Batch
<1> HIDE DEF x
<1>4. ASSUME NEW r \in FlushNext(q), Idle # {}, q' = r.q,
             tasks' = [tasks EXCEPT ![Claim(r.batch.ch)] = NewTask(r.batch, "open")]
      PROVE  PlaceInv' /\ NoneBack
  <2> DEFINE t == NewTask(r.batch, "open")
             s == Claim(r.batch.ch)
  <2>1. t \in GoodTask /\ t.batch = r.batch
    BY <1>3, NewTaskGood DEF NewTask
  <2>2. s \in Idle
    BY <1>4, ClaimIdle
  <2>3. tasks' = [tasks EXCEPT ![s] = t]
    BY <1>4
  <2> HIDE DEF t, s
  <2>4. /\ Once(q') /\ OnceBatch(t.batch) /\ BatchIds(t.batch) \cap Held(q') = {}
        /\ \A i \in Held(q') : i \in Held(q)
        /\ \A i \in BatchIds(t.batch) : i \in Held(q)
    BY <1>2, <1>3, <1>4, <2>1
  <2> QED
    BY <1>1, <2>1, <2>2, <2>3, <2>4, PlaceTaken
<1>5. ASSUME UNCHANGED tasks, q' = x
      PROVE  PlaceInv' /\ NoneBack
  <2>1. TasksKept
    BY <1>5 DEF TasksKept
  <2>2. Once(q') /\ \A i \in Held(q') : i \in Held(q)
    BY <1>2, <1>5
  <2> QED
    BY <1>1, <2>1, <2>2, PlaceKept
<1>6. ASSUME UNCHANGED tasks, NEW r \in FlushNext(q),
             q' = MarkComplete(RequeuePreserve(r.q, r.batch), r.batch.ch)
      PROVE  PlaceInv' /\ NoneBack
  <2> DEFINE b == r.batch
             y == RequeuePreserve(r.q, b)
  <2>1. /\ r.q \in BoundedQueue /\ b \in Batch /\ b.ch \in Channels
        /\ Held(x) = Held(r.q) \cup BatchIds(b)
        /\ Once(r.q) /\ OnceBatch(b) /\ BatchIds(b) \cap Held(r.q) = {}
    BY <1>3
  <2>2. /\ \A i \in Held(y) : i \in Held(r.q) \/ i \in Ids(b.events)
        /\ Once(r.q) /\ Distinct(b.events) /\ Ids(b.events) \cap Held(r.q) = {} => Once(y)
    BY <2>1, RequeueHeld
  <2>3. y \in BoundedQueue
    BY <2>1, RequeueBounded
  <2>4. SameStores(y, q')
    BY <1>6, <2>1, <2>3, StoresKept
  <2> HIDE DEF b, y
  <2>5. Ids(b.events) \subseteq BatchIds(b) /\ Distinct(b.events)
    BY <2>1 DEF BatchIds, OnceBatch
  <2>6. Once(y) /\ \A i \in Held(y) : i \in Held(q)
    BY <1>2, <2>1, <2>2, <2>5
  <2>7. Once(q') /\ \A i \in Held(q') : i \in Held(q)
    BY <2>4, <2>6, SameHeld
  <2>8. TasksKept
    BY <1>6 DEF TasksKept
  <2> QED
    BY <1>1, <2>7, <2>8, PlaceKept
<1> QED
  BY <1>4, <1>5, <1>6 DEF DispatchStep, x

\* Maintenance and the heartbeat tick.
LEMMA PlaceExpiry ==
  ASSUME TypeInv, SlotInv, PlaceInv, Maintenance \/ HeartbeatTick
  PROVE  PlaceInv' /\ NoneBack
<1>1. PICK a \in {q, CompactExpiredState(q)} : q' = ExpireInFlight(a)
  BY DEF Maintenance, HeartbeatTick
<1>2. q \in BoundedQueue /\ a \in BoundedQueue
  BY <1>1, CompactBounded DEF TypeInv
<1>3. SameStores(q, a)
  <2>1. CASE a = q
    BY <2>1 DEF SameStores
  <2>2. CASE a = CompactExpiredState(q)
    BY <1>2, <2>2 DEF CompactExpiredState, BoundedQueue, SameStores
  <2> QED
    BY <1>1, <2>1, <2>2
<1>4. Held(a) = Held(q) /\ Once(a)
  BY <1>3, SameHeld DEF PlaceInv, PlacedInv
<1>5. Once(q') /\ \A d \in Channels : ChannelIds(q', d) \subseteq ChannelIds(a, d)
  BY <1>1, <1>2, <1>4, ExpireOnce
<1>6. \A i \in Held(q') : i \in Held(q)
  <2>1. \A i \in Held(q') : i \in Held(a)
    BY <1>5 DEF Held
  <2> QED
    BY <1>4, <2>1
<1>7. UNCHANGED nextId /\ nextId \in Nat
  BY HarnessAssumption DEF Maintenance, HeartbeatTick, TypeInv, TypeOK
<1>8. CASE UNCHANGED tasks
  <2>1. TasksKept
    BY <1>8 DEF TasksKept
  <2> QED
    BY <1>5, <1>6, <1>7, <2>1, PlaceKept
<1>9. CASE ~UNCHANGED tasks
  <2> DEFINE b == [ch |-> Heartbeat, events |-> <<>>, cancelled |-> <<>>, reason |-> "none"]
             t == NewTask(b, "none")
             s == FirstOf(Idle)
  <2>1. t \in GoodTask /\ t.batch = b
    BY HeartbeatTaskGood DEF NewTask
  <2>2. Idle # {} /\ tasks' = [tasks EXCEPT ![s] = t]
    BY <1>9 DEF Maintenance, HeartbeatTick
  <2>3. s \in Idle
    BY <2>2, FirstOfMember DEF Idle
  <2>4. BatchIds(t.batch) = {} /\ OnceBatch(t.batch)
    BY <2>1, EmptyIds DEF BatchIds, OnceBatch, Distinct
  <2> HIDE DEF t, s
  <2> QED
    BY <1>5, <1>6, <1>7, <2>1, <2>2, <2>3, <2>4, PlaceTaken
<1> QED
  BY <1>8, <1>9

\* A relay event, a removal and a steer ack.
LEMMA PlaceInputs ==
  ASSUME TypeInv, PlaceInv,
         \/ \E c \in Channels, at \in 1 .. MaxCreated : RelayEvent(c, at) /\ PushAccepted(q, c)
         \/ \E c \in Channels : MemberRemoved(c)
         \/ \E a \in acks : HandleAck(a)
  PROVE  PlaceInv' /\ NoneBack
<1>1. nextId \in Nat /\ Once(q) /\ \A i \in Held(q) : i \in EventIds /\ i < nextId
  BY HarnessAssumption DEF TypeInv, TypeOK, PlaceInv, PlacedInv, KnownInv, Somewhere
<1>2. ASSUME NEW c \in Channels, NEW at \in 1 .. MaxCreated, RelayEvent(c, at), PushAccepted(q, c)
      PROVE  PlaceInv' /\ NoneBack
  <2>1. /\ nextId \in EventIds /\ nextId' = nextId + 1
        /\ \A i \in Held(q') : i \in Held(q) \/ i = nextId
        /\ Once(q) /\ nextId \notin Held(q) => Once(q')
    BY <1>2, PushedEvents
  <2>2. nextId \notin Held(q)
    BY <1>1
  <2>3. TasksKept
    BY <1>2, InputsQuiet DEF QuietStep
  <2>4. \A i \in Held(q') : i \in Held(q) \/ Arrives(i)
    BY <2>1 DEF Arrives
  <2> QED
    BY <1>1, <2>1, <2>2, <2>3, <2>4, PlaceKept
<1>3. ASSUME NEW c \in Channels, MemberRemoved(c)
      PROVE  PlaceInv' /\ NoneBack
  <2>1. Once(q') /\ \A i \in Held(q') : i \in Held(q)
    BY <1>1, <1>3, DrainedEvents
  <2>2. TasksKept /\ UNCHANGED nextId
    BY <1>3, InputsQuiet DEF MemberRemoved, QuietStep
  <2> QED
    BY <1>1, <2>1, <2>2, PlaceKept
<1>4. ASSUME NEW a \in acks, HandleAck(a)
      PROVE  PlaceInv' /\ NoneBack
  <2>1. Once(q') /\ \A i \in Held(q') : i \in Held(q)
    BY <1>1, <1>4, AnsweredEvents
  <2>2. TasksKept /\ UNCHANGED nextId
    BY <1>4, AckQuiet DEF HandleAck, QuietStep
  <2> QED
    BY <1>1, <2>1, <2>2, PlaceKept
<1> QED
  BY <1>2, <1>3, <1>4

\* Whatever the deadlines do, places stay apart and what is gone stays gone.
LEMMA PlaceNext ==
  ASSUME TypeInv, SlotInv, PlaceInv, [Next]_vars
  PROVE  PlaceInv' /\ NoneBack
<1>1. CASE SameStores(q, q') /\ TasksKept /\ nextId' \in {nextId, nextId + 1}
  <2>1. Held(q') = Held(q) /\ Once(q')
    BY <1>1, SameHeld DEF PlaceInv, PlacedInv
  <2>2. nextId \in Nat
    BY HarnessAssumption DEF TypeInv, TypeOK
  <2> QED
    BY <1>1, <2>1, <2>2, PlaceKept
<1> QED
  BY <1>1, EventCases, PlaceDispatch, PlaceExpiry, PlaceInputs, PlaceEnded

\* At the start there are no events.
LEMMA PlaceInit == Init => PlaceInv
<1> SUFFICES ASSUME Init PROVE PlaceInv
  OBVIOUS
<1>1. TaskSlots = {} /\ \A s \in Slots : BatchOf(s) = {}
  BY DEF Init, TaskSlots, BatchOf
<1>2. \A c \in Channels : q.queues[c] = <<>> /\ q.withheld[c] = <<>> /\ q.cancelled[c] = <<>>
  BY DEF Init, NewQueue
<1>3. \A c \in Channels : ChannelIds(q, c) = {}
  BY <1>2, EmptyIds DEF ChannelIds
<1>4. Held(q) = {}
  BY <1>3 DEF Held
<1>5. Distinct(<<>>)
  BY DEF Distinct
<1>6. Once(q)
  BY <1>2, <1>3, <1>5, EmptyIds DEF Once, OnceIn
<1> QED
  BY <1>1, <1>4, <1>6 DEF PlaceInv, PlacedInv, KnownInv, Somewhere

-----------------------------------------------------------------------------
(* While no deadline has passed: no event after its fate. *)

\* An event in a store or a batch has not met its fate.
LiveInv ==
  /\ \A i \in Held(q) : fate[i] = "live"
  /\ \A s \in Slots : \A i \in BatchOf(s) : fate[i] = "live"

\* An event under a steer request or an ack is withheld, or it is gone: it cannot be elsewhere,
\* where the removal of a delivered steer would not look for it.
AskedInv ==
  \A c \in Channels : \A i : AskedFor(c, i) =>
    /\ i \in Held(q) => i \in Ids(q.withheld[c])
    /\ \A s \in Slots : i \notin BatchOf(s)

ContentInv == LiveInv /\ AskedInv

\* What a step must do.
LEMMA ContentStep ==
  ASSUME \A i \in Held(q') : fate'[i] = "live",
         \A s \in Slots : \A i \in BatchOf(s)' : fate'[i] = "live",
         \A c \in Channels : \A i : AskedFor(c, i)' =>
           /\ i \in Held(q') => i \in Ids(q'.withheld[c])
           /\ \A s \in Slots : i \notin BatchOf(s)'
  PROVE  ContentInv'
<1>1. Held(q)' = Held(q')
  BY DEF Held, ChannelIds
<1>2. LiveInv'
  BY <1>1 DEF LiveInv
<1>3. AskedInv'
  BY <1>1 DEF AskedInv
<1> QED
  BY <1>2, <1>3 DEF ContentInv

\* A step that keeps the tasks: the events of T meet their fate and leave the stores.
LEMMA ContentKept ==
  ASSUME PlaceInv, ContentInv, TasksKept, NEW T, Dies(T), \A i \in Held(q') : i \in Held(q),
         \A i \in T : i \notin Held(q') /\ \A s \in Slots : i \notin BatchOf(s),
         \A c \in Channels : \A i : AskedFor(c, i)' =>
           AskedFor(c, i) /\ (i \in Ids(q.withheld[c]) /\ i \in Held(q') => i \in Ids(q'.withheld[c]))
  PROVE  ContentInv'
<1>1. \A s \in Slots : BatchOf(s)' = BatchOf(s)
  BY BatchesKept
<1>2. /\ \A i \in Held(q) : i \in EventIds
      /\ \A s \in Slots : \A i \in BatchOf(s) : i \in EventIds
  BY DEF PlaceInv, KnownInv, Somewhere
<1>3. \A i \in Held(q') : fate'[i] = "live"
  BY <1>2 DEF ContentInv, LiveInv, Dies
<1>4. \A s \in Slots : \A i \in BatchOf(s)' : fate'[i] = "live"
  BY <1>1, <1>2 DEF ContentInv, LiveInv, Dies
<1>5. \A c \in Channels : \A i : AskedFor(c, i)' =>
        /\ i \in Held(q') => i \in Ids(q'.withheld[c])
        /\ \A s \in Slots : i \notin BatchOf(s)'
  BY <1>1 DEF ContentInv, AskedInv
<1> QED
  BY <1>3, <1>4, <1>5, ContentStep

\* A step that hands events of the stores to an idle agent.
LEMMA ContentTaken ==
  ASSUME TypeInv, SlotInv, PlaceInv, ContentInv, NEW s \in Idle, NEW t \in GoodTask,
         tasks' = [tasks EXCEPT ![s] = t], Dies({}), Held(q) = Held(q') \cup BatchIds(t.batch),
         BatchIds(t.batch) \cap Held(q') = {},
         \A d \in Channels : q'.withheld[d] = q.withheld[d],
         \A c \in Channels : \A i : AskedFor(c, i)' => AskedFor(c, i)
  PROVE  ContentInv'
<1>1. s \in Slots /\ tasks[s] = NoTask /\ t # NoTask
  BY GoodTaskFacts DEF Idle, SlotInv, SlotExclusive
<1>2. \A u \in Slots : tasks'[u] = IF u = s THEN t ELSE tasks[u]
  BY <1>1 DEF TypeInv
<1>3. /\ BatchOf(s) = {} /\ BatchOf(s)' = BatchIds(t.batch)
      /\ \A u \in Slots \ {s} : BatchOf(u)' = BatchOf(u)
  BY <1>1, <1>2 DEF BatchOf, BatchIds
<1>4. /\ \A i \in Held(q) : i \in EventIds
      /\ \A u \in Slots : \A i \in BatchOf(u) : i \in EventIds
  BY DEF PlaceInv, KnownInv, Somewhere
<1>6. \A i \in EventIds : fate'[i] = "live" <=> fate[i] = "live"
  BY DEF Dies
<1>7. \A i \in Held(q') : fate'[i] = "live"
  BY <1>4, <1>6 DEF ContentInv, LiveInv
<1>8. \A u \in Slots : \A i \in BatchOf(u)' : fate'[i] = "live"
  BY <1>3, <1>4, <1>6 DEF ContentInv, LiveInv
<1>9. \A c \in Channels : \A i : AskedFor(c, i)' =>
        /\ i \in Held(q') => i \in Ids(q'.withheld[c])
        /\ \A u \in Slots : i \notin BatchOf(u)'
  <2> SUFFICES ASSUME NEW c \in Channels, NEW i, AskedFor(c, i)
               PROVE  /\ i \in Held(q') => i \in Ids(q'.withheld[c])
                      /\ \A u \in Slots : i \notin BatchOf(u)'
    OBVIOUS
  <2>1. (i \in Held(q) => i \in Ids(q.withheld[c])) /\ \A u \in Slots : i \notin BatchOf(u)
    BY DEF ContentInv, AskedInv
  <2>2. Ids(q'.withheld[c]) \subseteq Held(q')
    <3>1. q'.withheld[c] = q.withheld[c]
      OBVIOUS
    <3> QED
      BY DEF Held, ChannelIds
  <2>3. i \notin BatchIds(t.batch)
    BY <2>1, <2>2
  <2> QED
    BY <1>3, <2>1, <2>3
<1> QED
  BY <1>7, <1>8, <1>9, ContentStep

\* A step that ends a task.
LEMMA ContentEnded ==
  ASSUME TypeInv, SteerInv, PlaceInv, ContentInv, NEW s \in Slots, HandleResult(s) \/ HandlePanic(s)
  PROVE  ContentInv'
<1> DEFINE b == tasks[s].batch
<1>1. /\ tasks[s] \in GoodTask /\ tasks[s].phase \in {"done", "panicked"}
      /\ tasks' = [tasks EXCEPT ![s] = NoTask] /\ UNCHANGED <<acks, nextId>>
  BY EndedEvents
<1>2. PICK T : /\ Dies(T)
               /\ \A i \in T : i \in Held(q) \/ i \in BatchIds(b)
               /\ Once(q) /\ OnceBatch(b) /\ BatchIds(b) \cap Held(q) = {} =>
                    Once(q') /\ \A i \in T : i \notin Held(q')
  BY EndedEvents
<1>3. /\ \A i \in Held(q') : i \in Held(q) \/ i \in BatchIds(b)
      /\ \A d \in Channels : q'.withheld[d] = q.withheld[d]
  BY EndedEvents
<1>4. tasks[s] # NoTask /\ BatchOf(s) = BatchIds(b)
  BY <1>1, GoodTaskFacts DEF BatchOf
<1>5. \A u \in Slots : tasks'[u] = IF u = s THEN NoTask ELSE tasks[u]
  BY <1>1 DEF TypeInv
<1>6. BatchOf(s)' = {} /\ \A u \in Slots \ {s} : BatchOf(u)' = BatchOf(u)
  BY <1>5 DEF BatchOf, BatchIds
<1>7. \A c, i : AskedFor(c, i)' <=> AskedFor(c, i)
  <2>1. SteersLeft
    BY <1>1, SlotSteers DEF SteerInv
  <2>2. /\ nextId \in Nat /\ nextId' \in Nat /\ nextId <= nextId' /\ acks \subseteq AckType
        /\ tasks \in [Slots -> GoodTask \cup {NoTask}] /\ UNCHANGED acks
    BY <1>1, HarnessAssumption DEF TypeInv, TypeOK, AckType
  <2> QED
    BY <2>1, <2>2, SteersSame DEF SteerInv
<1>8. OnceBatch(b) /\ BatchIds(b) \cap Held(q) = {} /\ Once(q)
  BY <1>4 DEF PlaceInv, PlacedInv, TaskSlots
<1>9. /\ \A i \in Held(q) : i \in EventIds
      /\ \A u \in Slots : \A i \in BatchOf(u) : i \in EventIds
  BY DEF PlaceInv, KnownInv, Somewhere
<1> HIDE DEF b
<1>10. \A i \in Held(q') : fate'[i] = "live"
  BY <1>2, <1>3, <1>4, <1>8, <1>9 DEF ContentInv, LiveInv, Dies
<1>11. \A u \in Slots : \A i \in BatchOf(u)' : fate'[i] = "live"
  <2> SUFFICES ASSUME NEW u \in Slots \ {s}, NEW i \in BatchOf(u)
               PROVE  fate'[i] = "live"
    BY <1>6
  <2>1. i \notin Held(q) /\ i \notin BatchOf(s)
    BY DEF PlaceInv, PlacedInv
  <2>2. i \notin T
    BY <1>2, <1>4, <2>1
  <2> QED
    BY <1>2, <1>9, <2>2 DEF ContentInv, LiveInv, Dies
<1>12. \A c \in Channels : \A i : AskedFor(c, i)' =>
         /\ i \in Held(q') => i \in Ids(q'.withheld[c])
         /\ \A u \in Slots : i \notin BatchOf(u)'
  BY <1>3, <1>4, <1>6, <1>7 DEF ContentInv, AskedInv
<1> QED
  BY <1>10, <1>11, <1>12, ContentStep

\* A relay event is accepted: it is in one place, and withheld if a request asks about it.
LEMMA ContentPushed ==
  ASSUME TypeInv, SteerInv, PlaceInv, ContentInv, NEW c \in Channels, NEW at \in 1 .. MaxCreated,
         RelayEvent(c, at), PushAccepted(q, c)
  PROVE  ContentInv'
<1> DEFINE T == PushEvicts(q, c)
<1>1. nextId \in EventIds /\ nextId' = nextId + 1 /\ nextId \in Nat /\ UNCHANGED acks /\ TasksKept
  <2>1. nextId \in EventIds /\ nextId' = nextId + 1
    BY PushedEvents
  <2> QED
    BY <2>1, InputsQuiet, HarnessAssumption DEF QuietStep, RelayEvent, TypeInv, TypeOK
<1>2. /\ \A i \in EventIds : fate'[i] = "live" <=> i = nextId \/ (fate[i] = "live" /\ i \notin T)
      /\ \A i \in T : i \in Held(q)
      /\ \A i \in Held(q') : i \in Held(q) \/ i = nextId
      /\ Once(q) /\ nextId \notin Held(q) => Once(q') /\ \A i \in T : i \notin Held(q')
  BY PushedEvents
<1> HIDE DEF T
<1>3. /\ \A i \in Held(q) : i \in EventIds /\ i < nextId
      /\ \A u \in Slots : \A i \in BatchOf(u) : i \in EventIds /\ i < nextId
  BY DEF PlaceInv, KnownInv, Somewhere
<1>4. nextId \notin Held(q) /\ \A u \in Slots : nextId \notin BatchOf(u)
  BY <1>1, <1>3
<1>5. Once(q') /\ \A i \in T : i \notin Held(q')
  BY <1>2, <1>4 DEF PlaceInv, PlacedInv
<1>6. \A u \in Slots : BatchOf(u)' = BatchOf(u)
  BY <1>1, BatchesKept
<1>7. \A i \in EventIds : i < nextId => i # nextId
  BY <1>1 DEF EventIds
<1>8. \A i \in Held(q') : fate'[i] = "live"
  BY <1>1, <1>2, <1>3, <1>5, <1>7 DEF ContentInv, LiveInv
<1>9. \A u \in Slots : \A i \in BatchOf(u)' : fate'[i] = "live"
  BY <1>2, <1>3, <1>6, <1>7 DEF ContentInv, LiveInv, PlaceInv, PlacedInv
<1>10. \A d \in Channels : \A i : AskedFor(d, i)' =>
         \/ AskedFor(d, i) /\ Ids(q.withheld[d]) \subseteq Ids(q'.withheld[d]) /\ i # nextId
         \/ i = nextId /\ i \in Ids(q'.withheld[d])
  <2>0. \A d, i : AskedFor(d, i) => i # nextId
    <3>1. \A a \in acks : a.id \in Nat /\ a.id < nextId
      BY DEF SteerInv, SteersOnce, TypeInv, TypeOK
    <3>2. \A u \in TaskSlots : \A i \in OpenSteers(u) : i \in Nat /\ i < nextId
      <4>1. \A u \in TaskSlots : tasks[u] \in GoodTask
        BY DEF TaskSlots, TypeInv
      <4> QED
        BY <4>1 DEF SteerInv, SteersOnce, OpenSteers, GoodTask, Task
    <3>3. (\A a \in acks : a.id # nextId) /\ \A u \in TaskSlots : nextId \notin OpenSteers(u)
      BY <1>1, <3>1, <3>2
    <3> QED
      BY <3>3 DEF AskedFor, TasksOn
  <2>1. CASE SteersLeft /\ \A d \in Channels : q'.withheld[d] = q.withheld[d]
    <3>1. /\ nextId' \in Nat /\ nextId <= nextId' /\ acks \subseteq AckType
          /\ tasks \in [Slots -> GoodTask \cup {NoTask}]
      BY <1>1 DEF TypeInv, TypeOK, AckType
    <3>2. \A d, i : AskedFor(d, i)' <=> AskedFor(d, i)
      BY <1>1, <2>1, <3>1, SteersSame DEF SteerInv
    <3> QED
      BY <2>0, <2>1, <3>2
  <2>2. ASSUME NEW s \in TasksOn(c), tasks[s].phase = "running", tasks[s].buf = NoEvent,
               tasks' = [tasks EXCEPT ![s] = [tasks[s] EXCEPT !.buf = nextId]],
               \A d \in Channels \ {c} : q'.withheld[d] = q.withheld[d],
               Ids(q'.withheld[c]) = Ids(q.withheld[c]) \cup {nextId},
               NEW d \in Channels, NEW i, AskedFor(d, i)'
        PROVE  \/ AskedFor(d, i) /\ Ids(q.withheld[d]) \subseteq Ids(q'.withheld[d]) /\ i # nextId
               \/ i = nextId /\ i \in Ids(q'.withheld[d])
    <3>1. s \in Slots /\ tasks[s] \in GoodTask /\ tasks[s].batch.ch = c /\ s \in TaskSlots
      BY PhaseIsTask, GoodTaskFacts DEF TasksOn, TaskSlots
    <3> DEFINE t == [tasks[s] EXCEPT !.buf = nextId]
    <3>2. t.buf = nextId /\ t.pend = tasks[s].pend /\ t.batch = tasks[s].batch /\ t # NoTask
      BY <2>2, <3>1 DEF GoodTask, Task, NoTask
    <3>3. \A u \in Slots : tasks'[u] = IF u = s THEN t ELSE tasks[u]
      BY <2>2, <3>1 DEF TypeInv
    <3> HIDE DEF t
    <3>4. /\ TaskSlots' = TaskSlots /\ TaskSlots \subseteq Slots
          /\ OpenSteers(s)' \subseteq OpenSteers(s) \cup {nextId}
          /\ \A u \in TaskSlots : u # s => OpenSteers(u)' = OpenSteers(u)
      BY <3>1, <3>2, <3>3 DEF TaskSlots, OpenSteers
    <3>5. \A e : TasksOn(e)' = TasksOn(e)
      BY <3>1, <3>2, <3>3, <3>4 DEF TasksOn
    <3>6. AskedFor(d, i) \/ (d = c /\ i = nextId)
      <4>1. \A e : TasksOn(e) \subseteq TaskSlots /\ (s \in TasksOn(e) => e = c)
        BY <3>1 DEF TasksOn
      <4> QED
        BY <1>1, <2>2, <3>4, <3>5, <4>1 DEF AskedFor
    <3> QED
      BY <2>0, <2>2, <3>6
  <2> QED
    BY <2>1, <2>2, PushedEvents
<1>11. \A d \in Channels : \A i : AskedFor(d, i)' =>
         /\ i \in Held(q') => i \in Ids(q'.withheld[d])
         /\ \A u \in Slots : i \notin BatchOf(u)'
  BY <1>2, <1>4, <1>6, <1>10 DEF ContentInv, AskedInv
<1> QED
  BY <1>8, <1>9, <1>11, ContentStep

\* A steer ack: the event it is about is withheld or gone, so it settles nothing that stays.
LEMMA ContentAnswered ==
  ASSUME TypeInv, SteerInv, PlaceInv, ContentInv, NEW a \in acks, HandleAck(a)
  PROVE  ContentInv'
<1>1. /\ a.ch \in Channels /\ acks' = acks \ {a} /\ SteersLeft
      /\ \A i \in Held(q') : i \in Held(q)
      /\ \A d \in Channels : d # a.ch => q'.withheld[d] = q.withheld[d]
      /\ Distinct(q.withheld[a.ch]) => Ids(q'.withheld[a.ch]) = Ids(q.withheld[a.ch]) \ {a.id}
      /\ Once(q) => Once(q')
  BY AnsweredEvents
<1>2. PICK T : /\ Dies(T)
               /\ \A i \in T : i \in Held(q) \/ i = a.id
               /\ Once(q) /\ (a.id \in Held(q) => a.id \in Ids(q.withheld[a.ch])) =>
                    \A i \in T : i \notin Held(q')
  BY AnsweredEvents
<1>3. TasksKept
  BY AckQuiet DEF QuietStep
<1>4. AskedFor(a.ch, a.id)
  BY DEF AskedFor
<1>5. (a.id \in Held(q) => a.id \in Ids(q.withheld[a.ch])) /\ \A s \in Slots : a.id \notin BatchOf(s)
  BY <1>1, <1>4 DEF ContentInv, AskedInv
<1>6. Once(q) /\ Once(q') /\ Distinct(q.withheld[a.ch])
  BY <1>1 DEF PlaceInv, PlacedInv, SteerInv, WithheldInv
<1>7. \A i \in T : i \notin Held(q') /\ \A s \in Slots : i \notin BatchOf(s)
  BY <1>2, <1>5, <1>6 DEF PlaceInv, PlacedInv
<1>8. \A c, i : AskedFor(c, i)' => AskedFor(c, i) /\ i # a.id
  <2>1. \A s \in Slots : s \in TaskSlots' /\ OpenSteers(s)' # {} =>
          /\ s \in TaskSlots /\ OpenSteers(s)' = OpenSteers(s)
          /\ tasks'[s].batch.ch = tasks[s].batch.ch
    BY <1>1 DEF SteersLeft, TaskSlots, OpenSteers
  <2>2. TaskSlots' \subseteq Slots
    BY DEF TaskSlots
  <2> SUFFICES ASSUME NEW c, NEW i, AskedFor(c, i)'
               PROVE  AskedFor(c, i) /\ i # a.id
    OBVIOUS
  <2>3. CASE \E b \in acks' : b.ch = c /\ b.id = i
    BY <1>1, <2>3 DEF AskedFor, SteerInv, SteersOnce
  <2>4. ASSUME NEW s \in TasksOn(c)', i \in OpenSteers(s)' PROVE AskedFor(c, i) /\ i # a.id
    <3>1. s \in TasksOn(c) /\ i \in OpenSteers(s) /\ s \in TaskSlots
      BY <2>1, <2>2, <2>4 DEF TasksOn
    <3> QED
      BY <3>1 DEF AskedFor, SteerInv, SteersOnce
  <2> QED
    BY <2>3, <2>4 DEF AskedFor
<1>9. \A c \in Channels : \A i : AskedFor(c, i)' =>
        AskedFor(c, i) /\ (i \in Ids(q.withheld[c]) /\ i \in Held(q') => i \in Ids(q'.withheld[c]))
  BY <1>1, <1>6, <1>8
<1> QED
  BY <1>1, <1>2, <1>3, <1>7, <1>9, ContentKept

\* dispatch_pending and the heartbeat tick.
LEMMA ContentDispatch ==
  ASSUME TypeInv, SlotInv, PlaceInv, ContentInv, NoLapse(q), DispatchStep,
         \A c, i : AskedFor(c, i)' <=> AskedFor(c, i)
  PROVE  ContentInv'
<1>1. ASSUME NEW r \in FlushNext(q), Idle # {}, q' = r.q,
             tasks' = [tasks EXCEPT ![Claim(r.batch.ch)] = NewTask(r.batch, "open")],
             fate' = Settle(fate, ExpiryTrims(q), "dropped")
      PROVE  ContentInv'
  <2> DEFINE t == NewTask(r.batch, "open")
             s == Claim(r.batch.ch)
  <2>1. /\ t \in GoodTask
        /\ \E T : Dies(T) /\ T = {}
        /\ Held(q) = Held(q') \cup BatchIds(r.batch)
        /\ \A d \in Channels : q'.withheld[d] = q.withheld[d]
        /\ Once(q) => Once(q') /\ OnceBatch(r.batch) /\ BatchIds(r.batch) \cap Held(q') = {}
    BY <1>1, DispatchedEvents
  <2>2. t.batch = r.batch
    BY DEF NewTask
  <2>3. s \in Idle
    BY <1>1, ClaimIdle
  <2>4. tasks' = [tasks EXCEPT ![s] = t]
    BY <1>1
  <2> HIDE DEF t, s
  <2>5. Dies({})
    BY <2>1
  <2>6. BatchIds(t.batch) \cap Held(q') = {}
    BY <2>1, <2>2 DEF PlaceInv, PlacedInv
  <2> QED
    BY <2>1, <2>2, <2>3, <2>4, <2>5, <2>6, ContentTaken
<1>2. ASSUME UNCHANGED tasks,
             \/ /\ q' = ExpireInFlight(q) /\ fate' = Settle(fate, ExpiryTrims(q), "dropped")
             \/ \E r \in FlushNext(q) :
                  /\ q' = MarkComplete(RequeuePreserve(r.q, r.batch), r.batch.ch)
                  /\ fate' = Settle(fate, ExpiryTrims(q) \cup RequeueTrims(r.q, r.batch), "dropped")
      PROVE  ContentInv'
  <2>1. PICK T, L : /\ Dies(T)
                    /\ \A i \in Held(q') \cup T : i \in Held(q)
                    /\ \A d \in Channels : q'.withheld[d] = q.withheld[d]
                    /\ Once(q) => Once(q') /\ \A i \in T : i \notin Held(q')
    BY <1>2, BouncedEvents
  <2>2. TasksKept
    BY <1>2 DEF TasksKept
  <2>3. \A i \in T : i \notin Held(q') /\ \A s \in Slots : i \notin BatchOf(s)
    BY <2>1 DEF PlaceInv, PlacedInv
  <2> QED
    BY <2>1, <2>2, <2>3, ContentKept
<1> QED
  BY <1>1, <1>2 DEF DispatchStep

\* Maintenance and the heartbeat tick lapse no turn.
LEMMA ContentExpiry ==
  ASSUME TypeInv, SlotInv, PlaceInv, ContentInv, NoLapse(q), Maintenance \/ HeartbeatTick,
         \A c, i : AskedFor(c, i)' <=> AskedFor(c, i)
  PROVE  ContentInv'
<1>1. SameStores(q, q') /\ Dies({})
  BY ExpiryEvents
<1>2. Held(q') = Held(q) /\ \A d \in Channels : q'.withheld[d] = q.withheld[d]
  BY <1>1, SameHeld DEF SameStores
<1>3. CASE UNCHANGED tasks
  <2>1. TasksKept
    BY <1>3 DEF TasksKept
  <2>2. PICK T : T = {}
    OBVIOUS
  <2>3. Dies(T) /\ \A i \in T : i \notin Held(q') /\ \A s \in Slots : i \notin BatchOf(s)
    BY <1>1, <2>2
  <2> QED
    BY <1>2, <2>1, <2>3, ContentKept
<1>4. CASE ~UNCHANGED tasks
  <2> DEFINE b == [ch |-> Heartbeat, events |-> <<>>, cancelled |-> <<>>, reason |-> "none"]
             t == NewTask(b, "none")
             s == FirstOf(Idle)
  <2>1. t \in GoodTask /\ t.batch = b
    BY HeartbeatTaskGood DEF NewTask
  <2>2. Idle # {} /\ tasks' = [tasks EXCEPT ![s] = t]
    BY <1>4 DEF Maintenance, HeartbeatTick
  <2>3. s \in Idle
    BY <2>2, FirstOfMember DEF Idle
  <2>4. BatchIds(t.batch) = {}
    BY <2>1, EmptyIds DEF BatchIds
  <2> HIDE DEF t, s
  <2> QED
    BY <1>1, <1>2, <2>1, <2>2, <2>3, <2>4, ContentTaken
<1> QED
  BY <1>3, <1>4

\* A membership removal takes the whole channel, what is withheld there too.
LEMMA ContentDrained ==
  ASSUME TypeInv, PlaceInv, ContentInv, NEW c \in Channels, MemberRemoved(c),
         \A d, i : AskedFor(d, i)' <=> AskedFor(d, i)
  PROVE  ContentInv'
<1> DEFINE T == ChannelIds(q, c)
<1>1. /\ Dies(T)
      /\ \A i \in Held(q') \cup T : i \in Held(q)
      /\ \A d \in Channels : d # c => q'.withheld[d] = q.withheld[d]
      /\ Once(q) => Once(q') /\ \A i \in T : i \notin Held(q')
  BY DrainedEvents
<1>2. TasksKept
  BY InputsQuiet DEF QuietStep
<1>3. Ids(q.withheld[c]) \subseteq T
  BY DEF ChannelIds
<1> HIDE DEF T
<1>4. \A i \in T : i \notin Held(q') /\ \A s \in Slots : i \notin BatchOf(s)
  BY <1>1 DEF PlaceInv, PlacedInv
<1>5. \A d \in Channels : \A i : AskedFor(d, i)' =>
        AskedFor(d, i) /\ (i \in Ids(q.withheld[d]) /\ i \in Held(q') => i \in Ids(q'.withheld[d]))
  BY <1>1, <1>3, <1>4
<1> QED
  BY <1>1, <1>2, <1>4, <1>5, ContentKept

\* The deadlines that had not passed have not passed before.
LEMMA LapsesGrow ==
  ASSUME TypeInv, [Next]_vars, lapses' = 0
  PROVE  lapses = 0
<1>1. CASE Maintenance \/ HeartbeatTick \/ DispatchStep
  BY <1>1 DEF Maintenance, HeartbeatTick, DispatchStep
<1>2. CASE \/ \E c \in Channels, at \in 1 .. MaxCreated : RelayEvent(c, at)
           \/ \E c \in Channels : MemberRemoved(c)
           \/ \E a \in acks : HandleAck(a)
  BY <1>2 DEF RelayEvent, MemberRemoved, HandleAck
<1>3. CASE \E s \in Slots : HandleResult(s) \/ HandlePanic(s)
  BY <1>3, EndedEvents
<1> QED
  BY <1>1, <1>2, <1>3, EventCases

LapseFreeInv == lapses = 0 => ContentInv

\* Until a deadline passes the contents stay apart and live.
LEMMA ContentNext ==
  TypeInv /\ SlotInv /\ TurnInv /\ SteerInv /\ PlaceInv /\ LapseFreeInv /\ [Next]_vars => LapseFreeInv'
<1> SUFFICES ASSUME TypeInv, SlotInv, TurnInv, SteerInv, PlaceInv, lapses = 0 => ContentInv, [Next]_vars,
                    lapses' = 0
             PROVE  ContentInv'
  BY DEF LapseFreeInv
<1>1. ContentInv /\ NoLapse(q)
  BY LapsesGrow DEF TurnInv, ChannelTurns
<1>2. SteersOnce
  BY DEF SteerInv
<1>3. CASE \E a \in acks : HandleAck(a)
  BY <1>1, <1>3, ContentAnswered
<1>4. CASE \E c \in Channels, at \in 1 .. MaxCreated : RelayEvent(c, at) /\ PushAccepted(q, c)
  BY <1>1, <1>4, ContentPushed
<1>5. CASE \A c, i : AskedFor(c, i)' <=> AskedFor(c, i)
  <2>1. CASE SameStores(q, q') /\ UNCHANGED fate /\ TasksKept /\ nextId' \in {nextId, nextId + 1}
    <3>1. Held(q') = Held(q) /\ \A d \in Channels : q'.withheld[d] = q.withheld[d]
      BY <2>1, SameHeld DEF SameStores
    <3>2. PICK T : T = {}
      OBVIOUS
    <3>3. Dies(T) /\ \A i \in T : i \notin Held(q') /\ \A s \in Slots : i \notin BatchOf(s)
      BY <2>1, <3>2, NobodyDies
    <3> QED
      BY <1>1, <1>5, <2>1, <3>1, <3>3, ContentKept
  <2>2. CASE \E s \in Slots : HandleResult(s) \/ HandlePanic(s)
    BY <1>1, <2>2, ContentEnded
  <2> QED
    BY <1>1, <1>3, <1>4, <1>5, <2>1, <2>2, EventCases, ContentDispatch, ContentExpiry, ContentDrained
<1> QED
  BY <1>2, <1>3, <1>4, <1>5, AskedCases

\* At the start there are no events.
LEMMA ContentInit == Init => LapseFreeInv
<1> SUFFICES ASSUME Init PROVE ContentInv
  BY DEF LapseFreeInv
<1>1. TaskSlots = {} /\ acks = {} /\ \A s \in Slots : BatchOf(s) = {}
  BY DEF Init, TaskSlots, BatchOf
<1>2. \A c \in Channels : q.queues[c] = <<>> /\ q.withheld[c] = <<>> /\ q.cancelled[c] = <<>>
  BY DEF Init, NewQueue
<1>3. \A c \in Channels : ChannelIds(q, c) = {}
  BY <1>2, EmptyIds DEF ChannelIds
<1>4. Held(q) = {}
  BY <1>3 DEF Held
<1> QED
  BY <1>1, <1>4 DEF ContentInv, LiveInv, AskedInv

-----------------------------------------------------------------------------
(* The invariants in the words of the harness *)

\* The places of channel c's stores.
StorePlaces(c) == {<<"queues", c>>, <<"withheld", c>>, <<"cancelled", c>>}

\* What the places are and what is in them.
LEMMA PlaceContents ==
  ASSUME TypeInv
  PROVE  /\ \A p \in Places : \/ \E c \in Channels : p \in StorePlaces(c)
                              \/ \E s \in Slots : p = <<"batch", s>>
         /\ \A c \in Channels : /\ <<"queues", c>> \in Places /\ Content(<<"queues", c>>) = q.queues[c]
                                /\ <<"withheld", c>> \in Places /\ Content(<<"withheld", c>>) = q.withheld[c]
                                /\ <<"cancelled", c>> \in Places /\ Content(<<"cancelled", c>>) = q.cancelled[c]
         /\ \A s \in Slots : /\ <<"batch", s>> \in Places /\ Ids(Content(<<"batch", s>>)) = BatchOf(s)
                             /\ (s \in TaskSlots => OnceBatch(tasks[s].batch)) => Distinct(Content(<<"batch", s>>))
<1>1. \A p \in Places : \/ \E c \in Channels : p \in StorePlaces(c)
                        \/ \E s \in Slots : p = <<"batch", s>>
  BY DEF Places, StorePlaces
<1>2. \A c \in Channels : /\ <<"queues", c>> \in Places /\ <<"withheld", c>> \in Places
                          /\ <<"cancelled", c>> \in Places
  BY DEF Places
<1>3. \A c \in Channels : /\ Content(<<"queues", c>>) = q.queues[c]
                          /\ Content(<<"withheld", c>>) = q.withheld[c]
                          /\ Content(<<"cancelled", c>>) = q.cancelled[c]
  BY DEF Content
<1>4. ASSUME NEW s \in Slots
      PROVE  /\ <<"batch", s>> \in Places /\ Ids(Content(<<"batch", s>>)) = BatchOf(s)
             /\ (s \in TaskSlots => OnceBatch(tasks[s].batch)) => Distinct(Content(<<"batch", s>>))
  <2> DEFINE b == tasks[s].batch
  <2>1. <<"batch", s>> \in Places
    BY DEF Places
  <2>2. Content(<<"batch", s>>) = IF tasks[s] = NoTask THEN <<>> ELSE b.cancelled \o b.events
    BY DEF Content
  <2>3. CASE tasks[s] = NoTask
    BY <2>1, <2>2, <2>3, EmptyIds DEF BatchOf
  <2>4. CASE tasks[s] # NoTask
    <3>1. b.cancelled \in EventSeq /\ b.events \in EventSeq /\ s \in TaskSlots
      BY <2>4 DEF TypeInv, GoodTask, Task, EventSeq, TaskSlots
    <3> HIDE DEF b
    <3>2. Ids(Content(<<"batch", s>>)) = Ids(b.cancelled) \cup Ids(b.events)
      BY <2>2, <2>4, <3>1, ConcatIds
    <3>3. BatchOf(s) = Ids(b.events) \cup Ids(b.cancelled)
      BY <2>4 DEF BatchOf, BatchIds, b
    <3>4. ASSUME OnceBatch(b) PROVE Distinct(Content(<<"batch", s>>))
      <4>1. Distinct(b.cancelled) /\ Distinct(b.events) /\ Ids(b.cancelled) \cap Ids(b.events) = {}
        BY <3>4 DEF OnceBatch
      <4>2. Distinct(b.cancelled \o b.events)
        BY <3>1, <4>1, ConcatIds
      <4> QED
        BY <2>2, <2>4, <4>2
    <3> QED
      BY <2>1, <3>1, <3>2, <3>3, <3>4 DEF b
  <2> QED
    BY <2>3, <2>4
<1> QED
  BY <1>1, <1>2, <1>3, <1>4

\* An event is located when a store holds it or a batch carries it.
LEMMA LocatedEvents ==
  ASSUME TypeInv
  PROVE  \A i : i \in Located <=> i \in Held(q) \/ \E s \in Slots : i \in BatchOf(s)
<1>1. ASSUME NEW i, i \in Located PROVE i \in Held(q) \/ \E s \in Slots : i \in BatchOf(s)
  <2>1. PICK p \in Places : i \in Ids(Content(p))
    BY <1>1 DEF Located
  <2>2. CASE \E c \in Channels : p \in StorePlaces(c)
    <3>1. PICK c \in Channels : p \in StorePlaces(c)
      BY <2>2
    <3>2. i \in Ids(q.queues[c]) \/ i \in Ids(q.withheld[c]) \/ i \in Ids(q.cancelled[c])
      BY <2>1, <3>1, PlaceContents DEF StorePlaces
    <3> QED
      BY <3>2 DEF Held, ChannelIds
  <2>3. CASE \E s \in Slots : p = <<"batch", s>>
    BY <2>1, <2>3, PlaceContents
  <2> QED
    BY <2>2, <2>3, PlaceContents
<1>2. ASSUME NEW i, i \in Held(q) PROVE i \in Located
  <2>1. PICK c \in Channels : i \in Ids(q.queues[c]) \/ i \in Ids(q.withheld[c]) \/ i \in Ids(q.cancelled[c])
    BY <1>2 DEF Held, ChannelIds
  <2>2. \E p \in Places : i \in Ids(Content(p))
    BY <2>1, PlaceContents
  <2> QED
    BY <2>2 DEF Located
<1>3. ASSUME NEW i, NEW s \in Slots, i \in BatchOf(s) PROVE i \in Located
  <2>1. \E p \in Places : i \in Ids(Content(p))
    BY <1>3, PlaceContents
  <2> QED
    BY <2>1 DEF Located
<1> QED
  BY <1>1, <1>2, <1>3

\* Contents that are apart are in one place each.
LEMMA ContentApart ==
  ASSUME TypeInv, PlacedInv
  PROVE  EventInOnePlace
<1>1. ASSUME NEW p \in Places PROVE Distinct(Content(p))
  <2>1. CASE \E c \in Channels : p \in StorePlaces(c)
    BY ZenonT(40), <2>1, PlaceContents DEF StorePlaces, PlacedInv, Once, OnceIn
  <2>2. CASE \E s \in Slots : p = <<"batch", s>>
    BY <2>2, PlaceContents DEF PlacedInv
  <2> QED
    BY <2>1, <2>2, PlaceContents
<1>2. ASSUME NEW p \in Places, NEW r \in Places, p # r PROVE Ids(Content(p)) \cap Ids(Content(r)) = {}
  <2>1. ASSUME NEW c \in Channels, NEW d \in Channels,
               p \in StorePlaces(c),
               r \in StorePlaces(d)
        PROVE  Ids(Content(p)) \cap Ids(Content(r)) = {}
    <3>1. CASE c = d
      <4>1. /\ Ids(q.queues[c]) \cap Ids(q.withheld[c]) = {}
            /\ Ids(q.queues[c]) \cap Ids(q.cancelled[c]) = {}
            /\ Ids(q.withheld[c]) \cap Ids(q.cancelled[c]) = {}
        BY DEF PlacedInv, Once, OnceIn
      <4>2. /\ Content(<<"queues", c>>) = q.queues[c] /\ Content(<<"withheld", c>>) = q.withheld[c]
            /\ Content(<<"cancelled", c>>) = q.cancelled[c]
        BY PlaceContents
      <4>3. CASE p = <<"queues", c>>
        BY <1>2, <2>1, <3>1, <4>1, <4>2, <4>3 DEF StorePlaces
      <4>4. CASE p = <<"withheld", c>>
        BY <1>2, <2>1, <3>1, <4>1, <4>2, <4>4 DEF StorePlaces
      <4>5. CASE p = <<"cancelled", c>>
        BY <1>2, <2>1, <3>1, <4>1, <4>2, <4>5 DEF StorePlaces
      <4> QED
        BY <2>1, <4>3, <4>4, <4>5 DEF StorePlaces
    <3>2. CASE c # d
      <4>1. Ids(Content(p)) \subseteq ChannelIds(q, c) /\ Ids(Content(r)) \subseteq ChannelIds(q, d)
        BY <2>1, PlaceContents DEF StorePlaces, ChannelIds
      <4> QED
        BY <3>2, <4>1 DEF PlacedInv, Once
    <3> QED
      BY <3>1, <3>2
  <2>2. ASSUME NEW x \in Places, NEW y \in Places, NEW c \in Channels, NEW s \in Slots,
               x \in StorePlaces(c), y = <<"batch", s>>
        PROVE  Ids(Content(x)) \cap Ids(Content(y)) = {}
    <3>0. Ids(Content(x)) \subseteq ChannelIds(q, c) /\ Ids(Content(y)) = BatchOf(s)
      BY <2>2, PlaceContents DEF StorePlaces, ChannelIds
    <3>1. Ids(Content(x)) \subseteq Held(q) /\ Ids(Content(y)) = BatchOf(s)
      BY <3>0 DEF Held
    <3> QED
      BY <3>1 DEF PlacedInv
  <2>3. ASSUME NEW s \in Slots, NEW t \in Slots, p = <<"batch", s>>, r = <<"batch", t>>
        PROVE  Ids(Content(p)) \cap Ids(Content(r)) = {}
    <3>1. s # t /\ Ids(Content(p)) = BatchOf(s) /\ Ids(Content(r)) = BatchOf(t)
      BY <1>2, <2>3, PlaceContents
    <3> QED
      BY <3>1 DEF PlacedInv
  <2>4. /\ \/ \E c \in Channels : p \in StorePlaces(c)
           \/ \E s \in Slots : p = <<"batch", s>>
        /\ \/ \E c \in Channels : r \in StorePlaces(c)
           \/ \E s \in Slots : r = <<"batch", s>>
    BY PlaceContents
  <2> QED
    BY <2>1, <2>2, <2>3, <2>4
<1> QED
  BY <1>1, <1>2 DEF EventInOnePlace, Distinct

\* The invariants hold in every behaviour.
LEMMA EventInv ==
  Spec => [](TypeInv /\ SlotInv /\ TurnInv /\ AccountInv /\ SteerInv /\ PlaceInv /\ LapseFreeInv)
<1>1. TypeInv /\ SlotInv /\ PlaceInv /\ [Next]_vars => PlaceInv'
  BY PlaceNext
<1> QED
  BY <1>1, TypeInit, TypeNext, SlotInit, SlotNext, TurnInit, TurnNext, AccountInit, AccountNext,
     SteerInit, SteerNext, PlaceInit, ContentInit, ContentNext, PTL DEF Spec

\* Every withheld event has a steer request or an ack that will release or remove it, whatever
\* becomes of the turn it was sent to.
THEOREM WithheldAnswered == Spec => []WithheldHasAck
<1>1. SteerInv => WithheldHasAck
  BY DEF SteerInv, WithheldInv, AskedFor, WithheldHasAck
<1> QED
  BY <1>1, EventInv, PTL

\* No accepted event outside a cancelled turn disappears silently: until it is delivered,
\* dead-lettered or dropped with a warning it is queued, withheld, or in a task's batch.
THEOREM NoSilentLoss == Spec => []UncancelledEventsAccounted
<1>1. TypeInv /\ AccountInv => UncancelledEventsAccounted
  BY LocatedEvents DEF AccountInv, UncancelledEventsAccounted
<1> QED
  BY <1>1, EventInv, PTL

\* Acks, cancels, requeues, crashes and lapsed deadlines make no second copy of an event, in the
\* same place or in another.
THEOREM OneCopy == Spec => []EventInOnePlace
<1>1. TypeInv /\ PlaceInv => EventInOnePlace
  BY ContentApart DEF PlaceInv
<1> QED
  BY <1>1, EventInv, PTL

\* While no in-flight deadline has passed, an event that was delivered, dead-lettered or dropped
\* is in no store and no batch: it is not delivered again.
THEOREM SettledStaysGone == Spec => []SettledEventsGone
<1>1. TypeInv /\ LapseFreeInv => SettledEventsGone
  <2> SUFFICES ASSUME TypeInv, ContentInv, NEW i \in EventIds, fate[i] \in {"delivered", "dead", "dropped"}
               PROVE  i \notin Located
    BY DEF SettledEventsGone, LapseFreeInv
  <2>1. fate[i] # "live"
    OBVIOUS
  <2> QED
    BY <2>1, LocatedEvents DEF ContentInv, LiveInv
<1> QED
  BY <1>1, EventInv, PTL

-----------------------------------------------------------------------------
(* The harness implements TurnScheduler until a deadline passes. *)

\* How the batch of an ended task is dealt with.
LEMMA EndingCases ==
  ASSUME TypeInv, NEW s \in Slots, HandleResult(s) \/ HandlePanic(s)
  PROVE  LET b == tasks[s].batch IN
         \/ \E v \in {"delivered", "dropped", "dead"} : EndBatch(b, v)
         \/ b \in Batch /\ StoreCancelled(b)
         \/ b \in Batch /\ RequeueFailed(b)
<1> DEFINE b == tasks[s].batch
<1>1. tasks[s] \in GoodTask
  BY PhaseIsTask DEF HandleResult, HandlePanic
<1>2. /\ b.ch \in Channels \cup {Heartbeat} /\ (b.ch # Heartbeat => b \in Batch)
      /\ tasks[s].returned => b \in Batch
  BY <1>1, GoodTaskFacts
<1>3. CASE HandleResult(s)
  BY <1>2, <1>3 DEF HandleResult, ResultBatch
<1>4. CASE HandlePanic(s)
  BY <1>2, <1>4 DEF HandlePanic
<1> QED
  BY <1>3, <1>4

\* What waits before and after a step.
LEMMA WaitingIds ==
  /\ Waiting = [c \in Channels |-> ChannelIds(q, c)]
  /\ Waiting' = [c \in Channels |-> ChannelIds(q', c)]
BY DEF Waiting, ChannelIds

\* Tasks that are kept are the same turns.
LEMMA TurnsSame ==
  ASSUME TasksKept
  PROVE  Turns' = Turns
<1>1. TaskSlots' = TaskSlots /\ TaskSlots \subseteq Slots
  BY DEF TasksKept, TaskSlots
<1>2. \A s \in TaskSlots : TurnOf(s)' = TurnOf(s)
  BY <1>1 DEF TasksKept, TurnOf, BatchIds, TaskSlots
<1> QED
  BY <1>1, <1>2 DEF Turns

\* The events that arrived, one step later.
LEMMA ArrivedNext ==
  ASSUME TypeInv, TypeInv', nextId' = nextId + 1
  PROVE  nextId \in EventIds /\ nextId \notin Arrived /\ Arrived' = Arrived \cup {nextId}
<1>1. nextId \in Nat /\ nextId >= 1 /\ nextId + 1 <= MaxEvents + 1 /\ MaxEvents \in Nat
  BY HarnessAssumption DEF TypeInv, TypeOK
<1> QED
  BY <1>1 DEF EventIds, Arrived

\* Nothing happens to the events.
LEMMA ScheduledSame ==
  ASSUME TypeInv, TypeInv', SameStores(q, q'), TasksKept, nextId' \in {nextId, nextId + 1}
  PROVE  [Scheduler!Next]_(Scheduler!vars)
<1>1. Turns' = Turns
  BY TurnsSame
<1>2. Waiting' = Waiting
  BY DEF Waiting, SameStores
<1>3. CASE nextId' = nextId
  BY <1>1, <1>2, <1>3 DEF Arrived, Scheduler!vars
<1>4. CASE nextId' = nextId + 1
  <2>1. nextId \in EventIds /\ nextId \notin Arrived /\ Arrived' = Arrived \cup {nextId}
    BY <1>4, ArrivedNext
  <2>2. Scheduler!Refuse(nextId)
    BY <1>1, <1>2, <2>1 DEF Scheduler!Refuse
  <2> QED
    BY <2>1, <2>2 DEF Scheduler!Next
<1> QED
  BY <1>3, <1>4

\* A channel loses events.
LEMMA ScheduledDrop ==
  ASSUME NEW c \in Channels, OnlyChannel(q, q', c), Once(q'), TasksKept, UNCHANGED nextId,
         \A i \in Held(q') : i \in Held(q)
  PROVE  [Scheduler!Next]_(Scheduler!vars)
<1>1. Turns' = Turns /\ Arrived' = Arrived
  BY TurnsSame DEF Arrived
<1> DEFINE kept == ChannelIds(q', c)
<1>2. PICK N : N = {}
  OBVIOUS
<1>3. /\ \A i \in kept : i \in ChannelIds(q, c) \/ i \in N
      /\ \A d \in Channels \ {c} : ChannelIds(q', d) = ChannelIds(q, d)
  BY <1>2, ChannelGains
<1>4. kept \in SUBSET Waiting[c] /\ Waiting' = [Waiting EXCEPT ![c] = kept]
  BY <1>2, <1>3, WaitingIds
<1>5. Scheduler!Drop(c)
  BY <1>1, <1>4 DEF Scheduler!Drop
<1> QED
  BY <1>5 DEF Scheduler!Next

\* A relay event is accepted.
LEMMA ScheduledPush ==
  ASSUME TypeInv, TypeInv', PlaceInv, PlaceInv', NEW c \in Channels, NEW at \in 1 .. MaxCreated,
         RelayEvent(c, at), PushAccepted(q, c)
  PROVE  [Scheduler!Next]_(Scheduler!vars)
<1> DEFINE e == NewEvent(at)
           kept == ChannelIds(q', c) \ {nextId}
<1>1. /\ nextId' = nextId + 1 /\ nextId \in Held(q')
      /\ \A i \in Held(q') : i \in Held(q) \/ i = nextId
  BY PushedEvents
<1>2. q \in BoundedQueue /\ e \in Event /\ e.id = nextId
  BY HarnessAssumption DEF TypeInv, TypeOK, NewEvent, Event
<1>3. OnlyChannel(q, q', c)
  <2>1. Push(q, c, e) \in BoundedQueue
    BY <1>2, PushBounded
  <2>2. PICK b : b = [ch |-> c]
    OBVIOUS
  <2>3. b.ch = c
    BY <2>2
  <2>4. OnlyChannel(q, Push(q, c, e), c)
        /\ OnlyChannel(Push(q, c, e), MarkNativeSteerPending(Push(q, c, e), c, e.id), c)
    BY <1>2, <2>1, <2>3, OpsOneChannel
  <2>5. OnlyChannel(q, MarkNativeSteerPending(Push(q, c, e), c, e.id), c)
    BY <2>4, OneChannelTwice
  <2>6. q' \in {Push(q, c, e), MarkNativeSteerPending(Push(q, c, e), c, e.id)}
    BY DEF RelayEvent, MidTurn, SteerAccepted
  <2> QED
    BY <2>4, <2>5, <2>6
<1>4. nextId \notin Held(q) /\ Once(q')
  <2>1. \A i \in Held(q) : i \in EventIds /\ i < nextId
    BY DEF PlaceInv, KnownInv, Somewhere
  <2>2. nextId \in Nat
    BY HarnessAssumption DEF TypeInv, TypeOK
  <2>3. Once(q') = Once(q)'
    BY DEF Once, OnceIn, ChannelIds
  <2> QED
    BY <2>1, <2>2, <2>3 DEF PlaceInv, PlacedInv
<1>5. /\ \A i \in ChannelIds(q', c) : i \in ChannelIds(q, c) \/ i = nextId
      /\ \A d \in Channels \ {c} : ChannelIds(q', d) = ChannelIds(q, d)
  <2>1. PICK N : N = {nextId}
    OBVIOUS
  <2>2. /\ \A i \in ChannelIds(q', c) : i \in ChannelIds(q, c) \/ i \in N
        /\ \A d \in Channels \ {c} : ChannelIds(q', d) = ChannelIds(q, d)
    BY <1>1, <1>3, <1>4, <2>1, ChannelGains
  <2> QED
    BY <2>1, <2>2
<1>6. nextId \in ChannelIds(q', c)
  <2>1. PICK d \in Channels : nextId \in ChannelIds(q', d)
    BY <1>1 DEF Held
  <2> QED
    BY <1>4, <1>5, <2>1 DEF Held
<1>7. ChannelIds(q', c) = kept \cup {nextId} /\ kept \in SUBSET ChannelIds(q, c)
  BY <1>5, <1>6
<1> HIDE DEF kept
<1>8. kept \in SUBSET Waiting[c] /\ Waiting' = [Waiting EXCEPT ![c] = kept \cup {nextId}]
  BY <1>5, <1>7, WaitingIds
<1>9. nextId \in EventIds /\ nextId \notin Arrived /\ Arrived' = Arrived \cup {nextId}
  BY <1>1, ArrivedNext
<1>10. Turns' = Turns
  BY InputsQuiet, TurnsSame DEF QuietStep
<1>11. Scheduler!Accept(nextId, c)
  BY <1>8, <1>9, <1>10 DEF Scheduler!Accept
<1> QED
  BY <1>9, <1>11 DEF Scheduler!Next

\* An agent gets a task.
LEMMA TurnBegins ==
  ASSUME TypeInv, SlotInv, NEW s \in Idle, NEW t \in GoodTask, tasks' = [tasks EXCEPT ![s] = t],
         TasksOn(t.batch.ch) = {}
  PROVE  /\ Turns' = Turns \cup {Scheduler!Turn(s, t.batch.ch, BatchIds(t.batch))}
         /\ Scheduler!Free(s, t.batch.ch)
<1>1. s \in Slots /\ tasks[s] = NoTask /\ t # NoTask
  BY GoodTaskFacts DEF Idle, SlotInv, SlotExclusive
<1>2. \A u \in Slots : tasks'[u] = IF u = s THEN t ELSE tasks[u]
  BY <1>1 DEF TypeInv
<1>3. TaskSlots' = TaskSlots \cup {s} /\ TaskSlots \subseteq Slots /\ s \notin TaskSlots
  BY <1>1, <1>2 DEF TaskSlots
<1>4. /\ \A u \in TaskSlots : TurnOf(u)' = TurnOf(u)
      /\ TurnOf(s)' = Scheduler!Turn(s, t.batch.ch, BatchIds(t.batch))
  BY <1>1, <1>2, <1>3 DEF TurnOf, BatchIds, Scheduler!Turn
<1>5. Turns' = Turns \cup {Scheduler!Turn(s, t.batch.ch, BatchIds(t.batch))}
  BY <1>3, <1>4 DEF Turns
<1>6. \A u \in TaskSlots : TurnOf(u).agent # s /\ TurnOf(u).ch # t.batch.ch
  BY <1>3 DEF TurnOf, TasksOn
<1>7. Scheduler!Free(s, t.batch.ch)
  BY <1>6 DEF Scheduler!Free, Turns
<1> QED
  BY <1>5, <1>7

\* A batch is handed to an agent.
LEMMA ScheduledStart ==
  ASSUME TypeInv, SlotInv, TurnInv, PlaceInv, lapses = 0, NEW r \in FlushNext(q), Idle # {}, q' = r.q,
         tasks' = [tasks EXCEPT ![Claim(r.batch.ch)] = NewTask(r.batch, "open")], UNCHANGED nextId
  PROVE  [Scheduler!Next]_(Scheduler!vars)
<1> DEFINE t == NewTask(r.batch, "open")
           s == Claim(r.batch.ch)
           c == r.batch.ch
           E == BatchIds(r.batch)
<1>1. q \in BoundedQueue /\ NoLapse(q) /\ Once(q) /\ ChannelTurns
  BY DEF TypeInv, TurnInv, ChannelTurns, PlaceInv, PlacedInv
<1>2. ExpireInFlight(q) = q /\ c \in Channels \ q.inFlight
  BY <1>1, ExpireIsIdle, FlushTurn
<1>3. /\ E # {} /\ OnlyChannel(q, q', c) /\ ChannelIds(q, c) = ChannelIds(q', c) \cup E
  BY <1>1, <1>2, FlushTakes
<1>4. E \cap Held(q') = {}
  BY <1>1, <1>2, FlushHeld
<1>5. t \in GoodTask /\ t.batch = r.batch /\ s \in Idle /\ s \in Slots
  BY <1>1, FlushBounded, NewTaskGood, ClaimIdle DEF NewTask, Idle
<1>6. TasksOn(c) = {} /\ tasks' = [tasks EXCEPT ![s] = t]
  BY <1>1, <1>2 DEF ChannelTurns
<1> HIDE DEF t, s, c, E
<1>7. Turns' = Turns \cup {Scheduler!Turn(s, c, E)} /\ Scheduler!Free(s, c)
  BY <1>5, <1>6, TurnBegins DEF c, E
<1>8. \A d \in Channels \ {c} : ChannelIds(q', d) = ChannelIds(q, d)
  BY <1>3 DEF OnlyChannel, ChannelIds
<1>9. ChannelIds(q', c) = ChannelIds(q, c) \ E /\ E \in SUBSET ChannelIds(q, c)
  <2>1. ChannelIds(q', c) \subseteq Held(q')
    BY <1>2 DEF Held
  <2> QED
    BY <1>3, <1>4, <2>1
<1>10. E \in (SUBSET Waiting[c]) \ {{}} /\ Waiting' = [Waiting EXCEPT ![c] = @ \ E]
  <2>1. c \in Channels /\ Waiting[c] = ChannelIds(q, c)
    BY <1>2, WaitingIds DEF c
  <2>2. E \in (SUBSET Waiting[c]) \ {{}}
    BY <1>3, <1>9, <2>1
  <2>3. \A d \in Channels : Waiting'[d] = IF d = c THEN Waiting[c] \ E ELSE Waiting[d]
    <3>1. \A d \in Channels : Waiting'[d] = ChannelIds(q', d) /\ Waiting[d] = ChannelIds(q, d)
      BY WaitingIds
    <3> QED
      BY <1>8, <1>9, <2>1, <3>1
  <2>4. Waiting' = [d \in Channels |-> Waiting'[d]] /\ Waiting = [d \in Channels |-> Waiting[d]]
    BY WaitingIds
  <2>5. Waiting' = [Waiting EXCEPT ![c] = @ \ E]
    BY <2>1, <2>3, <2>4
  <2> QED
    BY <2>2, <2>5
<1>11. Arrived' = Arrived
  BY DEF Arrived
<1>12. Scheduler!Start(s, c)
  BY <1>7, <1>10, <1>11 DEF Scheduler!Start
<1> QED
  BY <1>2, <1>5, <1>12 DEF Scheduler!Next

\* dispatch_pending: a turn starts, or what was taken goes back.
LEMMA ScheduledDispatch ==
  ASSUME TypeInv, TypeInv', SlotInv, TurnInv, PlaceInv, PlaceInv', lapses = 0, DispatchStep
  PROVE  [Scheduler!Next]_(Scheduler!vars)
<1>1. UNCHANGED nextId /\ q \in BoundedQueue /\ NoLapse(q) /\ Once(q)
  BY DEF DispatchStep, TypeInv, TurnInv, ChannelTurns, PlaceInv, PlacedInv
<1>2. ExpireInFlight(q) = q
  BY <1>1, ExpireIsIdle
<1>3. CASE q' = ExpireInFlight(q) /\ UNCHANGED tasks
  <2>1. SameStores(q, q') /\ TasksKept
    BY <1>2, <1>3 DEF SameStores, TasksKept
  <2> QED
    BY <1>1, <2>1, ScheduledSame
<1>4. ASSUME NEW r \in FlushNext(q), UNCHANGED tasks,
             q' = MarkComplete(RequeuePreserve(r.q, r.batch), r.batch.ch),
             fate' = Settle(fate, ExpiryTrims(q) \cup RequeueTrims(r.q, r.batch), "dropped")
      PROVE  [Scheduler!Next]_(Scheduler!vars)
  <2> DEFINE b == r.batch
             c == r.batch.ch
             y == RequeuePreserve(r.q, b)
  <2>1. r.q \in BoundedQueue /\ b \in Batch /\ c \in Channels /\ OnlyChannel(q, r.q, c)
    BY <1>1, <1>2, FlushBounded, FlushTakes
  <2>2. y \in BoundedQueue
    BY <2>1, RequeueBounded
  <2>3. OnlyChannel(r.q, y, c) /\ OnlyChannel(y, q', c)
    BY <1>4, <2>1, <2>2, OpsOneChannel
  <2> HIDE DEF y, c, b
  <2>4. OnlyChannel(r.q, q', c)
    BY <2>3, OneChannelTwice
  <2>5. OnlyChannel(q, q', c)
    BY <2>1, <2>4, OneChannelTwice
  <2>6. \A i \in Held(q') : i \in Held(q)
    BY <1>1, <1>4, BouncedEvents
  <2>7. TasksKept
    BY <1>4 DEF TasksKept
  <2>8. Once(q')
    <3>1. Once(q') = Once(q)'
      BY DEF Once, OnceIn, ChannelIds
    <3> QED
      BY <3>1 DEF PlaceInv, PlacedInv
  <2> QED
    BY <1>1, <2>1, <2>5, <2>6, <2>7, <2>8, ScheduledDrop
<1> QED
  BY <1>1, <1>3, <1>4, ScheduledStart DEF DispatchStep

\* Maintenance and the heartbeat tick: nothing happens to the events, a heartbeat turn may start.
LEMMA ScheduledExpiry ==
  ASSUME TypeInv, TypeInv', SlotInv, TurnInv, lapses = 0, Maintenance \/ HeartbeatTick
  PROVE  [Scheduler!Next]_(Scheduler!vars)
<1>1. SameStores(q, q') /\ UNCHANGED nextId
  <2>1. NoLapse(q)
    BY DEF TurnInv, ChannelTurns
  <2>2. SameStores(q, q')
    BY <2>1, ExpiryEvents
  <2> QED
    BY <2>2 DEF Maintenance, HeartbeatTick
<1>2. CASE UNCHANGED tasks
  <2>1. TasksKept
    BY <1>2 DEF TasksKept
  <2> QED
    BY <1>1, <2>1, ScheduledSame
<1>3. CASE ~UNCHANGED tasks
  <2> DEFINE b == [ch |-> Heartbeat, events |-> <<>>, cancelled |-> <<>>, reason |-> "none"]
             t == NewTask(b, "none")
             s == FirstOf(Idle)
  <2>1. t \in GoodTask /\ t.batch = b
    BY HeartbeatTaskGood DEF NewTask
  <2>2. Idle # {} /\ ~hbInFlight /\ tasks' = [tasks EXCEPT ![s] = t]
    BY <1>3 DEF Maintenance, HeartbeatTick
  <2>3. s \in Idle /\ s \in Slots
    BY <2>2, FirstOfMember DEF Idle
  <2>4. t.batch.ch = Heartbeat /\ BatchIds(t.batch) = {}
    BY <2>1, EmptyIds DEF BatchIds
  <2>5. TasksOn(Heartbeat) = {}
    BY <2>2 DEF TurnInv, HeartbeatTurns
  <2> HIDE DEF t, s
  <2>6. Turns' = Turns \cup {Scheduler!Turn(s, Heartbeat, {})} /\ Scheduler!Free(s, Heartbeat)
    BY <2>1, <2>2, <2>3, <2>4, <2>5, TurnBegins
  <2>7. Waiting' = Waiting /\ Arrived' = Arrived
    BY <1>1 DEF Waiting, SameStores, Arrived
  <2>8. Scheduler!Beat(s)
    BY <2>6, <2>7 DEF Scheduler!Beat
  <2> QED
    BY <2>3, <2>8 DEF Scheduler!Next
<1> QED
  BY <1>2, <1>3

\* The end of a task takes its turn away.
LEMMA TurnIsOver ==
  ASSUME TypeInv, NEW s \in Slots, tasks[s] # NoTask, tasks' = [tasks EXCEPT ![s] = NoTask]
  PROVE  TurnOf(s) \in Turns /\ Turns' = Turns \ {TurnOf(s)}
<1>1. \A u \in Slots : tasks'[u] = IF u = s THEN NoTask ELSE tasks[u]
  BY DEF TypeInv
<1>2. TaskSlots' = TaskSlots \ {s} /\ s \in TaskSlots /\ TaskSlots \subseteq Slots
  BY <1>1 DEF TaskSlots
<1>3. \A u \in TaskSlots \ {s} : TurnOf(u)' = TurnOf(u) /\ TurnOf(u) # TurnOf(s)
  <2>1. \A u \in TaskSlots \ {s} : TurnOf(u)' = TurnOf(u)
    BY <1>1, <1>2 DEF TurnOf, BatchIds
  <2>2. \A u \in TaskSlots : TurnOf(u).agent = u
    BY DEF TurnOf
  <2> QED
    BY <1>2, <2>1, <2>2
<1>4. Turns = {TurnOf(u) : u \in TaskSlots} /\ Turns' = {TurnOf(u)' : u \in TaskSlots'}
  BY DEF Turns
<1>5. TurnOf(s) \in Turns
  BY <1>2, <1>4
<1>6. Turns' = {TurnOf(u) : u \in TaskSlots \ {s}}
  BY <1>2, <1>3, <1>4
<1> QED
  BY <1>2, <1>3, <1>4, <1>5, <1>6

\* A turn is over: events of its batch go back to its channel, and to no other.
LEMMA ScheduledEnd ==
  ASSUME TypeInv, PlaceInv, PlaceInv', NEW s \in Slots, HandleResult(s) \/ HandlePanic(s)
  PROVE  [Scheduler!Next]_(Scheduler!vars)
<1> DEFINE b == tasks[s].batch
           c == tasks[s].batch.ch
           u == TurnOf(s)
<1>1. /\ tasks[s] \in GoodTask /\ tasks' = [tasks EXCEPT ![s] = NoTask] /\ UNCHANGED nextId
      /\ \A i \in Held(q') : i \in Held(q) \/ i \in BatchIds(b)
  BY EndedEvents
<1>2. tasks[s] # NoTask /\ c \in Channels \cup {Heartbeat} /\ (c \in Channels => b \in Batch)
  BY <1>1, GoodTaskFacts
<1>3. u \in Turns /\ Turns' = Turns \ {u} /\ Arrived' = Arrived
  BY <1>1, <1>2, TurnIsOver DEF Arrived
<1>4. u.ch = c /\ u.events = BatchIds(b)
  BY DEF TurnOf
<1>5. \/ \E v \in {"delivered", "dropped", "dead"} : EndBatch(b, v)
      \/ b \in Batch /\ StoreCancelled(b)
      \/ b \in Batch /\ RequeueFailed(b)
  BY EndingCases
<1>6. CASE c \in Channels
  <2>1. q \in BoundedQueue /\ b \in Batch /\ c # Heartbeat
    BY <1>2, <1>6, HeartbeatAssumption DEF TypeInv
  <2>2. PICK a \in {q, Requeue(q, b), RequeueAsCancelled(q, b)} : q' = MarkComplete(a, c)
    BY <1>5, <2>1 DEF EndBatch, StoreCancelled, RequeueFailed, MarkTaskComplete
  <2>3. a \in BoundedQueue
    BY <2>1, <2>2, RequeueBounded, RequeueAsCancelledBounded
  <2>4. OnlyChannel(q, a, c)
    <3>1. OnlyChannel(q, q, c)
      BY DEF OnlyChannel
    <3> QED
      BY <1>6, <2>1, <2>2, <3>1, OpsOneChannel
  <2>5. OnlyChannel(a, q', c)
    BY <1>6, <2>2, <2>3, OpsOneChannel
  <2>6. Once(q')
    <3>1. Once(q') = Once(q)'
      BY DEF Once, OnceIn, ChannelIds
    <3> QED
      BY <3>1 DEF PlaceInv, PlacedInv
  <2> DEFINE kept == ChannelIds(q', c)
             N == BatchIds(b)
  <2> HIDE DEF b, c, u, N
  <2>7. OnlyChannel(q, q', c)
    BY <2>4, <2>5, OneChannelTwice
  <2>8. /\ \A i \in kept : i \in ChannelIds(q, c) \/ i \in N
        /\ \A d \in Channels \ {c} : ChannelIds(q', d) = ChannelIds(q, d)
    BY <1>1, <1>6, <2>6, <2>7, ChannelGains DEF N
  <2>9. kept \in SUBSET (Waiting[c] \cup u.events) /\ Waiting' = [Waiting EXCEPT ![c] = kept]
    BY <1>4, <1>6, <2>8, WaitingIds DEF N
  <2>10. Scheduler!End(u, c)
    BY <1>3, <1>4, <2>9 DEF Scheduler!End
  <2> QED
    BY <1>3, <1>6, <2>10 DEF Scheduler!Next
<1>7. CASE c = Heartbeat
  <2>1. b \notin Batch
    BY <1>7, HeartbeatAssumption DEF Batch
  <2>2. q' = q
    BY <1>5, <1>7, <2>1 DEF EndBatch, MarkTaskComplete
  <2>3. Waiting' = Waiting
    BY <2>2 DEF Waiting
  <2>4. Scheduler!BeatEnds(u)
    BY <1>3, <1>4, <1>7, <2>3 DEF Scheduler!BeatEnds
  <2> QED
    BY <1>3, <2>4 DEF Scheduler!Next
<1> QED
  BY <1>2, <1>6, <1>7

\* A removal and a steer ack take events out of one channel.
LEMMA ScheduledInputs ==
  ASSUME TypeInv, PlaceInv, PlaceInv',
         (\E c \in Channels : MemberRemoved(c)) \/ (\E a \in acks : HandleAck(a))
  PROVE  [Scheduler!Next]_(Scheduler!vars)
<1>1. q \in BoundedQueue /\ Once(q')
  <2>1. Once(q') = Once(q)'
    BY DEF Once, OnceIn, ChannelIds
  <2> QED
    BY <2>1 DEF PlaceInv, PlacedInv, TypeInv
<1>2. ASSUME NEW c \in Channels
      PROVE  \E b : b.ch = c
  <2>1. [ch |-> c].ch = c
    OBVIOUS
  <2> QED
    BY <2>1
<1>3. ASSUME NEW c \in Channels, MemberRemoved(c)
      PROVE  [Scheduler!Next]_(Scheduler!vars)
  <2>1. PICK b : b.ch = c
    BY <1>2
  <2>2. q' = DrainChannel(q, c) /\ UNCHANGED nextId
    BY <1>3 DEF MemberRemoved
  <2>3. OnlyChannel(q, q', c)
    BY <1>1, <2>1, <2>2, OpsOneChannel
  <2>4. \A i \in Held(q') : i \in Held(q)
    BY <1>3, DrainedEvents
  <2>5. TasksKept
    BY <1>3, InputsQuiet DEF QuietStep
  <2> QED
    BY <1>1, <2>2, <2>3, <2>4, <2>5, ScheduledDrop
<1>4. ASSUME NEW a \in acks, HandleAck(a)
      PROVE  [Scheduler!Next]_(Scheduler!vars)
  <2> DEFINE c == a.ch
             x == ExtendDeadline(q, c)
  <2>1. c \in Channels /\ \A i \in Held(q') : i \in Held(q)
    BY <1>4, AnsweredEvents
  <2>2. PICK b : b.ch = c
    BY <1>2, <2>1
  <2>3. x \in BoundedQueue
    BY <1>1, <2>1, ExtendBounded
  <2>4. OnlyChannel(q, x, c) /\ OnlyChannel(q, ReleaseNativeSteer(q, c, a.id), c)
    BY <1>1, <2>1, <2>2, OpsOneChannel
  <2>5. OnlyChannel(x, RemoveEvent(x, c, a.id), c)
    BY <2>1, <2>2, <2>3, OpsOneChannel
  <2>6. OnlyChannel(q, RemoveEvent(x, c, a.id), c)
    BY <2>4, <2>5, OneChannelTwice
  <2>7. UNCHANGED nextId /\ q' \in {RemoveEvent(x, c, a.id), ReleaseNativeSteer(q, c, a.id)}
    BY <1>4 DEF HandleAck
  <2>8. TasksKept
    BY <1>4, AckQuiet DEF QuietStep
  <2> HIDE DEF c, x
  <2>9. OnlyChannel(q, q', c)
    BY <2>4, <2>6, <2>7
  <2> QED
    BY <1>1, <2>1, <2>7, <2>8, <2>9, ScheduledDrop
<1> QED
  BY <1>3, <1>4

\* Every step before a deadline passes is a step of the scheduler, or none of its business.
LEMMA ScheduledNext ==
  ASSUME TypeInv, TypeInv', SlotInv, TurnInv, PlaceInv, PlaceInv', [Next]_vars, lapses' = 0
  PROVE  [Scheduler!Next]_(Scheduler!vars)
<1>1. lapses = 0
  BY LapsesGrow
<1>2. CASE Maintenance \/ HeartbeatTick
  BY <1>1, <1>2, ScheduledExpiry
<1>3. CASE DispatchStep
  BY <1>1, <1>3, ScheduledDispatch
<1>4. CASE \E c \in Channels, at \in 1 .. MaxCreated : RelayEvent(c, at) /\ PushAccepted(q, c)
  BY <1>4, ScheduledPush
<1>5. CASE (\E c \in Channels : MemberRemoved(c)) \/ (\E a \in acks : HandleAck(a))
  BY <1>5, ScheduledInputs
<1>6. CASE \E s \in Slots : HandleResult(s) \/ HandlePanic(s)
  BY <1>6, ScheduledEnd
<1>7. CASE SameStores(q, q') /\ TasksKept /\ nextId' \in {nextId, nextId + 1}
  BY <1>7, ScheduledSame
<1> QED
  BY <1>2, <1>3, <1>4, <1>5, <1>6, <1>7, EventCases

\* At the start nothing has arrived and nothing waits or runs.
LEMMA ScheduledInit == Init => Scheduler!Init
<1> SUFFICES ASSUME Init PROVE Scheduler!Init
  OBVIOUS
<1>1. nextId = 1 /\ TaskSlots = {}
  BY DEF Init, TaskSlots
<1>2. \A c \in Channels : q.queues[c] = <<>> /\ q.withheld[c] = <<>> /\ q.cancelled[c] = <<>>
  BY DEF Init, NewQueue
<1>3. Arrived = {} /\ Turns = {}
  BY <1>1 DEF Arrived, Turns
<1>4. Waiting = [c \in Channels |-> {}]
  BY <1>2, EmptyIds DEF Waiting
<1> QED
  BY <1>3, <1>4 DEF Scheduler!Init

\* The harness implements TurnScheduler as long as no in-flight deadline has passed.
THEOREM TurnsScheduled == Spec => TurnsUntilLapse
<1>1. Init => Scheduler!Init
  BY ScheduledInit
<1>2. TypeInv /\ SlotInv /\ TurnInv /\ PlaceInv /\ TypeInv' /\ PlaceInv' /\ [Next]_vars
        => [lapses' = 0 => Scheduler!Next]_(Scheduler!vars)
  BY ScheduledNext
<1> QED
  BY <1>1, <1>2, EventInv, PTL DEF Spec, TurnsUntilLapse

\* Where turns never outlive their deadline the harness implements TurnScheduler without
\* qualification.
THEOREM PunctualTurnsScheduled ==
  ASSUME MaxLapses = 0
  PROVE  Spec => Scheduler!Spec
<1>1. Init => Scheduler!Init
  BY ScheduledInit
<1>2. TypeInv' => lapses' = 0
  BY HarnessAssumption DEF TypeInv, TypeOK
<1>3. TypeInv /\ SlotInv /\ TurnInv /\ PlaceInv /\ TypeInv' /\ PlaceInv' /\ [Next]_vars
        => [Scheduler!Next]_(Scheduler!vars)
  BY <1>2, ScheduledNext
<1> QED
  BY <1>1, <1>3, EventInv, PTL DEF Spec, Scheduler!Spec

\* The places of an event, as the properties and as the proofs name them.
LocatedHere == \A i : i \in Located <=> Somewhere(i)

\* An event that has left the stores and the batches never comes back, lapsed deadlines
\* included: nothing is delivered again once it is gone.
THEOREM NoneReturns ==
  Spec => [][\A i \in 1 .. nextId - 1 : i \notin Located => i \notin Located']_vars
<1>1. TypeInv => LocatedHere
  BY LocatedEvents DEF LocatedHere, Somewhere
<1>2. TypeInv' => LocatedHere'
  BY <1>1, PTL
<1>3. ASSUME TypeInv, TypeInv', SlotInv, PlaceInv, [Next]_vars
      PROVE  \A i \in 1 .. nextId - 1 : i \notin Located => i \notin Located'
  <2>1. NoneBack
    BY <1>3, PlaceNext
  <2>2. \A i \in 1 .. nextId - 1 : ~Arrives(i)
    BY <1>3, HarnessAssumption DEF TypeInv, TypeOK, Arrives
  <2> QED
    BY <1>1, <1>2, <1>3, <2>1, <2>2 DEF NoneBack, LocatedHere
<1> QED
  BY <1>3, EventInv, PTL DEF Spec

-----------------------------------------------------------------------------
(* The events of cancelled turns are lost by the steps that put a merged batch back, only. *)

\* No agent is free for a batch that carries events of an earlier cancelled turn.
BouncesMerged ==
  /\ DispatchStep /\ Idle = {}
  /\ \E r \in FlushNext(q) : /\ r.batch.cancelled # <<>>
                             /\ q' = MarkComplete(RequeuePreserve(r.q, r.batch), r.batch.ch)

\* The turn of slot s had such a batch, and is tried again.
RetriesMerged(s) ==
  /\ HandleResult(s) \/ HandlePanic(s)
  /\ tasks[s].batch.cancelled # <<>> /\ Retried(tasks[s].batch)

\* requeue or requeue_preserve_timestamps is given a batch that carries cancelled events.
PutsBackMerged == BouncesMerged \/ \E s \in Slots : RetriesMerged(s)

\* Every live event, cancelled or not, is in a store or in a batch.
SurviveInv == \A i \in EventIds : fate[i] = "live" => Somewhere(i)

\* What a step must do.
LEMMA SurviveStep ==
  ASSUME SurviveInv, NEW T,
         \A i \in EventIds : fate'[i] = "live" => (fate[i] = "live" /\ i \notin T) \/ i \in Held(q'),
         \A i \in Held(q) : i \in Held(q') \/ i \in T \/ \E s \in Slots : i \in BatchOf(s)',
         \A s \in Slots : \A i \in BatchOf(s) :
           i \in Held(q') \/ i \in T \/ \E t \in Slots : i \in BatchOf(t)'
  PROVE  SurviveInv'
<1>1. \A i \in EventIds : fate'[i] = "live" => i \in Held(q') \/ \E s \in Slots : i \in BatchOf(s)'
  BY DEF SurviveInv, Somewhere
<1>2. Held(q)' = Held(q')
  BY DEF Held, ChannelIds
<1> QED
  BY <1>1, <1>2 DEF SurviveInv, Somewhere

\* A step that keeps the tasks.
LEMMA SurviveKept ==
  ASSUME SurviveInv, TasksKept, NEW T,
         \A i \in EventIds : fate'[i] = "live" => (fate[i] = "live" /\ i \notin T) \/ i \in Held(q'),
         \A i \in Held(q) : i \in Held(q') \/ i \in T
  PROVE  SurviveInv'
<1>1. \A s \in Slots : BatchOf(s)' = BatchOf(s)
  BY BatchesKept
<1> QED
  BY <1>1, SurviveStep

\* A step that hands an idle agent a batch.
LEMMA SurviveTaken ==
  ASSUME TypeInv, SlotInv, SurviveInv, NEW T, NEW s \in Idle, NEW t \in GoodTask,
         tasks' = [tasks EXCEPT ![s] = t], Dies(T),
         \A i \in Held(q) : i \in Held(q') \/ i \in BatchIds(t.batch) \/ i \in T
  PROVE  SurviveInv'
<1>1. s \in Slots /\ tasks[s] = NoTask /\ t # NoTask
  BY GoodTaskFacts DEF Idle, SlotInv, SlotExclusive
<1>2. \A u \in Slots : tasks'[u] = IF u = s THEN t ELSE tasks[u]
  BY <1>1 DEF TypeInv
<1>3. /\ BatchOf(s) = {} /\ BatchOf(s)' = BatchIds(t.batch)
      /\ \A u \in Slots \ {s} : BatchOf(u)' = BatchOf(u)
  BY <1>1, <1>2 DEF BatchOf, BatchIds
<1>4. \A i \in EventIds : fate'[i] = "live" => (fate[i] = "live" /\ i \notin T) \/ i \in Held(q')
  BY DEF Dies
<1>5. \A i \in Held(q) : i \in Held(q') \/ i \in T \/ \E u \in Slots : i \in BatchOf(u)'
  BY <1>1, <1>3
<1>6. \A u \in Slots : \A i \in BatchOf(u) :
        i \in Held(q') \/ i \in T \/ \E w \in Slots : i \in BatchOf(w)'
  BY <1>3
<1> QED
  BY <1>4, <1>5, <1>6, SurviveStep

\* A step that ends a task.
LEMMA SurviveEnded ==
  ASSUME TypeInv, SurviveInv, NEW s \in Slots, HandleResult(s) \/ HandlePanic(s), ~RetriesMerged(s)
  PROVE  SurviveInv'
<1> DEFINE b == tasks[s].batch
<1>1. tasks[s] \in GoodTask /\ tasks' = [tasks EXCEPT ![s] = NoTask]
  BY EndedEvents
<1>2. PICK T : /\ Dies(T)
               /\ \A i \in Held(q) \cup Ids(b.events) : i \in Held(q') \/ i \in T
               /\ \A i \in Ids(b.cancelled) : i \in Held(q') \/ i \in T \/ Retried(b)
  BY EndedEvents
<1>3. b.cancelled = <<>> \/ ~Retried(b)
  BY DEF RetriesMerged
<1>4. tasks[s] # NoTask /\ BatchOf(s) = Ids(b.events) \cup Ids(b.cancelled)
  BY <1>1, GoodTaskFacts DEF BatchOf, BatchIds
<1>5. \A u \in Slots : tasks'[u] = IF u = s THEN NoTask ELSE tasks[u]
  BY <1>1 DEF TypeInv
<1>6. \A u \in Slots \ {s} : BatchOf(u)' = BatchOf(u)
  BY <1>5 DEF BatchOf, BatchIds
<1>7. \A i \in EventIds : fate'[i] = "live" => (fate[i] = "live" /\ i \notin T) \/ i \in Held(q')
  BY <1>2 DEF Dies
<1> HIDE DEF b
<1>8. \A i \in Ids(b.cancelled) : i \in Held(q') \/ i \in T
  BY <1>2, <1>3, EmptyIds
<1>9. \A u \in Slots : \A i \in BatchOf(u) :
        i \in Held(q') \/ i \in T \/ \E w \in Slots : i \in BatchOf(w)'
  BY <1>2, <1>4, <1>6, <1>8
<1> QED
  BY <1>2, <1>7, <1>9, SurviveStep

\* dispatch_pending, unless it puts back a merged batch.
LEMMA SurviveDispatch ==
  ASSUME TypeInv, SlotInv, SurviveInv, DispatchStep, ~BouncesMerged
  PROVE  SurviveInv'
<1>1. ASSUME NEW r \in FlushNext(q), Idle # {}, q' = r.q,
             tasks' = [tasks EXCEPT ![Claim(r.batch.ch)] = NewTask(r.batch, "open")],
             fate' = Settle(fate, ExpiryTrims(q), "dropped")
      PROVE  SurviveInv'
  <2> DEFINE t == NewTask(r.batch, "open")
             s == Claim(r.batch.ch)
  <2>1. /\ t \in GoodTask
        /\ \E T : /\ Dies(T)
                  /\ \A i \in Held(q) : i \in Held(q') \/ i \in BatchIds(r.batch) \/ i \in T
    BY <1>1, DispatchedEvents
  <2>2. t.batch = r.batch
    BY DEF NewTask
  <2>3. s \in Idle
    BY <1>1, ClaimIdle
  <2>4. tasks' = [tasks EXCEPT ![s] = t]
    BY <1>1
  <2> HIDE DEF t, s
  <2>5. PICK T : Dies(T) /\ \A i \in Held(q) : i \in Held(q') \/ i \in BatchIds(t.batch) \/ i \in T
    BY <2>1, <2>2
  <2> QED
    BY <2>1, <2>3, <2>4, <2>5, SurviveTaken
<1>2. ASSUME UNCHANGED tasks, NEW T, Dies(T), \A i \in Held(q) : i \in Held(q') \/ i \in T
      PROVE  SurviveInv'
  <2>1. TasksKept
    BY <1>2 DEF TasksKept
  <2>2. \A i \in EventIds : fate'[i] = "live" => (fate[i] = "live" /\ i \notin T) \/ i \in Held(q')
    BY <1>2 DEF Dies
  <2> QED
    BY <1>2, <2>1, <2>2, SurviveKept
<1>3. ASSUME UNCHANGED tasks, q' = ExpireInFlight(q), fate' = Settle(fate, ExpiryTrims(q), "dropped")
      PROVE  SurviveInv'
  <2>1. \A i \in Held(q) : i \in Held(q') \/ i \in ExpiryTrims(q)
    BY <1>3, ExpireHeld DEF TypeInv
  <2>2. Dies(ExpiryTrims(q))
    BY <1>3, SettleDies
  <2> QED
    BY <1>2, <1>3, <2>1, <2>2
<1>4. ASSUME UNCHANGED tasks, Idle = {}, NEW r \in FlushNext(q),
             q' = MarkComplete(RequeuePreserve(r.q, r.batch), r.batch.ch),
             fate' = Settle(fate, ExpiryTrims(q) \cup RequeueTrims(r.q, r.batch), "dropped")
      PROVE  SurviveInv'
  <2>1. PICK T, L : /\ Dies(T)
                    /\ \A i \in Held(q) : i \in Held(q') \/ i \in T \/ i \in L
                    /\ \A i \in L : MergedBounces(i)
    BY <1>4, BouncedEvents
  <2>2. \A i \in L : FALSE
    BY <1>4, <2>1, EmptyIds DEF MergedBounces, BouncesMerged
  <2> QED
    BY <1>2, <1>4, <2>1, <2>2
<1> QED
  BY <1>1, <1>3, <1>4 DEF DispatchStep

\* Maintenance and the heartbeat tick, which hands out a task without events.
LEMMA SurviveExpiry ==
  ASSUME TypeInv, SlotInv, SurviveInv, Maintenance \/ HeartbeatTick
  PROVE  SurviveInv'
<1>1. PICK T : Dies(T) /\ \A i \in Held(q) : i \in Held(q') \/ i \in T
  BY ExpiryEvents
<1>2. CASE UNCHANGED tasks
  <2>1. TasksKept
    BY <1>2 DEF TasksKept
  <2>2. \A i \in EventIds : fate'[i] = "live" => (fate[i] = "live" /\ i \notin T) \/ i \in Held(q')
    BY <1>1 DEF Dies
  <2> QED
    BY <1>1, <2>1, <2>2, SurviveKept
<1>3. CASE ~UNCHANGED tasks
  <2> DEFINE b == [ch |-> Heartbeat, events |-> <<>>, cancelled |-> <<>>, reason |-> "none"]
             t == NewTask(b, "none")
             s == FirstOf(Idle)
  <2>1. t \in GoodTask
    BY HeartbeatTaskGood
  <2>2. Idle # {} /\ tasks' = [tasks EXCEPT ![s] = t]
    BY <1>3 DEF Maintenance, HeartbeatTick
  <2>3. s \in Idle
    BY <2>2, FirstOfMember DEF Idle
  <2> HIDE DEF t, s
  <2> QED
    BY <1>1, <2>1, <2>2, <2>3, SurviveTaken
<1> QED
  BY <1>2, <1>3

\* The survival of live events is inductive over the steps that put no merged batch back.
LEMMA SurviveNext ==
  ASSUME TypeInv, SlotInv, SurviveInv, [Next]_vars, [~PutsBackMerged]_vars
  PROVE  SurviveInv'
<1>1. ASSUME NEW c \in Channels, NEW at \in 1 .. MaxCreated, RelayEvent(c, at), PushAccepted(q, c)
      PROVE  SurviveInv'
  <2> DEFINE T == PushEvicts(q, c)
  <2>1. /\ \A i \in EventIds : fate'[i] = "live" <=> i = nextId \/ (fate[i] = "live" /\ i \notin T)
        /\ \A i \in Held(q) : i \in Held(q') \/ i \in T
        /\ nextId \in Held(q')
    BY <1>1, PushedEvents
  <2>2. TasksKept
    BY <1>1, InputsQuiet DEF QuietStep
  <2> HIDE DEF T
  <2> QED
    BY <2>1, <2>2, SurviveKept
<1>2. ASSUME NEW T, Dies(T), TasksKept, \A i \in Held(q) : i \in Held(q') \/ i \in T PROVE SurviveInv'
  <2>1. \A i \in EventIds : fate'[i] = "live" => (fate[i] = "live" /\ i \notin T) \/ i \in Held(q')
    BY <1>2 DEF Dies
  <2> QED
    BY <1>2, <2>1, SurviveKept
<1>3. ASSUME NEW c \in Channels, MemberRemoved(c) PROVE SurviveInv'
  <2>1. Dies(ChannelIds(q, c)) /\ \A i \in Held(q) : i \in Held(q') \/ i \in ChannelIds(q, c)
    BY <1>3, DrainedEvents
  <2>2. TasksKept
    BY <1>3, InputsQuiet DEF QuietStep
  <2> QED
    BY <1>2, <2>1, <2>2
<1>4. ASSUME NEW a \in acks, HandleAck(a) PROVE SurviveInv'
  <2>1. PICK T : Dies(T) /\ \A i \in Held(q) : i \in Held(q') \/ i \in T
    BY <1>4, AnsweredEvents
  <2>2. TasksKept
    BY <1>4, AckQuiet DEF QuietStep
  <2> QED
    BY <1>2, <2>1, <2>2
<1>5. ASSUME SameStores(q, q'), UNCHANGED fate, TasksKept PROVE SurviveInv'
  <2>1. Held(q') = Held(q) /\ Dies({})
    BY <1>5, SameHeld, NobodyDies
  <2> QED
    BY <1>2, <1>5, <2>1
<1>6. CASE UNCHANGED vars
  BY <1>5, <1>6 DEF vars, SameStores, TasksKept
<1>7. CASE ~PutsBackMerged
  <2>1. DispatchStep => SurviveInv'
    BY <1>7, SurviveDispatch DEF PutsBackMerged
  <2>2. (\E s \in Slots : HandleResult(s) \/ HandlePanic(s)) => SurviveInv'
    BY <1>7, SurviveEnded DEF PutsBackMerged
  <2>3. Maintenance \/ HeartbeatTick => SurviveInv'
    BY SurviveExpiry
  <2> QED
    BY <1>1, <1>3, <1>4, <1>5, <2>1, <2>2, <2>3, EventCases
<1> QED
  BY <1>6, <1>7

\* The events of a cancelled turn are lost by one kind of step only: requeue or
\* requeue_preserve_timestamps putting back a batch that carries them.  Without such a step
\* every one of them is stored or in a batch until it meets its fate, whatever cancels,
\* crashes, failed turns, evictions and lapsed deadlines there are.
THEOREM OnlyPutBacksLose == Spec /\ [][~PutsBackMerged]_vars => []CancelledEventsSurvive
<1>1. Init => SurviveInv
  BY DEF Init, SurviveInv
<1>2. TypeInv /\ SlotInv /\ SurviveInv /\ [Next]_vars /\ [~PutsBackMerged]_vars => SurviveInv'
  BY SurviveNext
<1>3. TypeInv /\ SurviveInv => CancelledEventsSurvive
  BY LocatedEvents DEF SurviveInv, Somewhere, CancelledEventsSurvive
<1> QED
  BY <1>1, <1>2, <1>3, EventInv, PTL DEF Spec
=============================================================================
