-------------------------- MODULE AcpHarnessProofs --------------------------
(***************************************************************************)
(* Proofs about the agent harness: type correctness, the queue cap, and    *)
(* the exclusivity of agent slots.                                         *)
(***************************************************************************)
EXTENDS AcpHarness, EventQueueProofs

-----------------------------------------------------------------------------
(* Types *)

\* A heartbeat task is never signalled, steered or requeued: its fields stay initial.
GoodTask ==
  {t \in Task : t.batch.ch = Heartbeat =>
      t.ctl = "none" /\ ~t.returned /\ t.buf = NoEvent /\ t.pend = NoEvent}

TypeInv ==
  /\ TypeOK
  /\ q \in BoundedQueue
  /\ tasks \in [Slots -> GoodTask \cup {NoTask}]

\* What the provers need to know of a well-formed prompt task.
LEMMA GoodTaskFacts ==
  ASSUME NEW t \in GoodTask
  PROVE  /\ t \in Task /\ t # NoTask
         /\ t.phase \in {"running", "done", "panicked"}
         /\ t.outcome \in Outcomes \cup {"none"}
         /\ t.buf \in Nat /\ t.pend \in Nat
         /\ t.batch.ch \in Channels \cup {Heartbeat}
         /\ t.batch.ch \in Channels => t.batch \in Batch
         /\ t.returned => t.batch \in Batch
         /\ t.buf # NoEvent \/ t.pend # NoEvent \/ t.ctl # "none" => t.batch \in Batch
BY DEF GoodTask, Task, NoTask, Batch

\* A slot whose task has a phase other than "none" has a task.
LEMMA PhaseIsTask ==
  ASSUME TypeInv, NEW s \in Slots
  PROVE  /\ tasks[s].phase # "none" => tasks[s] \in GoodTask
         /\ tasks[s] # NoTask => tasks[s] \in GoodTask
BY DEF TypeInv, NoTask

\* dispatch_pending starts a well-formed task.
LEMMA NewTaskGood ==
  ASSUME NEW b \in Batch
  PROVE  NewTask(b, "open") \in GoodTask
BY HeartbeatAssumption DEF NewTask, GoodTask, Task, Batch, NoEvent

\* dispatch_heartbeat starts a well-formed task.
LEMMA HeartbeatTaskGood ==
  ASSUME NEW b, b = [ch |-> Heartbeat, events |-> <<>>, cancelled |-> <<>>, reason |-> "none"]
  PROVE  NewTask(b, "none") \in GoodTask
<1>1. <<>> \in Seq(Event)
  BY EmptySeq
<1> QED BY <1>1 DEF NewTask, GoodTask, Task, NoEvent, Reason

\* Signals and steer requests leave a channel's task well formed.
LEMMA TaskUpdates ==
  ASSUME NEW t \in GoodTask, t.batch.ch \in Channels
  PROVE  /\ \A v \in {"open", "steer", "interrupt", "drop"} : [t EXCEPT !.ctl = v] \in GoodTask
         /\ \A n \in Nat : [t EXCEPT !.buf = n] \in GoodTask
         /\ \A n \in Nat : [t EXCEPT !.pend = n] \in GoodTask
         /\ \A m, n \in Nat : [t EXCEPT !.pend = m, !.buf = n] \in GoodTask
BY HeartbeatAssumption DEF GoodTask, Task

\* So do the ways a task ends.
LEMMA TaskEnds ==
  ASSUME NEW t \in GoodTask, NEW o \in Outcomes, NEW ret_ \in BOOLEAN, NEW r \in Reason,
         t.batch.ch = Heartbeat => ~ret_
  PROVE  /\ [t EXCEPT !.phase = "done", !.outcome = o, !.returned = ret_, !.batch.reason = r,
                      !.buf = NoEvent, !.pend = NoEvent] \in GoodTask
         /\ [t EXCEPT !.phase = "panicked", !.buf = NoEvent, !.pend = NoEvent] \in GoodTask
BY DEF GoodTask, Task, NoEvent

\* The history of fates keeps its type.
LEMMA SettleType ==
  ASSUME NEW f \in [EventIds -> {"none", "live", "delivered", "dead", "dropped"}], NEW S,
         NEW v \in {"delivered", "dead", "dropped"}
  PROVE  Settle(f, S, v) \in [EventIds -> {"none", "live", "delivered", "dead", "dropped"}]
BY DEF Settle

\* The breaker's operations keep its type.
LEMMA CircuitType ==
  ASSUME NEW k \in Circuit
  PROVE  /\ RecordCrash(k) \in Circuit
         /\ MarkSpawnFailed(k) \in Circuit
         /\ Refilled(k) \in Circuit
<1>1. HalfOpen \in Circuit
  BY CircuitAssumption DEF HalfOpen, Circuit
<1>2. RecordCrash(k) \in Circuit
  BY <1>1, CircuitAssumption DEF RecordCrash, Circuit
<1> QED BY <1>1, <1>2 DEF MarkSpawnFailed, Refilled, Circuit

\* A new breaker has the type.
LEMMA NewCircuitType == NewCircuit \in Circuit
BY CircuitAssumption DEF NewCircuit, Circuit

\* The lowest index of a nonempty set of slots is one of them.
LEMMA FirstOfMember ==
  ASSUME NEW S \in SUBSET Slots, S # {}
  PROVE  FirstOf(S) \in S
<1>1. S \subseteq Nat /\ IsFiniteSet(S)
  BY HarnessAssumption, FS_Subset
<1>2. \E x \in S : \A y \in S : x <= y
  BY <1>1, HasLeast
<1> QED BY <1>2 DEF FirstOf

\* try_claim takes an idle agent.
LEMMA ClaimIdle ==
  ASSUME NEW c, Idle # {}
  PROVE  Claim(c) \in Idle
<1> DEFINE affine == {s \in Idle : c \in sess[s]}
<1>1. Idle \subseteq Slots /\ affine \subseteq Idle
  BY DEF Idle
<1>2. affine # {} => FirstOf(affine) \in affine
  BY <1>1, FirstOfMember
<1>3. FirstOf(Idle) \in Idle
  BY <1>1, FirstOfMember
<1> QED BY <1>1, <1>2, <1>3 DEF Claim

\* signal_in_flight_task leaves every task well formed.
LEMMA SignalledType ==
  ASSUME TypeInv, NEW c \in Channels, NEW sig \in {"steer", "interrupt", "drop"},
         NEW ts \in Signalled(c, sig)
  PROVE  ts \in [Slots -> GoodTask \cup {NoTask}]
<1>1. CASE ts = tasks
  BY <1>1 DEF TypeInv
<1>2. CASE \E s \in TasksOn(c) : ts = Signal(tasks, s, sig)
  <2> PICK s \in TasksOn(c) : ts = Signal(tasks, s, sig)
    BY <1>2
  <2>1. s \in Slots /\ tasks[s] \in GoodTask /\ tasks[s].batch.ch = c
    BY PhaseIsTask DEF TasksOn, TaskSlots
  <2> DEFINE v == IF tasks[s].ctl = "open" THEN sig ELSE tasks[s].ctl
  <2>2. [tasks[s] EXCEPT !.ctl = v] \in GoodTask
    <3>1. tasks[s].ctl = "open" => [tasks[s] EXCEPT !.ctl = v] \in GoodTask
      BY <2>1, TaskUpdates
    <3>2. tasks[s].ctl # "open" => [tasks[s] EXCEPT !.ctl = v] = tasks[s]
      BY <2>1 DEF GoodTask, Task
    <3> QED BY <2>1, <3>1, <3>2
  <2>3. ts = [tasks EXCEPT ![s] = [tasks[s] EXCEPT !.ctl = v]]
    BY <2>1 DEF Signal, TypeInv
  <2> HIDE DEF v
  <2> QED BY <2>1, <2>2, <2>3 DEF TypeInv
<1> QED BY <1>1, <1>2 DEF Signalled

-----------------------------------------------------------------------------
(* TypeInv is inductive.  One lemma per group of actions. *)

FateType == [EventIds -> {"none", "live", "delivered", "dead", "dropped"}]

\* The initial state has the strengthened type.
LEMMA TypeInit == Init => TypeInv
<1> SUFFICES ASSUME Init PROVE TypeInv
  OBVIOUS
<1>1. q \in BoundedQueue /\ q \in QueueState
  BY NewQueueBounded, BoundedIsQueue DEF Init
<1>2. circ \in [Slots -> Circuit]
  BY NewCircuitType DEF Init
<1>3. tasks \in [Slots -> Task \cup {NoTask}] /\ tasks \in [Slots -> GoodTask \cup {NoTask}]
  BY DEF Init
<1>4. nextId \in 1 .. MaxEvents + 1 /\ lapses \in 0 .. MaxLapses
  BY HarnessAssumption DEF Init
<1> QED BY <1>1, <1>2, <1>3, <1>4 DEF Init, TypeInv, TypeOK

\* What remains to be shown of a step once the queue and the tasks are known to be typed.
LEMMA TypeParts ==
  ASSUME q' \in BoundedQueue, tasks' \in [Slots -> GoodTask \cup {NoTask}]
  PROVE  q' \in QueueState /\ tasks' \in [Slots -> Task \cup {NoTask}]
BY BoundedIsQueue DEF GoodTask

\* dispatch_pending preserves it.
LEMMA TypeDispatch ==
  ASSUME TypeInv, DispatchStep
  PROVE  TypeInv'
<1>1. fate' \in FateType
  <2>1. \E S : fate' = Settle(fate, S, "dropped")
    BY DEF DispatchStep
  <2> QED BY <2>1, SettleType DEF TypeInv, TypeOK, FateType
<1>2. /\ q' \in BoundedQueue
      /\ tasks' \in [Slots -> GoodTask \cup {NoTask}]
      /\ agents' \in [Slots -> {"idle", "out", "none"}]
      /\ pc' \in {pc, ret}
  <2>1. CASE q' = ExpireInFlight(q) /\ pc' = ret /\ UNCHANGED <<agents, tasks>>
    BY <2>1, ExpireBounded DEF TypeInv, TypeOK
  <2>2. ASSUME NEW r \in FlushNext(q), Idle # {}, q' = r.q, UNCHANGED pc,
               agents' = [agents EXCEPT ![Claim(r.batch.ch)] = "out"],
               tasks' = [tasks EXCEPT ![Claim(r.batch.ch)] = NewTask(r.batch, "open")]
        PROVE  <1>2!1 /\ <1>2!2 /\ <1>2!3 /\ <1>2!4
    <3>1. r.q \in BoundedQueue /\ NewTask(r.batch, "open") \in GoodTask
      BY FlushBounded, NewTaskGood DEF TypeInv
    <3> QED BY <2>2, <3>1 DEF TypeInv, TypeOK
  <2>3. ASSUME NEW r \in FlushNext(q), pc' = ret, UNCHANGED <<agents, tasks>>,
               q' = MarkComplete(RequeuePreserve(r.q, r.batch), r.batch.ch)
        PROVE  <1>2!1 /\ <1>2!2 /\ <1>2!3 /\ <1>2!4
    <3>1. r.q \in BoundedQueue /\ r.batch \in Batch
      BY FlushBounded DEF TypeInv
    <3>2. RequeuePreserve(r.q, r.batch) \in BoundedQueue /\ r.batch.ch \in Channels
      BY <3>1, RequeueBounded DEF Batch
    <3> QED BY <2>3, <3>2, MarkCompleteBounded DEF TypeInv, TypeOK
  <2> QED BY <2>1, <2>2, <2>3 DEF DispatchStep
<1> QED BY <1>1, <1>2, TypeParts DEF DispatchStep, TypeInv, TypeOK, FateType

\* The top of the loop and the end of the drain preserve it.
LEMMA TypeLoop ==
  ASSUME TypeInv, Maintenance \/ NoMaintenance \/ CollectRespawns \/ DrainDone
  PROVE  TypeInv'
<1>1. CASE Maintenance
  <2>1. CompactExpiredState(q) \in BoundedQueue
    BY CompactBounded DEF TypeInv
  <2>2. q' \in BoundedQueue
    BY <1>1, <2>1, ExpireBounded DEF Maintenance
  <2>3. fate' \in FateType
    BY <1>1, SettleType DEF Maintenance, TypeInv, TypeOK, FateType
  <2>4. circ' \in [Slots -> Circuit]
    BY <1>1, CircuitType DEF Maintenance, TypeInv, TypeOK
  <2>5. respawn' \in [Slots -> {"no", "running", "ok", "failed"}]
    BY <1>1 DEF Maintenance, TypeInv, TypeOK
  <2>6. pc' \in {"collect", "dispatch"} /\ ret' \in {ret, "collect"}
    BY <1>1 DEF Maintenance, DispatchThen
  <2> QED BY <1>1, <2>2, <2>3, <2>4, <2>5, <2>6, TypeParts
          DEF Maintenance, TypeInv, TypeOK, FateType
<1>2. CASE NoMaintenance
  BY <1>2 DEF NoMaintenance, TypeInv, TypeOK
<1>3. CASE CollectRespawns
  <2>1. circ' \in [Slots -> Circuit]
    BY <1>3, CircuitType DEF CollectRespawns, TypeInv, TypeOK
  <2> QED BY <1>3, <2>1 DEF CollectRespawns, DispatchThen, TypeInv, TypeOK
<1>4. CASE DrainDone
  BY <1>4 DEF DrainDone, DispatchThen, TypeInv, TypeOK
<1> QED BY <1>1, <1>2, <1>3, <1>4

\* What happens to the queue and the tasks when an event arrives mid-turn.
LEMMA TypeMidTurn ==
  ASSUME TypeInv, NEW c \in Channels, NEW e \in Event, MidTurn(c, e)
  PROVE  q' \in BoundedQueue /\ tasks' \in [Slots -> GoodTask \cup {NoTask}]
<1>1. Push(q, c, e) \in BoundedQueue
  BY PushBounded DEF TypeInv
<1>2. ASSUME NEW s \in TasksOn(c), SteerAccepted(c, e, s)
      PROVE  q' \in BoundedQueue /\ tasks' \in [Slots -> GoodTask \cup {NoTask}]
  <2>1. s \in Slots /\ tasks[s] \in GoodTask /\ tasks[s].batch.ch = c
    BY PhaseIsTask DEF TasksOn, TaskSlots
  <2>2. e.id \in Nat
    BY DEF Event
  <2>3. [tasks[s] EXCEPT !.buf = e.id] \in GoodTask
    BY <2>1, <2>2, TaskUpdates
  <2>4. tasks' = [tasks EXCEPT ![s] = [tasks[s] EXCEPT !.buf = e.id]]
    BY <1>2, <2>1 DEF SteerAccepted, TypeInv
  <2>5. q' \in BoundedQueue
    BY <1>1, <1>2, MarkNativeSteerBounded DEF SteerAccepted
  <2>6. tasks' \in [Slots -> GoodTask \cup {NoTask}]
    BY <2>1, <2>3, <2>4 DEF TypeInv
  <2> QED BY <2>5, <2>6
<1> QED BY <1>1, <1>2, SignalledType DEF MidTurn, TypeInv

\* Relay events, membership notices and owner commands preserve it.
LEMMA TypeInputs ==
  ASSUME TypeInv, NEW c \in Channels, NEW at \in 1 .. MaxCreated,
         \/ RelayEvent(c, at) \/ MemberRemoved(c) \/ MemberAdded(c)
         \/ CancelTurn(c) \/ Rotate(c) \/ SwitchModel(c)
  PROVE  TypeInv'
<1>1. CASE RelayEvent(c, at)
  <2>1. NewEvent(at) \in Event /\ nextId \in EventIds /\ nextId' \in 1 .. MaxEvents + 1
    BY <1>1, HarnessAssumption DEF RelayEvent, NewEvent, Event, EventIds, TypeInv, TypeOK
  <2>2. q' \in BoundedQueue /\ tasks' \in [Slots -> GoodTask \cup {NoTask}]
    <3>1. Push(q, c, NewEvent(at)) \in BoundedQueue
      BY <2>1, PushBounded DEF TypeInv
    <3> QED BY <1>1, <2>1, <3>1, TypeMidTurn DEF RelayEvent, TypeInv
  <2>3. fate' \in FateType
    <3>1. Settle(fate, PushEvicts(q, c), "dropped") \in FateType
      BY SettleType DEF TypeInv, TypeOK, FateType
    <3>2. fate \in FateType
      BY DEF TypeInv, TypeOK, FateType
    <3> QED BY <1>1, <2>1, <3>1, <3>2 DEF RelayEvent, NewEvent, FateType
  <2> QED BY <1>1, <2>1, <2>2, <2>3, TypeParts
          DEF RelayEvent, DispatchThen, TypeInv, TypeOK, FateType
<1>2. CASE MemberRemoved(c)
  <2>1. q' \in BoundedQueue
    BY <1>2, DrainBounded DEF MemberRemoved, TypeInv
  <2>2. fate' \in FateType
    BY <1>2, SettleType DEF MemberRemoved, TypeInv, TypeOK, FateType
  <2>3. sess' \in [Slots -> SUBSET Channels]
    BY <1>2 DEF MemberRemoved, InvalidateChannelSessions, TypeInv, TypeOK
  <2> QED BY <1>2, <2>1, <2>2, <2>3, TypeParts DEF MemberRemoved, TypeInv, TypeOK, FateType
<1>3. CASE MemberAdded(c)
  BY <1>3 DEF MemberAdded, TypeInv, TypeOK
<1>4. CASE CancelTurn(c)
  <2>1. tasks' \in [Slots -> GoodTask \cup {NoTask}]
    BY <1>4, SignalledType DEF CancelTurn
  <2> QED BY <1>4, <2>1, TypeParts DEF CancelTurn, TypeInv, TypeOK
<1>5. CASE Rotate(c)
  <2>1. tasks' \in [Slots -> GoodTask \cup {NoTask}]
    BY <1>5, SignalledType DEF Rotate
  <2>2. sess' \in [Slots -> SUBSET Channels]
    BY <1>5 DEF Rotate, InvalidateChannelSessions, TypeInv, TypeOK
  <2> QED BY <1>5, <2>1, <2>2, TypeParts DEF Rotate, TypeInv, TypeOK
<1>6. CASE SwitchModel(c)
  <2>1. tasks' \in [Slots -> GoodTask \cup {NoTask}]
    BY <1>6, SignalledType DEF SwitchModel, TypeInv
  <2>2. sess' \in [Slots -> SUBSET Channels]
    BY <1>6 DEF SwitchModel, SwitchIdleAgentModel, TypeInv, TypeOK
  <2> QED BY <1>6, <2>1, <2>2, TypeParts DEF SwitchModel, TypeInv, TypeOK
<1> QED BY <1>1, <1>2, <1>3, <1>4, <1>5, <1>6

\* Timers and shutdown preserve it.
LEMMA TypeTicks ==
  ASSUME TypeInv, PeriodicTick \/ HeartbeatTick \/ Shutdown
  PROVE  TypeInv'
<1>1. CASE PeriodicTick \/ Shutdown
  BY <1>1 DEF PeriodicTick, Shutdown, TypeInv, TypeOK
<1>2. CASE HeartbeatTick
  <2> DEFINE b == [ch |-> Heartbeat, events |-> <<>>, cancelled |-> <<>>, reason |-> "none"]
  <2>1. q' \in BoundedQueue
    BY <1>2, ExpireBounded DEF HeartbeatTick, TypeInv
  <2>2. fate' \in FateType
    BY <1>2, SettleType DEF HeartbeatTick, TypeInv, TypeOK, FateType
  <2>3. NewTask(b, "none") \in GoodTask
    BY HeartbeatTaskGood
  <2> HIDE DEF b
  <2>4. /\ tasks' \in [Slots -> GoodTask \cup {NoTask}]
        /\ agents' \in [Slots -> {"idle", "out", "none"}]
        /\ hbInFlight' \in BOOLEAN
        /\ pc' \in {"top", "dispatch"} /\ ret' \in {ret, "top"}
    BY ZenonT(40), <1>2, <2>3 DEF HeartbeatTick, DispatchThen, TypeInv, TypeOK, b
  <2> QED BY <1>2, <2>1, <2>2, <2>4, TypeParts DEF HeartbeatTick, TypeInv, TypeOK, FateType
<1> QED BY <1>1, <1>2

\* The queue, fates and history after the batch of a task is settled, for every way to
\* settle it.
LEMMA TypeSettled ==
  ASSUME TypeInv, NEW t \in GoodTask,
         \/ \E v \in {"delivered", "dead", "dropped"} : EndBatch(t.batch, v)
         \/ t.batch \in Batch /\ (StoreCancelled(t.batch) \/ RequeueFailed(t.batch))
  PROVE  /\ q' \in BoundedQueue
         /\ hbInFlight' \in BOOLEAN
         /\ fate' \in FateType
         /\ cxl' \subseteq Nat
<1> DEFINE b == t.batch
<1>1. /\ b.ch \in Channels \cup {Heartbeat}
      /\ b.events \in Seq(Event) /\ b.cancelled \in Seq(Event)
  BY DEF GoodTask, Task
<1>2. BatchIds(b) \subseteq Nat
  <2>1. \A x \in Seq(Event) : Ids(x) \subseteq Nat
    <3> SUFFICES ASSUME NEW x \in Seq(Event), NEW i \in DOMAIN x PROVE x[i].id \in Nat
      BY DEF Ids
    <3>1. x[i] \in Event
      BY LenProperties, ElementOfSeq
    <3> QED BY <3>1 DEF Event
  <2> QED BY <1>1, <2>1 DEF BatchIds
<1> HIDE DEF b
<1>3. ASSUME NEW qq \in BoundedQueue, MarkTaskComplete(qq, b.ch)
      PROVE  q' \in BoundedQueue /\ hbInFlight' \in BOOLEAN
  BY <1>1, <1>3, MarkCompleteBounded DEF MarkTaskComplete, TypeInv, TypeOK
<1>4. ASSUME NEW v \in {"delivered", "dead", "dropped"}, EndBatch(b, v)
      PROVE  q' \in BoundedQueue /\ hbInFlight' \in BOOLEAN /\ fate' \in FateType /\ cxl' \subseteq Nat
  BY <1>3, <1>4, SettleType DEF EndBatch, TypeInv, TypeOK, FateType
<1>5. ASSUME b \in Batch, StoreCancelled(b)
      PROVE  q' \in BoundedQueue /\ hbInFlight' \in BOOLEAN /\ fate' \in FateType /\ cxl' \subseteq Nat
  <2>1. RequeueAsCancelled(q, b) \in BoundedQueue
    BY <1>5, RequeueAsCancelledBounded DEF TypeInv
  <2> QED BY <1>2, <1>3, <1>5, <2>1 DEF StoreCancelled, TypeInv, TypeOK, FateType
<1>6. ASSUME b \in Batch, RequeueFailed(b)
      PROVE  q' \in BoundedQueue /\ hbInFlight' \in BOOLEAN /\ fate' \in FateType /\ cxl' \subseteq Nat
  <2>1. Requeue(q, b) \in BoundedQueue
    BY <1>6, RequeueBounded DEF TypeInv
  <2>2. fate' \in FateType
    BY <1>6, SettleType DEF RequeueFailed, TypeInv, TypeOK, FateType
  <2> QED BY <1>3, <1>6, <2>1, <2>2 DEF RequeueFailed, TypeInv, TypeOK
<1> QED BY <1>4, <1>5, <1>6 DEF b

\* spawn_respawn_task keeps the types of what it touches.
LEMMA TypeCrash ==
  ASSUME TypeInv, NEW s \in Slots, Crash(s)
  PROVE  /\ agents' \in [Slots -> {"idle", "out", "none"}]
         /\ sess' \in [Slots -> SUBSET Channels]
         /\ circ' \in [Slots -> Circuit]
         /\ respawn' \in [Slots -> {"no", "running", "ok", "failed"}]
<1>1. RecordCrash(circ[s]) \in Circuit
  BY CircuitType DEF TypeInv, TypeOK
<1> QED BY <1>1 DEF Crash, TypeInv, TypeOK

\* Handling a prompt result or a panic preserves the strengthened type.
LEMMA TypeEnds ==
  ASSUME TypeInv, NEW s \in Slots, HandleResult(s) \/ HandlePanic(s)
  PROVE  TypeInv'
<1>1. CASE HandleResult(s)
  <2>1. tasks[s] \in GoodTask
    BY <1>1, PhaseIsTask DEF HandleResult
  <2>2. tasks' \in [Slots -> GoodTask \cup {NoTask}]
    BY <1>1 DEF HandleResult, TypeInv
  <2>3. /\ q' \in BoundedQueue /\ hbInFlight' \in BOOLEAN
        /\ fate' \in FateType /\ cxl' \subseteq Nat
    <3>1. ResultBatch(tasks[s])
      BY <1>1 DEF HandleResult
    <3>2. tasks[s].returned => tasks[s].batch \in Batch
      BY <2>1, GoodTaskFacts
    <3> QED BY <2>1, <3>1, <3>2, TypeSettled DEF ResultBatch
  <2>4. /\ agents' \in [Slots -> {"idle", "out", "none"}]
        /\ sess' \in [Slots -> SUBSET Channels]
        /\ circ' \in [Slots -> Circuit]
        /\ respawn' \in [Slots -> {"no", "running", "ok", "failed"}]
    <3>1. CASE Crash(s)
      BY <3>1, TypeCrash
    <3>2. CASE ~Crash(s)
      BY <1>1, <3>2 DEF HandleResult, TypeInv, TypeOK
    <3> QED BY <3>1, <3>2
  <2>5. pc' \in {"exited", "drain"}
    BY <1>1 DEF HandleResult
  <2> QED BY <1>1, <2>2, <2>3, <2>4, <2>5, TypeParts
          DEF HandleResult, TypeInv, TypeOK, FateType
<1>2. CASE HandlePanic(s)
  <2>1. tasks[s] \in GoodTask
    BY <1>2, PhaseIsTask DEF HandlePanic
  <2>2. tasks' \in [Slots -> GoodTask \cup {NoTask}]
    BY <1>2 DEF HandlePanic, TypeInv
  <2>3. /\ q' \in BoundedQueue /\ hbInFlight' \in BOOLEAN
        /\ fate' \in FateType /\ cxl' \subseteq Nat
    <3>1. tasks[s].batch.ch # Heartbeat => tasks[s].batch \in Batch
      BY <2>1, GoodTaskFacts
    <3>2. \/ EndBatch(tasks[s].batch, "dropped")
          \/ tasks[s].batch.ch # Heartbeat /\ RequeueFailed(tasks[s].batch)
      BY <1>2 DEF HandlePanic
    <3> QED BY <2>1, <3>1, <3>2, TypeSettled
  <2>4. Crash(s)
    BY <1>2 DEF HandlePanic
  <2>5. pc' \in {pc, "exited", "dispatch"} /\ ret' \in {ret, "top"}
    BY <1>2 DEF HandlePanic, DispatchThen
  <2> QED BY <1>2, <2>2, <2>3, <2>4, <2>5, TypeParts, TypeCrash
          DEF HandlePanic, TypeInv, TypeOK, FateType
<1> QED BY <1>1, <1>2

\* Handling a steer ack preserves it.
LEMMA TypeAck ==
  ASSUME TypeInv, NEW a \in acks, HandleAck(a)
  PROVE  TypeInv'
<1>1. a.ch \in Channels
  BY DEF TypeInv, TypeOK
<1>2. q' \in BoundedQueue
  <2>1. ExtendDeadline(q, a.ch) \in BoundedQueue
    BY <1>1, ExtendBounded DEF TypeInv
  <2> QED BY <1>1, <2>1, RemoveBounded, ReleaseNativeSteerBounded DEF HandleAck, TypeInv
<1>3. fate' \in FateType
  BY SettleType DEF HandleAck, TypeInv, TypeOK, FateType
<1>4. tasks' \in [Slots -> GoodTask \cup {NoTask}]
  BY <1>1, SignalledType DEF HandleAck, TypeInv
<1> QED BY <1>2, <1>3, <1>4, TypeParts DEF HandleAck, DispatchThen, TypeInv, TypeOK, FateType

AckType == [ch : Channels, id : Nat, kind : {"success", "release", "fallback"}]

\* The acks of open steers name a channel, because heartbeat tasks have none.
LEMMA ReleaseSteersType ==
  ASSUME TypeInv, NEW s \in Slots, tasks[s] \in GoodTask, ReleaseSteers(s)
  PROVE  acks' \subseteq AckType
<1>1. ASSUME NEW i \in OpenSteers(s)
      PROVE  AckOf(s, i, "release") \in AckType
  <2>1. i \in Nat /\ (tasks[s].buf # NoEvent \/ tasks[s].pend # NoEvent)
    BY GoodTaskFacts DEF OpenSteers
  <2>2. tasks[s].batch \in Batch
    BY <2>1, GoodTaskFacts
  <2> QED BY <2>1, <2>2 DEF AckOf, AckType, Batch
<1> QED BY <1>1 DEF ReleaseSteers, TypeInv, TypeOK, AckType

\* A task that sends its PromptResult preserves it.
LEMMA TypeFinish ==
  ASSUME TypeInv, NEW s \in Slots, tasks[s] \in GoodTask, NEW o \in Outcomes,
         NEW returned \in BOOLEAN, NEW reason \in Reason,
         tasks[s].batch.ch = Heartbeat => ~returned,
         Finish(s, o, returned, reason)
  PROVE  TypeInv'
<1>1. acks' \subseteq AckType
  BY ReleaseSteersType DEF Finish
<1> DEFINE t == [tasks[s] EXCEPT !.phase = "done", !.outcome = o, !.returned = returned,
                   !.batch.reason = reason, !.buf = NoEvent, !.pend = NoEvent]
<1>2. t \in GoodTask
  BY TaskEnds
<1>3. tasks' = [tasks EXCEPT ![s] = t]
  BY DEF Finish, TypeInv
<1> HIDE DEF t
<1>4. tasks' \in [Slots -> GoodTask \cup {NoTask}]
  BY <1>2, <1>3 DEF TypeInv
<1>5. sess' \in [Slots -> SUBSET Channels]
  <2>1. tasks[s].batch.ch \in Channels \cup {Heartbeat}
    BY GoodTaskFacts
  <2>2. SessionsAfter(s, o) \subseteq SUBSET Channels
    BY <2>1 DEF SessionsAfter, TypeInv, TypeOK
  <2> QED BY <2>2 DEF Finish, TypeInv, TypeOK
<1> QED BY <1>1, <1>4, <1>5, TypeParts DEF Finish, MainLoopVars, TypeInv, TypeOK, AckType

\* Every step of a prompt task or a respawn task preserves it.
LEMMA TypeTask ==
  ASSUME TypeInv, NEW s \in Slots, TaskStep(s)
  PROVE  TypeInv'
<1>1. ASSUME Running(s)
      PROVE  tasks[s] \in GoodTask
  BY <1>1, PhaseIsTask DEF Running
<1>2. CASE TakeSteer(s)
  <2> DEFINE t == tasks[s]
             u == [t EXCEPT !.pend = t.buf, !.buf = NoEvent]
             v == [t EXCEPT !.buf = NoEvent]
  <2>1. t \in GoodTask /\ t.buf # NoEvent
    BY <1>1, <1>2 DEF TakeSteer
  <2>2. t.batch \in Batch /\ t.buf \in Nat /\ t.batch.ch \in Channels
    BY <2>1, GoodTaskFacts DEF Batch
  <2>3. u \in GoodTask /\ v \in GoodTask
    BY <2>1, <2>2, TaskUpdates DEF NoEvent
  <2>4. tasks' = [tasks EXCEPT ![s] = u] \/ tasks' = [tasks EXCEPT ![s] = v]
    BY <1>2 DEF TakeSteer, TypeInv
  <2>5. tasks' \in [Slots -> GoodTask \cup {NoTask}]
    <3> HIDE DEF u, v
    <3> QED BY <2>3, <2>4 DEF TypeInv
  <2>6. AckOf(s, t.buf, "fallback") \in AckType
    BY <2>2 DEF AckOf, AckType
  <2>7. acks' \subseteq AckType
    BY <1>2, <2>6 DEF TakeSteer, TypeInv, TypeOK, AckType
  <2> QED BY <1>2, <2>5, <2>7, TypeParts DEF TakeSteer, MainLoopVars, TypeInv, TypeOK, AckType
<1>3. ASSUME NEW kind \in {"success", "release", "fallback"}, SteerReply(s, kind)
      PROVE  TypeInv'
  <2> DEFINE t == tasks[s]
             u == [t EXCEPT !.pend = NoEvent]
  <2>1. t \in GoodTask /\ t.pend # NoEvent
    BY <1>1, <1>3 DEF SteerReply
  <2>2. t.batch \in Batch /\ t.pend \in Nat /\ t.batch.ch \in Channels
    BY <2>1, GoodTaskFacts DEF Batch
  <2>3. u \in GoodTask
    BY <2>1, <2>2, TaskUpdates DEF NoEvent
  <2>4. tasks' = [tasks EXCEPT ![s] = u]
    BY <1>3 DEF SteerReply, TypeInv
  <2>5. tasks' \in [Slots -> GoodTask \cup {NoTask}]
    <3> HIDE DEF u
    <3> QED BY <2>3, <2>4 DEF TypeInv
  <2>6. acks' \subseteq AckType
    BY <1>3, <2>2 DEF SteerReply, AckOf, TypeInv, TypeOK, AckType
  <2> QED BY <1>3, <2>5, <2>6, TypeParts DEF SteerReply, MainLoopVars, TypeInv, TypeOK, AckType
<1>4. ASSUME NEW o \in Outcomes, TurnEnds(s, o)
      PROVE  TypeInv'
  <2> DEFINE back == o # "ok" /\ RequeueBatchIfQueue(s)
  <2>1. tasks[s] \in GoodTask
    BY <1>1, <1>4 DEF TurnEnds
  <2>2. tasks[s].batch.reason \in Reason
    BY <2>1 DEF GoodTask, Task
  <2>3. back \in BOOLEAN /\ (tasks[s].batch.ch = Heartbeat => ~back)
    BY DEF RequeueBatchIfQueue
  <2>4. Finish(s, o, back, tasks[s].batch.reason)
    BY <1>4 DEF TurnEnds
  <2> HIDE DEF back
  <2> QED BY <2>1, <2>2, <2>3, <2>4, TypeFinish
<1>5. ASSUME NEW o \in Outcomes, TurnCancelled(s, o)
      PROVE  TypeInv'
  <2> DEFINE back == RequeueBatchIfQueue(s) /\ tasks[s].ctl # "drop"
             why == CancelReasonOf(tasks[s].ctl)
  <2>1. tasks[s] \in GoodTask /\ tasks[s].ctl \in {"steer", "interrupt", "drop"}
    BY <1>1, <1>5 DEF TurnCancelled
  <2>2. why \in Reason /\ back \in BOOLEAN
    BY <2>1 DEF Reason, CancelReasonOf, RequeueBatchIfQueue
  <2>3. tasks[s].batch.ch # Heartbeat
    BY <2>1 DEF GoodTask
  <2>4. Finish(s, o, back, why)
    BY <1>5 DEF TurnCancelled
  <2> HIDE DEF back, why
  <2> QED BY <2>1, <2>2, <2>3, <2>4, TypeFinish
<1>6. CASE TaskPanics(s)
  <2> DEFINE t == [tasks[s] EXCEPT !.phase = "panicked", !.buf = NoEvent, !.pend = NoEvent]
  <2>1. tasks[s] \in GoodTask
    BY <1>1, <1>6 DEF TaskPanics
  <2>2. t \in GoodTask
    BY <2>1 DEF GoodTask, Task, NoEvent
  <2>3. tasks' = [tasks EXCEPT ![s] = t]
    BY <1>6 DEF TaskPanics, TypeInv
  <2>4. acks' \subseteq AckType
    BY <1>6, <2>1, ReleaseSteersType DEF TaskPanics
  <2>5. tasks' \in [Slots -> GoodTask \cup {NoTask}]
    <3> HIDE DEF t
    <3> QED BY <2>2, <2>3 DEF TypeInv
  <2> QED BY <1>6, <2>4, <2>5, TypeParts DEF TaskPanics, MainLoopVars, TypeInv, TypeOK, AckType
<1>7. CASE RespawnEnds(s)
  BY <1>7 DEF RespawnEnds, MainLoopVars, TypeInv, TypeOK
<1> QED BY <1>2, <1>3, <1>4, <1>5, <1>6, <1>7 DEF TaskStep

\* The passing of time preserves it.
LEMMA TypeClock ==
  ASSUME TypeInv, Clock
  PROVE  TypeInv'
<1>1. ASSUME NEW c \in Channels, ThrottleElapses(c)
      PROVE  TypeInv'
  <2>1. q' \in BoundedQueue
    BY <1>1 DEF ThrottleElapses, TypeInv, BoundedQueue, Timer
  <2> QED BY <1>1, <2>1, TypeParts DEF ThrottleElapses, TypeInv, TypeOK
<1>2. ASSUME NEW c \in Channels, DeadlinePasses(c)
      PROVE  TypeInv'
  <2>1. q' \in BoundedQueue
    BY <1>2 DEF DeadlinePasses, TypeInv, BoundedQueue, Timer
  <2>2. lapses' \in 0 .. MaxLapses
    BY <1>2, HarnessAssumption DEF DeadlinePasses, TypeInv, TypeOK
  <2> QED BY <1>2, <2>1, <2>2, TypeParts DEF DeadlinePasses, TypeInv, TypeOK
<1>3. ASSUME NEW s \in Slots, CrashesAge(s)
      PROVE  TypeInv'
  <2>1. circ' \in [Slots -> Circuit]
    BY <1>3, CircuitAssumption DEF CrashesAge, TypeInv, TypeOK, Circuit
  <2> QED BY <1>3, <2>1 DEF CrashesAge, TypeInv, TypeOK
<1>4. ASSUME NEW s \in Slots, CooldownElapses(s)
      PROVE  TypeInv'
  <2>1. circ' \in [Slots -> Circuit]
    BY <1>4 DEF CooldownElapses, TypeInv, TypeOK, Circuit
  <2> QED BY <1>4, <2>1 DEF CooldownElapses, TypeInv, TypeOK
<1> QED BY <1>1, <1>2, <1>3, <1>4 DEF Clock

\* The strengthened type is inductive.
LEMMA TypeNext == TypeInv /\ [Next]_vars => TypeInv'
<1> SUFFICES ASSUME TypeInv, [Next]_vars PROVE TypeInv'
  OBVIOUS
<1>1. CASE MainLoop
  BY <1>1, TypeLoop, TypeDispatch, TypeEnds, TypeAck DEF MainLoop
<1>2. CASE Inputs
  <2>1. CASE PeriodicTick \/ HeartbeatTick \/ Shutdown
    BY <2>1, TypeTicks
  <2>2. CASE \E c \in Channels, at \in 1 .. MaxCreated : RelayEvent(c, at)
    BY <2>2, TypeInputs
  <2>3. 1 \in 1 .. MaxCreated
    BY HarnessAssumption
  <2> QED BY <1>2, <2>1, <2>2, <2>3, TypeInputs DEF Inputs
<1>3. CASE \E s \in Slots : TaskStep(s)
  BY <1>3, TypeTask
<1>4. CASE Clock
  BY <1>4, TypeClock
<1>5. CASE UNCHANGED vars
  BY <1>5 DEF vars, TypeInv, TypeOK
<1> QED BY <1>1, <1>2, <1>3, <1>4, <1>5 DEF Next

\* Every variable of the harness keeps its type: no handler, task step or timer leaves the
\* queue, the pool, the circuit breakers or the pending acks in a state the code has no
\* representation for.
THEOREM TypeCorrect == Spec => []TypeOK
<1>1. Spec => []TypeInv
  BY TypeInit, TypeNext, PTL DEF Spec
<1>2. TypeInv => TypeOK
  BY DEF TypeInv
<1> QED BY <1>1, <1>2, PTL

\* No path into a channel's queue exceeds MAX_PENDING_PER_CHANNEL.
THEOREM QueueCapped == Spec => []QueueWithinCap
<1>1. Spec => []TypeInv
  BY TypeInit, TypeNext, PTL DEF Spec
<1>2. TypeInv => QueueWithinCap
  BY BoundedIsQueue DEF TypeInv, QueueWithinCap
<1> QED BY <1>1, <1>2, PTL
=============================================================================
