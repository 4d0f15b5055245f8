--------------------------- MODULE AcpTurnProofs ---------------------------
(***************************************************************************)
(* Proofs about who holds what in the agent harness: an agent is in one    *)
(* place, an open breaker keeps its slot empty, idle agents have no stale  *)
(* session, a channel has one turn at a time, and the retry throttle is    *)
(* honoured.                                                               *)
(***************************************************************************)
EXTENDS AcpHarnessProofs

\* The step neither creates nor ends a prompt task, and leaves its batch's channel and events.
TasksKept ==
  \A s \in Slots : /\ tasks'[s] = NoTask <=> tasks[s] = NoTask
                   /\ tasks[s] # NoTask =>
                        /\ tasks'[s].batch.ch = tasks[s].batch.ch
                        /\ tasks'[s].batch.events = tasks[s].batch.events
                        /\ tasks'[s].batch.cancelled = tasks[s].batch.cancelled

QuietStep == UNCHANGED <<agents, respawn, circ>> /\ TasksKept

\* A signal neither creates nor ends a task.
LEMMA SignalledKept ==
  ASSUME TypeInv, NEW c \in Channels, NEW sig, tasks' \in Signalled(c, sig)
  PROVE  TasksKept
<1>1. CASE tasks' = tasks
  BY <1>1 DEF TasksKept
<1>2. ASSUME NEW s \in TasksOn(c), tasks' = Signal(tasks, s, sig)
      PROVE  TasksKept
  <2> DEFINE v == IF tasks[s].ctl = "open" THEN sig ELSE tasks[s].ctl
  <2>1. s \in Slots /\ tasks[s] \in GoodTask
    BY PhaseIsTask DEF TasksOn, TaskSlots
  <2>2. tasks' = [tasks EXCEPT ![s] = [tasks[s] EXCEPT !.ctl = v]]
    BY <1>2, <2>1 DEF Signal, TypeInv
  <2>3. [tasks[s] EXCEPT !.ctl = v] # NoTask /\ [tasks[s] EXCEPT !.ctl = v].batch = tasks[s].batch
    BY <2>1 DEF GoodTask, Task, NoTask
  <2>4. tasks[s] # NoTask
    BY <2>1, GoodTaskFacts
  <2> HIDE DEF v
  <2> QED BY <2>1, <2>2, <2>3, <2>4 DEF TasksKept, TypeInv
<1> QED BY <1>1, <1>2 DEF Signalled

\* Nor do the steps of a prompt task: only the main loop clears the task map.
LEMMA TaskStepKept ==
  ASSUME TypeInv, NEW s \in Slots,
         \/ TakeSteer(s)
         \/ \E kind \in {"success", "release", "fallback"} : SteerReply(s, kind)
         \/ \E o, returned, reason : Running(s) /\ Finish(s, o, returned, reason)
         \/ TaskPanics(s)
  PROVE  QuietStep
<1>1. tasks[s] \in GoodTask
  BY PhaseIsTask DEF TakeSteer, SteerReply, TaskPanics, Running
<1>2. tasks[s] # NoTask
  BY <1>1, GoodTaskFacts
<1>3. UNCHANGED <<agents, respawn, circ>>
  BY DEF TakeSteer, SteerReply, TaskPanics, Finish, MainLoopVars
<1>4. \E t : /\ tasks' = [tasks EXCEPT ![s] = t]
             /\ t # NoTask /\ t.batch.ch = tasks[s].batch.ch
             /\ t.batch.events = tasks[s].batch.events /\ t.batch.cancelled = tasks[s].batch.cancelled
  <2> DEFINE u == tasks[s]
  <2>1. CASE TakeSteer(s)
    <3>1. \/ tasks' = [tasks EXCEPT ![s] = [u EXCEPT !.pend = u.buf, !.buf = NoEvent]]
          \/ tasks' = [tasks EXCEPT ![s] = [u EXCEPT !.buf = NoEvent]]
      BY <2>1 DEF TakeSteer, TypeInv
    <3>2. /\ [u EXCEPT !.pend = u.buf, !.buf = NoEvent] # NoTask
          /\ [u EXCEPT !.pend = u.buf, !.buf = NoEvent].batch = u.batch
          /\ [u EXCEPT !.buf = NoEvent] # NoTask
          /\ [u EXCEPT !.buf = NoEvent].batch = u.batch
      BY <1>1 DEF GoodTask, Task, NoTask
    <3> QED BY <3>1, <3>2
  <2>2. ASSUME NEW kind, SteerReply(s, kind) PROVE <1>4
    <3>1. tasks' = [tasks EXCEPT ![s] = [u EXCEPT !.pend = NoEvent]]
      BY <2>2 DEF SteerReply, TypeInv
    <3>2. [u EXCEPT !.pend = NoEvent] # NoTask /\ [u EXCEPT !.pend = NoEvent].batch = u.batch
      BY <1>1 DEF GoodTask, Task, NoTask
    <3> QED BY <3>1, <3>2
  <2>3. ASSUME NEW o, NEW returned, NEW reason, Finish(s, o, returned, reason) PROVE <1>4
    <3> DEFINE t == [u EXCEPT !.phase = "done", !.outcome = o, !.returned = returned,
                              !.batch.reason = reason, !.buf = NoEvent, !.pend = NoEvent]
    <3>1. tasks' = [tasks EXCEPT ![s] = t]
      BY <2>3 DEF Finish, TypeInv
    <3>2. /\ t # NoTask /\ t.batch.ch = u.batch.ch
          /\ t.batch.events = u.batch.events /\ t.batch.cancelled = u.batch.cancelled
      BY <1>1 DEF GoodTask, Task, NoTask
    <3> HIDE DEF t
    <3> QED BY <3>1, <3>2
  <2>4. CASE TaskPanics(s)
    <3> DEFINE t == [u EXCEPT !.phase = "panicked", !.buf = NoEvent, !.pend = NoEvent]
    <3>1. tasks' = [tasks EXCEPT ![s] = t]
      BY <2>4 DEF TaskPanics, TypeInv
    <3>2. /\ t # NoTask /\ t.batch.ch = u.batch.ch
          /\ t.batch.events = u.batch.events /\ t.batch.cancelled = u.batch.cancelled
      BY <1>1 DEF GoodTask, Task, NoTask
    <3> HIDE DEF t
    <3> QED BY <3>1, <3>2
  <2> QED BY <2>1, <2>2, <2>3, <2>4
<1> QED BY <1>2, <1>3, <1>4 DEF QuietStep, TasksKept, TypeInv

\* Relay events, notices and owner commands leave agents and breakers alone.
LEMMA InputsQuiet ==
  ASSUME TypeInv, NEW c \in Channels, NEW at,
         \/ RelayEvent(c, at) \/ MemberRemoved(c) \/ MemberAdded(c)
         \/ CancelTurn(c) \/ Rotate(c) \/ SwitchModel(c)
  PROVE  QuietStep
<1>1. UNCHANGED <<agents, respawn, circ>>
  BY DEF RelayEvent, MemberRemoved, MemberAdded, CancelTurn, Rotate, SwitchModel
<1>2. UNCHANGED tasks => TasksKept
  BY DEF TasksKept
<1>3. CASE RelayEvent(c, at)
  <2>1. ASSUME NEW e, NEW s \in TasksOn(c), SteerAccepted(c, e, s)
        PROVE  TasksKept
    <3> DEFINE t == [tasks[s] EXCEPT !.buf = e.id]
    <3>1. s \in Slots /\ tasks[s] \in GoodTask /\ tasks[s] # NoTask
      BY PhaseIsTask, GoodTaskFacts DEF TasksOn, TaskSlots
    <3>2. tasks' = [tasks EXCEPT ![s] = t]
      BY <2>1, <3>1 DEF SteerAccepted, TypeInv
    <3>3. t # NoTask /\ t.batch = tasks[s].batch
      BY <3>1 DEF GoodTask, Task, NoTask
    <3> HIDE DEF t
    <3> QED BY <3>1, <3>2, <3>3 DEF TasksKept, TypeInv
  <2>2. ASSUME NEW e, MidTurn(c, e) PROVE TasksKept
    BY <1>2, <2>1, <2>2, SignalledKept DEF MidTurn
  <2> QED BY <1>1, <1>2, <1>3, <2>2 DEF RelayEvent, QuietStep
<1>4. CASE MemberRemoved(c) \/ MemberAdded(c)
  BY <1>1, <1>2, <1>4 DEF MemberRemoved, MemberAdded, QuietStep
<1>5. CASE CancelTurn(c) \/ Rotate(c) \/ SwitchModel(c)
  BY <1>1, <1>2, <1>5, SignalledKept DEF CancelTurn, Rotate, SwitchModel, QuietStep
<1> QED BY <1>3, <1>4, <1>5

\* So does a steer ack.
LEMMA AckQuiet ==
  ASSUME TypeInv, NEW a \in acks, HandleAck(a)
  PROVE  QuietStep
<1>1. a.ch \in Channels
  BY DEF TypeInv, TypeOK
<1>2. UNCHANGED tasks => TasksKept
  BY DEF TasksKept
<1> QED BY <1>1, <1>2, SignalledKept DEF HandleAck, QuietStep

\* So do the remaining steps of the loop and of the queue's timers.
LEMMA OthersQuiet ==
  ASSUME \/ NoMaintenance \/ DrainDone \/ PeriodicTick \/ Shutdown \/ UNCHANGED vars
         \/ \E c \in Channels : ThrottleElapses(c) \/ DeadlinePasses(c)
  PROVE  QuietStep
BY DEF NoMaintenance, DrainDone, PeriodicTick, Shutdown, vars, ThrottleElapses, DeadlinePasses,
       QuietStep, TasksKept

-----------------------------------------------------------------------------
(* Slots *)

SlotInv == SlotExclusive /\ OpenCircuitKeepsSlotEmpty

\* Such a quiet step preserves the slot invariant.
LEMMA SlotQuiet ==
  ASSUME SlotInv, QuietStep
  PROVE  SlotInv'
BY DEF SlotInv, SlotExclusive, OpenCircuitKeepsSlotEmpty, QuietStep, TasksKept

\* A slot's agent is handed a task.
LEMMA SlotTaken ==
  ASSUME TypeInv, SlotInv, NEW s \in Idle, NEW t \in GoodTask,
         agents' = [agents EXCEPT ![s] = "out"],
         tasks' = [tasks EXCEPT ![s] = t],
         UNCHANGED <<respawn, circ>>
  PROVE  SlotInv'
<1>1. s \in Slots /\ agents[s] = "idle" /\ t # NoTask
  BY GoodTaskFacts DEF Idle
<1> QED BY <1>1 DEF SlotInv, SlotExclusive, OpenCircuitKeepsSlotEmpty, TypeInv, TypeOK

\* A slot's task is over and its agent dead.
LEMMA SlotCrashed ==
  ASSUME TypeInv, SlotInv, NEW s \in Slots, tasks[s] # NoTask,
         tasks' = [tasks EXCEPT ![s] = NoTask], Crash(s)
  PROVE  SlotInv'
<1>1. agents[s] = "out" /\ respawn[s] = "no" /\ circ[s].openUntil = "none"
  BY DEF SlotInv, SlotExclusive, OpenCircuitKeepsSlotEmpty
<1>2. /\ RespawnAllowed(circ[s]) => RecordCrash(circ[s]).openUntil = "none"
      /\ RecordCrash(circ[s]).openUntil \in {"none", "armed"}
  BY <1>1, CircuitAssumption
     DEF RespawnAllowed, RecordCrash, HalfOpen, Circuit, TypeInv, TypeOK
<1> QED BY <1>1, <1>2
        DEF Crash, SlotInv, SlotExclusive, OpenCircuitKeepsSlotEmpty, TypeInv, TypeOK

\* Refilling slots and collecting respawn results preserve the slot invariant.
LEMMA SlotLoop ==
  ASSUME TypeInv, SlotInv, Maintenance \/ CollectRespawns
  PROVE  SlotInv'
<1>1. CASE Maintenance
  <2>1. \A s \in Refillable : /\ agents[s] = "none" /\ tasks[s] = NoTask /\ respawn[s] = "no"
                              /\ Refilled(circ[s]).openUntil = "none"
    BY DEF Refillable, CanRefill, Refilled, HalfOpen, Circuit, SlotInv, SlotExclusive,
           TypeInv, TypeOK
  <2> QED BY <1>1, <2>1 DEF Maintenance, SlotInv, SlotExclusive, OpenCircuitKeepsSlotEmpty,
                            TypeInv, TypeOK
<1>2. CASE CollectRespawns
  <2>1. \A s \in Slots : respawn[s] # "no" =>
          agents[s] = "none" /\ tasks[s] = NoTask /\ circ[s].openUntil = "none"
    BY DEF SlotInv, SlotExclusive, OpenCircuitKeepsSlotEmpty
  <2> QED BY <1>2, <2>1 DEF CollectRespawns, SlotInv, SlotExclusive,
                            OpenCircuitKeepsSlotEmpty, TypeInv, TypeOK
<1> QED BY <1>1, <1>2

\* Starting a turn or a heartbeat preserves it.
LEMMA SlotDispatch ==
  ASSUME TypeInv, SlotInv, DispatchStep \/ HeartbeatTick
  PROVE  SlotInv'
<1>1. CASE UNCHANGED <<agents, tasks>>
  <2>1. UNCHANGED <<respawn, circ>>
    BY DEF DispatchStep, HeartbeatTick
  <2> QED BY <1>1, <2>1, SlotQuiet DEF QuietStep, TasksKept
<1>2. ASSUME NEW r \in FlushNext(q), Idle # {},
             agents' = [agents EXCEPT ![Claim(r.batch.ch)] = "out"],
             tasks' = [tasks EXCEPT ![Claim(r.batch.ch)] = NewTask(r.batch, "open")]
      PROVE  SlotInv'
  <2>1. UNCHANGED <<respawn, circ>>
    BY DEF DispatchStep, HeartbeatTick
  <2>2. NewTask(r.batch, "open") \in GoodTask
    BY FlushBounded, NewTaskGood DEF TypeInv
  <2> QED BY <1>2, <2>1, <2>2, ClaimIdle, SlotTaken
<1>3. CASE HeartbeatTick /\ ~UNCHANGED <<agents, tasks>>
  <2> DEFINE b == [ch |-> Heartbeat, events |-> <<>>, cancelled |-> <<>>, reason |-> "none"]
             t == NewTask(b, "none")
  <2>1. t \in GoodTask
    BY HeartbeatTaskGood
  <2>2. /\ Idle # {} /\ UNCHANGED <<respawn, circ>>
        /\ agents' = [agents EXCEPT ![FirstOf(Idle)] = "out"]
        /\ tasks' = [tasks EXCEPT ![FirstOf(Idle)] = t]
    BY <1>3 DEF HeartbeatTick
  <2>3. FirstOf(Idle) \in Idle
    BY <2>2, FirstOfMember DEF Idle
  <2> HIDE DEF t
  <2> QED BY <2>1, <2>2, <2>3, SlotTaken
<1> QED BY <1>1, <1>2, <1>3 DEF DispatchStep

\* Ending a turn by a result or a panic preserves it.
LEMMA SlotEnds ==
  ASSUME TypeInv, SlotInv, NEW s \in Slots, HandleResult(s) \/ HandlePanic(s)
  PROVE  SlotInv'
<1>1. tasks[s] # NoTask /\ tasks' = [tasks EXCEPT ![s] = NoTask]
  BY DEF HandleResult, HandlePanic, NoTask
<1>2. CASE Crash(s)
  BY <1>1, <1>2, SlotCrashed
<1>3. CASE agents' = [agents EXCEPT ![s] = "idle"] /\ UNCHANGED <<respawn, circ>>
  <2>1. respawn[s] = "no" /\ circ[s].openUntil = "none"
    BY <1>1 DEF SlotInv, SlotExclusive, OpenCircuitKeepsSlotEmpty
  <2> QED BY <1>1, <1>3, <2>1
          DEF SlotInv, SlotExclusive, OpenCircuitKeepsSlotEmpty, TypeInv, TypeOK
<1> QED BY <1>2, <1>3 DEF HandleResult, HandlePanic

\* The end of a respawn task and the breaker's timers preserve it.
LEMMA SlotOthers ==
  ASSUME TypeInv, SlotInv, NEW s \in Slots,
         RespawnEnds(s) \/ CrashesAge(s) \/ CooldownElapses(s)
  PROVE  SlotInv'
<1>1. CASE RespawnEnds(s)
  BY <1>1 DEF RespawnEnds, MainLoopVars, SlotInv, SlotExclusive, OpenCircuitKeepsSlotEmpty,
              TypeInv, TypeOK
<1>2. CASE CrashesAge(s)
  BY <1>2 DEF CrashesAge, SlotInv, SlotExclusive, OpenCircuitKeepsSlotEmpty,
              TypeInv, TypeOK, Circuit
<1>3. CASE CooldownElapses(s)
  BY <1>3 DEF CooldownElapses, SlotInv, SlotExclusive, OpenCircuitKeepsSlotEmpty,
              TypeInv, TypeOK, Circuit
<1> QED BY <1>1, <1>2, <1>3

\* The quiet task steps, under the name the prompt task gives them.
LEMMA TaskStepCases ==
  ASSUME TypeInv, NEW s \in Slots, TaskStep(s)
  PROVE  RespawnEnds(s) \/ QuietStep
BY TaskStepKept DEF TaskStep, TurnEnds, TurnCancelled

\* The slot invariant is inductive relative to the type invariant.
LEMMA SlotNext == TypeInv /\ SlotInv /\ [Next]_vars => SlotInv'
<1> SUFFICES ASSUME TypeInv, SlotInv, [Next]_vars PROVE SlotInv'
  OBVIOUS
<1>1. CASE MainLoop
  BY <1>1, SlotLoop, SlotDispatch, SlotEnds, SlotQuiet, OthersQuiet, AckQuiet DEF MainLoop
<1>2. CASE Inputs
  BY <1>2, SlotDispatch, SlotQuiet, OthersQuiet, InputsQuiet DEF Inputs
<1>3. CASE \E s \in Slots : TaskStep(s)
  BY <1>3, SlotOthers, SlotQuiet, TaskStepCases
<1>4. CASE Clock
  BY <1>4, SlotOthers, SlotQuiet, OthersQuiet DEF Clock
<1>5. CASE UNCHANGED vars
  BY <1>5, SlotQuiet, OthersQuiet
<1> QED BY <1>1, <1>2, <1>3, <1>4, <1>5 DEF Next

\* It holds initially.
LEMMA SlotInit == Init => SlotInv
BY DEF Init, SlotInv, SlotExclusive, OpenCircuitKeepsSlotEmpty, NewCircuit

\* An agent is idle in its slot, out with one task, or gone; it is never respawned while
\* it lives, so return_agent never finds its slot occupied.
THEOREM AgentInOnePlace == Spec => []SlotExclusive
<1>1. Spec => [](TypeInv /\ SlotInv)
  BY TypeInit, TypeNext, SlotInit, SlotNext, PTL DEF Spec
<1>2. SlotInv => SlotExclusive
  BY DEF SlotInv
<1> QED BY <1>1, <1>2, PTL

\* While a slot's circuit breaker is open the slot has no agent and no respawn task.
THEOREM BreakerHolds == Spec => []OpenCircuitKeepsSlotEmpty
<1>1. Spec => [](TypeInv /\ SlotInv)
  BY TypeInit, TypeNext, SlotInit, SlotNext, PTL DEF Spec
<1>2. SlotInv => OpenCircuitKeepsSlotEmpty
  BY DEF SlotInv
<1> QED BY <1>1, <1>2, PTL

-----------------------------------------------------------------------------
(* Sessions *)

\* Idle agents of the next state were idle or got their sessions from HandleResult or a
\* respawn; MemberRemoved strips the idle ones; a task that ends touches an agent that is out.
LEMMA SessionsNext == TypeInv /\ SlotInv /\ NoStaleSession /\ [Next]_vars => NoStaleSession'
<1> SUFFICES ASSUME TypeInv, SlotInv, NoStaleSession, [Next]_vars PROVE NoStaleSession'
  OBVIOUS
<1>1. CASE \/ UNCHANGED <<agents, sess, removed>>
           \/ UNCHANGED <<sess, removed>> /\ Idle' \subseteq Idle
  BY <1>1 DEF NoStaleSession, Idle
<1>2. CASE DispatchStep \/ HeartbeatTick
  <2>1. ASSUME NEW s, agents' = [agents EXCEPT ![s] = "out"] PROVE Idle' \subseteq Idle
    BY <2>1 DEF Idle, TypeInv, TypeOK
  <2> QED BY <1>1, <1>2, <2>1 DEF DispatchStep, HeartbeatTick
<1>3. CASE CollectRespawns
  BY <1>3 DEF CollectRespawns, NoStaleSession, Idle, TypeInv, TypeOK
<1>4. ASSUME NEW s \in Slots, HandleResult(s) PROVE NoStaleSession'
  <2>1. CASE Crash(s)
    BY <1>4, <2>1 DEF HandleResult, Crash, NoStaleSession, Idle, TypeInv, TypeOK
  <2>2. CASE ~Crash(s)
    BY <1>4, <2>2 DEF HandleResult, NoStaleSession, Idle, TypeInv, TypeOK
  <2> QED BY <2>1, <2>2
<1>5. ASSUME NEW s \in Slots, HandlePanic(s) PROVE NoStaleSession'
  BY <1>5 DEF HandlePanic, Crash, NoStaleSession, Idle, TypeInv, TypeOK
<1>6. ASSUME NEW c \in Channels, MemberRemoved(c) PROVE NoStaleSession'
  BY <1>6 DEF MemberRemoved, InvalidateChannelSessions, NoStaleSession, Idle, TypeInv, TypeOK
<1>7. ASSUME NEW c \in Channels, MemberAdded(c) PROVE NoStaleSession'
  BY <1>7 DEF MemberAdded, NoStaleSession, Idle, TypeInv, TypeOK
<1>8. ASSUME NEW c \in Channels, Rotate(c) \/ SwitchModel(c) PROVE NoStaleSession'
  <2>1. UNCHANGED <<agents, removed>>
    BY <1>8 DEF Rotate, SwitchModel
  <2>2. ASSUME NEW s \in Slots PROVE sess'[s] \subseteq sess[s]
    <3>1. CASE Rotate(c)
      BY <3>1 DEF Rotate, InvalidateChannelSessions
    <3>2. CASE SwitchModel(c)
      BY <3>2 DEF SwitchModel, SwitchIdleAgentModel, TypeInv, TypeOK
    <3> QED BY <1>8, <3>1, <3>2
  <2> QED BY <2>1, <2>2 DEF NoStaleSession, Idle
<1>9. ASSUME NEW s \in Slots, NEW o, NEW returned, NEW reason, Running(s),
             Finish(s, o, returned, reason)
      PROVE  NoStaleSession'
  <2>1. agents[s] = "out"
    BY <1>9 DEF Running, NoTask, SlotInv, SlotExclusive
  <2> QED BY <1>9, <2>1 DEF Finish, MainLoopVars, NoStaleSession, Idle, TypeInv, TypeOK
<1>10. CASE MainLoop
  <2>1. CASE Maintenance \/ NoMaintenance \/ DrainDone \/ \E a \in acks : HandleAck(a)
    BY <1>1, <2>1 DEF Maintenance, NoMaintenance, DrainDone, HandleAck
  <2> QED BY <1>2, <1>3, <1>4, <1>5, <1>10, <2>1 DEF MainLoop
<1>11. CASE Inputs
  <2>1. CASE \/ PeriodicTick \/ Shutdown
             \/ \E c \in Channels : CancelTurn(c) \/ \E at \in 1 .. MaxCreated : RelayEvent(c, at)
    BY <1>1, <2>1 DEF PeriodicTick, Shutdown, RelayEvent, CancelTurn
  <2> QED BY <1>2, <1>6, <1>7, <1>8, <1>11, <2>1 DEF Inputs
<1>12. ASSUME NEW s \in Slots, TaskStep(s) PROVE NoStaleSession'
  <2>1. CASE \/ TakeSteer(s) \/ TaskPanics(s) \/ RespawnEnds(s)
             \/ \E kind \in {"success", "release", "fallback"} : SteerReply(s, kind)
    BY <1>1, <2>1 DEF TakeSteer, TaskPanics, RespawnEnds, SteerReply, MainLoopVars
  <2> QED BY <1>9, <1>12, <2>1 DEF TaskStep, TurnEnds, TurnCancelled
<1>13. CASE Clock
  BY <1>1, <1>13 DEF Clock, ThrottleElapses, DeadlinePasses, CrashesAge, CooldownElapses
<1>14. CASE UNCHANGED vars
  BY <1>1, <1>14 DEF vars
<1> QED BY <1>10, <1>11, <1>12, <1>13, <1>14 DEF Next

\* An idle agent never holds a session for a channel the harness was removed from, even when
\* the removal raced with the agent's turn on that channel.
THEOREM SessionsFresh == Spec => []NoStaleSession
<1>1. Init => NoStaleSession
  BY DEF Init, NoStaleSession
<1>2. Spec => [](TypeInv /\ SlotInv /\ NoStaleSession)
  BY <1>1, TypeInit, TypeNext, SlotInit, SlotNext, SessionsNext, PTL DEF Spec
<1> QED BY <1>2, PTL

-----------------------------------------------------------------------------
(* Turns.  TurnKept(a, b): the queue b, reached from a, has the same channels in flight and *)
(* no new lapse, throttle or stored cancelled batch.                                        *)

TurnKept(a, b) ==
  /\ b.inFlight = a.inFlight
  /\ \A c \in Channels : /\ b.deadlines[c] = "passed" => a.deadlines[c] = "passed"
                         /\ b.retryAfter[c] = "armed" => a.retryAfter[c] = "armed"
                         /\ b.cancelled[c] # <<>> => a.cancelled[c] # <<>>

NoLapse(a) == \A c \in Channels : a.deadlines[c] # "passed"

\* Without a lapsed deadline the auto-expiry block changes nothing.
LEMMA ExpireIsIdle ==
  ASSUME NEW a \in BoundedQueue, NoLapse(a)
  PROVE  ExpireInFlight(a) = a
<1>1. Expired(a) = {}
  BY DEF Expired, NoLapse
<1> DEFINE x == ExpireInFlight(a)
<1>2. x \in BoundedQueue
  BY ExpireBounded
<1>3. /\ x.inFlight = a.inFlight
      /\ x.deadlines = a.deadlines
      /\ x.queues = a.queues
      /\ x.withheld = a.withheld
  BY <1>1 DEF ExpireInFlight, BoundedQueue
<1>4. /\ x.retryAfter = a.retryAfter
      /\ x.retryCounts = a.retryCounts
      /\ x.cancelled = a.cancelled
      /\ x.reasons = a.reasons
  BY DEF ExpireInFlight, BoundedQueue
<1> HIDE DEF x
<1>5. x = a
  BY <1>2, <1>3, <1>4 DEF BoundedQueue
<1> QED BY <1>5 DEF x

\* Queue operations that do not start or end a turn keep the facts about turns.
LEMMA OpsKeepTurns ==
  ASSUME NEW a \in BoundedQueue, NEW c \in Channels, NEW e, NEW id
  PROVE  /\ TurnKept(a, a)
         /\ TurnKept(a, Push(a, c, e))
         /\ TurnKept(a, MarkNativeSteerPending(a, c, id))
         /\ TurnKept(a, ReleaseNativeSteer(a, c, id))
         /\ TurnKept(a, RemoveEvent(a, c, id))
         /\ TurnKept(a, ExtendDeadline(a, c))
         /\ TurnKept(a, DrainChannel(a, c))
<1>1. TurnKept(a, a)
  BY DEF TurnKept
<1>2. TurnKept(a, Push(a, c, e))
  BY DEF TurnKept, Push, BoundedQueue
<1>3. TurnKept(a, MarkNativeSteerPending(a, c, id))
  BY DEF TurnKept, MarkNativeSteerPending, BoundedQueue
<1>4. TurnKept(a, ReleaseNativeSteer(a, c, id))
  BY DEF TurnKept, ReleaseNativeSteer, BoundedQueue
<1>5. TurnKept(a, RemoveEvent(a, c, id))
  BY DEF TurnKept, RemoveEvent, BoundedQueue
<1>6. TurnKept(a, ExtendDeadline(a, c))
  BY DEF TurnKept, ExtendDeadline, BoundedQueue
<1>7. TurnKept(a, DrainChannel(a, c))
  BY DEF TurnKept, DrainChannel, BoundedQueue
<1> QED BY <1>1, <1>2, <1>3, <1>4, <1>5, <1>6, <1>7

\* Compaction keeps them.
LEMMA CompactKeepsTurns ==
  ASSUME NEW a \in BoundedQueue
  PROVE  TurnKept(a, CompactExpiredState(a))
BY DEF TurnKept, CompactExpiredState, BoundedQueue

\* Keeping them composes.
LEMMA KeptTransitive ==
  ASSUME NEW a, NEW b, NEW d, TurnKept(a, b), TurnKept(b, d)
  PROVE  TurnKept(a, d)
BY DEF TurnKept

\* While no in-flight deadline has passed: a channel is in flight exactly when one task works
\* on it; a throttled channel is neither in flight nor waiting to re-run a cancelled batch.
ChannelTurns ==
  /\ NoLapse(q)
  /\ \A c \in Channels : /\ c \in q.inFlight <=> TasksOn(c) # {}
                         /\ \A s, t \in TasksOn(c) : s = t
                         /\ q.retryAfter[c] = "armed" => c \notin q.inFlight
                         /\ q.retryAfter[c] = "armed" => q.cancelled[c] = <<>>
                         /\ c \in q.inFlight => q.cancelled[c] = <<>>

HeartbeatTurns ==
  /\ hbInFlight <=> TasksOn(Heartbeat) # {}
  /\ \A s, t \in TasksOn(Heartbeat) : s = t

TurnInv == (lapses = 0 => ChannelTurns) /\ HeartbeatTurns

\* If the task map is kept, so is the set of tasks of each channel.
LEMMA TasksOnKept ==
  ASSUME TasksKept, NEW c
  PROVE  TasksOn(c)' = TasksOn(c)
BY DEF TasksKept, TasksOn, TaskSlots

\* A step that keeps tasks and turns keeps the invariant.
LEMMA TurnQuiet ==
  ASSUME TurnInv, TasksKept, UNCHANGED hbInFlight,
         lapses' = 0 => lapses = 0 /\ TurnKept(q, q')
  PROVE  TurnInv'
<1>1. \A c : TasksOn(c)' = TasksOn(c)
  BY TasksOnKept
<1>2. HeartbeatTurns'
  BY <1>1 DEF TurnInv, HeartbeatTurns
<1>3. ASSUME lapses' = 0 PROVE ChannelTurns'
  <2>1. ChannelTurns /\ TurnKept(q, q')
    BY <1>3 DEF TurnInv
  <2>2. \A c \in Channels : /\ c \in q'.inFlight <=> TasksOn(c)' # {}
                            /\ \A s, t \in TasksOn(c)' : s = t
    BY <1>1, <2>1 DEF ChannelTurns, TurnKept
  <2> QED BY <2>1, <2>2 DEF ChannelTurns, TurnKept, NoLapse
<1> QED BY <1>2, <1>3 DEF TurnInv

\* flush_next dispatches a channel that is not in flight, and not under a throttle unless it
\* has a cancelled batch to re-run.
LEMMA FlushTurn ==
  ASSUME NEW a \in BoundedQueue, NoLapse(a), NEW r \in FlushNext(a)
  PROVE  /\ r.batch.ch \in Channels \ a.inFlight
         /\ a.retryAfter[r.batch.ch] # "armed" \/ a.cancelled[r.batch.ch] # <<>>
         /\ r.q.inFlight = a.inFlight \cup {r.batch.ch}
         /\ NoLapse(r.q)
         /\ r.q.retryAfter = a.retryAfter
         /\ r.q.cancelled = [a.cancelled EXCEPT ![r.batch.ch] = <<>>]
<1>1. ExpireInFlight(a) = a
  BY ExpireIsIdle
<1>2. ASSUME NEW c \in OldestHead(a), r = FlushQueued(a, c)
      PROVE  /\ r.batch.ch = c /\ c \in Channels \ a.inFlight /\ a.retryAfter[c] # "armed"
             /\ r.q.inFlight = a.inFlight \cup {c} /\ NoLapse(r.q)
             /\ r.q.retryAfter = a.retryAfter
             /\ r.q.cancelled = [a.cancelled EXCEPT ![c] = <<>>]
  <2>1. c \in Channels \ a.inFlight /\ a.retryAfter[c] # "armed"
    BY DEF OldestHead, Flushable
  <2>2. PICK v : r.q = MarkInFlight([a EXCEPT !.queues[c] = v], c) /\ r.batch.ch = c
    BY <1>2 DEF FlushQueued
  <2> QED BY <2>1, <2>2 DEF MarkInFlight, NoLapse, BoundedQueue
<1>3. ASSUME NEW c \in CancelledReady(a), r = FlushCancelled(a, c)
      PROVE  /\ r.batch.ch = c /\ c \in Channels \ a.inFlight /\ a.cancelled[c] # <<>>
             /\ r.q.inFlight = a.inFlight \cup {c} /\ NoLapse(r.q)
             /\ r.q.retryAfter = a.retryAfter
             /\ r.q.cancelled = [a.cancelled EXCEPT ![c] = <<>>]
  BY <1>3 DEF CancelledReady, FlushCancelled, MarkInFlight, NoLapse, BoundedQueue
<1> QED BY <1>1, <1>2, <1>3 DEF FlushNext

\* Starting a task adds its slot to the tasks of its channel only.
LEMMA TaskAdded ==
  ASSUME TypeInv, SlotInv, NEW s \in Idle, NEW t \in GoodTask,
         tasks' = [tasks EXCEPT ![s] = t]
  PROVE  /\ TasksOn(t.batch.ch)' = TasksOn(t.batch.ch) \cup {s}
         /\ \A c : c # t.batch.ch => TasksOn(c)' = TasksOn(c)
<1>1. s \in Slots /\ tasks[s] = NoTask /\ t # NoTask
  BY GoodTaskFacts DEF Idle, SlotInv, SlotExclusive
<1> QED BY <1>1 DEF TasksOn, TaskSlots, TypeInv

\* Ending a task removes its slot from them.
LEMMA TaskRemoved ==
  ASSUME TypeInv, NEW s \in Slots, tasks' = [tasks EXCEPT ![s] = NoTask], NEW c
  PROVE  TasksOn(c)' = TasksOn(c) \ {s}
BY DEF TasksOn, TaskSlots, TypeInv

\* dispatch_pending preserves the turn invariant.
LEMMA TurnDispatch ==
  ASSUME TypeInv, SlotInv, TurnInv, DispatchStep
  PROVE  TurnInv'
<1>1. UNCHANGED <<hbInFlight, lapses>> /\ q \in BoundedQueue
  BY DEF DispatchStep, TypeInv
<1>2. UNCHANGED tasks => TasksKept
  BY DEF TasksKept
<1>3. CASE q' = ExpireInFlight(q) /\ UNCHANGED tasks
  <2>1. lapses' = 0 => TurnKept(q, q')
    BY <1>1, <1>3, ExpireIsIdle, OpsKeepTurns DEF TurnInv, ChannelTurns, TurnKept
  <2> QED BY <1>1, <1>2, <1>3, <2>1, TurnQuiet
<1>4. ASSUME NEW r \in FlushNext(q), Idle # {}, q' = r.q,
             tasks' = [tasks EXCEPT ![Claim(r.batch.ch)] = NewTask(r.batch, "open")]
      PROVE  TurnInv'
  <2> DEFINE c == r.batch.ch
             s == Claim(c)
             t == NewTask(r.batch, "open")
  <2>1. s \in Idle /\ t \in GoodTask /\ t.batch.ch = c /\ c \in Channels
    BY <1>1, <1>4, ClaimIdle, FlushBounded, NewTaskGood DEF NewTask, Batch
  <2>2. tasks' = [tasks EXCEPT ![s] = t]
    BY <1>4
  <2> HIDE DEF c, s, t
  <2>3. TasksOn(c)' = TasksOn(c) \cup {s} /\ \A d : d # c => TasksOn(d)' = TasksOn(d)
    BY <2>1, <2>2, TaskAdded
  <2>4. HeartbeatTurns'
    <3>1. TasksOn(Heartbeat)' = TasksOn(Heartbeat)
      BY <2>1, <2>3, HeartbeatAssumption
    <3> QED BY <1>1, <3>1 DEF TurnInv, HeartbeatTurns
  <2>5. ASSUME lapses' = 0 PROVE ChannelTurns'
    <3>1. ChannelTurns
      BY <1>1, <2>5 DEF TurnInv
    <3>2. /\ c \notin q.inFlight /\ (q.retryAfter[c] # "armed" \/ q.cancelled[c] # <<>>)
          /\ q'.inFlight = q.inFlight \cup {c} /\ NoLapse(q')
          /\ q'.retryAfter = q.retryAfter
          /\ q'.cancelled = [q.cancelled EXCEPT ![c] = <<>>]
      BY <1>1, <1>4, <3>1, FlushTurn DEF ChannelTurns, c
    <3>3. TasksOn(c)' = {s} /\ q.retryAfter[c] # "armed"
      BY <2>1, <2>3, <3>1, <3>2 DEF ChannelTurns
    <3>4. q.cancelled \in [Channels -> EventSeq]
      BY <1>1 DEF BoundedQueue
    <3>5. \A d \in Channels : /\ d \in q'.inFlight <=> TasksOn(d)' # {}
                              /\ \A x, y \in TasksOn(d)' : x = y
      BY <2>3, <3>1, <3>2, <3>3 DEF ChannelTurns
    <3>6. \A d \in Channels : /\ q'.retryAfter[d] = "armed" => d \notin q'.inFlight
                              /\ q'.retryAfter[d] = "armed" => q'.cancelled[d] = <<>>
                              /\ d \in q'.inFlight => q'.cancelled[d] = <<>>
      BY <3>1, <3>2, <3>3, <3>4 DEF ChannelTurns
    <3> QED BY <3>2, <3>5, <3>6 DEF ChannelTurns, NoLapse
  <2> QED BY <2>4, <2>5 DEF TurnInv
<1>5. ASSUME NEW r \in FlushNext(q), UNCHANGED tasks,
             q' = MarkComplete(RequeuePreserve(r.q, r.batch), r.batch.ch)
      PROVE  TurnInv'
  <2> DEFINE c == r.batch.ch
  <2>1. r.q \in BoundedQueue /\ c \in Channels
    BY <1>1, FlushBounded DEF Batch
  <2>2. ASSUME lapses' = 0 PROVE TurnKept(q, q')
    <3>1. NoLapse(q)
      BY <1>1, <2>2 DEF TurnInv, ChannelTurns
    <3>2. /\ c \notin q.inFlight
          /\ r.q.inFlight = q.inFlight \cup {c} /\ NoLapse(r.q)
          /\ r.q.retryAfter = q.retryAfter
          /\ r.q.cancelled = [q.cancelled EXCEPT ![c] = <<>>]
      BY <1>1, <1>5, <3>1, FlushTurn
    <3>3. /\ q'.inFlight = r.q.inFlight \ {c}
          /\ q'.cancelled = r.q.cancelled
          /\ \A d \in Channels : /\ q'.deadlines[d] = "passed" => r.q.deadlines[d] = "passed"
                                 /\ q'.retryAfter[d] = "armed" => r.q.retryAfter[d] = "armed"
      <4> HIDE DEF c
      <4>1. PICK v : RequeuePreserve(r.q, r.batch) = [r.q EXCEPT !.queues[c] = v]
        BY DEF RequeuePreserve, c
      <4>2. q' = MarkComplete([r.q EXCEPT !.queues[c] = v], c)
        BY <1>5, <4>1 DEF c
      <4> QED BY <2>1, <4>2 DEF MarkComplete, BoundedQueue
    <3>4. q.cancelled \in [Channels -> EventSeq]
      BY <1>1 DEF BoundedQueue
    <3> QED BY <3>2, <3>3, <3>4 DEF TurnKept, NoLapse
  <2> QED BY <1>1, <1>2, <1>5, <2>2, TurnQuiet
<1> QED BY <1>3, <1>4, <1>5 DEF DispatchStep

\* The heartbeat tick preserves it.
LEMMA TurnHeartbeat ==
  ASSUME TypeInv, SlotInv, TurnInv, HeartbeatTick
  PROVE  TurnInv'
<1>1. UNCHANGED lapses /\ q' = ExpireInFlight(q) /\ q \in BoundedQueue
  BY DEF HeartbeatTick, TypeInv
<1>2. lapses' = 0 => q' = q
  BY <1>1, ExpireIsIdle DEF TurnInv, ChannelTurns
<1>3. CASE UNCHANGED <<tasks, hbInFlight>>
  BY <1>1, <1>2, <1>3, TurnQuiet, OpsKeepTurns DEF TasksKept, TurnKept
<1>4. CASE ~UNCHANGED <<tasks, hbInFlight>>
  <2> DEFINE b == [ch |-> Heartbeat, events |-> <<>>, cancelled |-> <<>>, reason |-> "none"]
             t == NewTask(b, "none")
             s == FirstOf(Idle)
  <2>1. t \in GoodTask /\ t.batch.ch = Heartbeat
    BY HeartbeatTaskGood DEF NewTask
  <2>2. Idle # {} /\ ~hbInFlight /\ hbInFlight' = TRUE /\ tasks' = [tasks EXCEPT ![s] = t]
    BY <1>4 DEF HeartbeatTick
  <2>3. s \in Idle
    BY <2>2, FirstOfMember DEF Idle
  <2> HIDE DEF t, s
  <2>4. /\ TasksOn(Heartbeat)' = TasksOn(Heartbeat) \cup {s}
        /\ \A d : d # Heartbeat => TasksOn(d)' = TasksOn(d)
    BY <2>1, <2>2, <2>3, TaskAdded
  <2>5. HeartbeatTurns'
    BY <2>2, <2>4 DEF TurnInv, HeartbeatTurns
  <2>6. ASSUME lapses' = 0 PROVE ChannelTurns'
    <3>1. ChannelTurns /\ q' = q
      BY <1>1, <1>2, <2>6 DEF TurnInv
    <3>2. \A d \in Channels : TasksOn(d)' = TasksOn(d)
      BY <2>4, HeartbeatAssumption
    <3> QED BY <3>1, <3>2 DEF ChannelTurns, NoLapse
  <2> QED BY <2>5, <2>6 DEF TurnInv
<1> QED BY <1>3, <1>4

\* However the batch of a channel's turn is settled, the channel leaves inFlight, and it is
\* throttled only if no cancelled batch of it is stored.
LEMMA SettledTurn ==
  ASSUME TypeInv, NoLapse(q), NEW b \in Batch,
         q.retryAfter[b.ch] # "armed", q.cancelled[b.ch] = <<>>,
         StoreCancelled(b) \/ RequeueFailed(b) \/ \E v : EndBatch(b, v)
  PROVE  /\ q'.inFlight = q.inFlight \ {b.ch}
         /\ NoLapse(q')
         /\ \A d \in Channels \ {b.ch} : /\ q'.retryAfter[d] = q.retryAfter[d]
                                         /\ q'.cancelled[d] = q.cancelled[d]
         /\ q'.retryAfter[b.ch] = "armed" => q'.cancelled[b.ch] = <<>>
         /\ UNCHANGED hbInFlight
<1> DEFINE c == b.ch
<1>1. c \in Channels /\ c # Heartbeat /\ q \in BoundedQueue
  BY HeartbeatAssumption DEF Batch, TypeInv
<1>2. PICK qq \in {q, Requeue(q, b), RequeueAsCancelled(q, b)} :
        q' = MarkComplete(qq, c) /\ UNCHANGED hbInFlight
  BY <1>1 DEF StoreCancelled, RequeueFailed, EndBatch, MarkTaskComplete
<1>3. /\ qq \in BoundedQueue
      /\ qq.inFlight = q.inFlight
      /\ \A d \in Channels : qq.deadlines[d] # "passed"
      /\ \A d \in Channels \ {c} : /\ qq.retryAfter[d] = q.retryAfter[d]
                                   /\ qq.cancelled[d] = q.cancelled[d]
      /\ qq.retryAfter[c] = "armed" => qq.cancelled[c] = <<>>
  <2>1. CASE qq = q
    BY <1>1, <2>1 DEF NoLapse
  <2>2. CASE qq = Requeue(q, b)
    <3>1. qq \in BoundedQueue
      BY <1>1, <2>2, RequeueBounded
    <3>2. /\ qq.inFlight = q.inFlight /\ qq.deadlines = q.deadlines
          /\ qq.cancelled = q.cancelled
          /\ \A d \in Channels \ {c} : qq.retryAfter[d] = q.retryAfter[d]
      BY <1>1, <2>2 DEF Requeue, BoundedQueue
    <3> QED BY <3>1, <3>2 DEF NoLapse
  <2>3. CASE qq = RequeueAsCancelled(q, b)
    <3>1. qq \in BoundedQueue
      BY <1>1, <2>3, RequeueAsCancelledBounded
    <3>2. /\ qq.inFlight = q.inFlight /\ qq.deadlines = q.deadlines
          /\ qq.retryAfter = q.retryAfter
          /\ \A d \in Channels \ {c} : qq.cancelled[d] = q.cancelled[d]
      BY <1>1, <2>3 DEF RequeueAsCancelled, BoundedQueue
    <3> QED BY <3>1, <3>2 DEF NoLapse
  <2> QED BY <1>2, <2>1, <2>2, <2>3
<1> HIDE DEF c
<1>4. /\ q'.inFlight = qq.inFlight \ {c}
      /\ \A d \in Channels : q'.deadlines[d] # "passed"
      /\ \A d \in Channels \ {c} : q'.retryAfter[d] = qq.retryAfter[d]
      /\ q'.cancelled = qq.cancelled
      /\ q'.retryAfter[c] = "armed" => qq.retryAfter[c] = "armed"
  BY <1>1, <1>2, <1>3 DEF MarkComplete, BoundedQueue
<1> QED BY <1>2, <1>3, <1>4 DEF c, NoLapse

\* Handling a prompt result or a panic preserves it.
LEMMA TurnEnded ==
  ASSUME TypeInv, SlotInv, TurnInv, NEW s \in Slots, HandleResult(s) \/ HandlePanic(s)
  PROVE  TurnInv'
<1> DEFINE b == tasks[s].batch
<1>1. /\ UNCHANGED lapses
      /\ tasks' = [tasks EXCEPT ![s] = NoTask]
      /\ tasks[s] \in GoodTask
  BY PhaseIsTask DEF HandleResult, HandlePanic
<1>2. \A c : TasksOn(c)' = TasksOn(c) \ {s}
  BY <1>1, TaskRemoved
<1>3. s \in TasksOn(b.ch)
  BY <1>1, GoodTaskFacts DEF TasksOn, TaskSlots
<1>4. /\ StoreCancelled(b) \/ RequeueFailed(b) \/ \E v : EndBatch(b, v)
      /\ b.ch = Heartbeat => \E v : EndBatch(b, v)
  <2>1. b.ch = Heartbeat => ~tasks[s].returned
    BY <1>1 DEF GoodTask
  <2> QED BY <2>1 DEF HandleResult, HandlePanic, ResultBatch
<1>5. b.ch # Heartbeat => b \in Batch
  BY <1>1, GoodTaskFacts
<1>6. \A c : c # b.ch => s \notin TasksOn(c)
  BY DEF TasksOn
<1> HIDE DEF b
<1>7. CASE b.ch = Heartbeat
  <2>1. q' = q /\ hbInFlight' = FALSE
    BY <1>4, <1>7 DEF EndBatch, MarkTaskComplete
  <2>2. TasksOn(Heartbeat)' = {}
    BY <1>2, <1>3, <1>7 DEF TurnInv, HeartbeatTurns
  <2>3. \A c \in Channels : TasksOn(c)' = TasksOn(c)
    BY <1>2, <1>6, <1>7, HeartbeatAssumption
  <2>4. ASSUME lapses' = 0 PROVE ChannelTurns'
    BY <1>1, <2>1, <2>3, <2>4 DEF TurnInv, ChannelTurns, NoLapse
  <2> QED BY <2>1, <2>2, <2>4 DEF TurnInv, HeartbeatTurns
<1>8. CASE b.ch # Heartbeat
  <2>1. b \in Batch /\ b.ch \in Channels
    BY <1>5, <1>8 DEF Batch
  <2>2. UNCHANGED hbInFlight
    BY <1>4, <1>8 DEF StoreCancelled, RequeueFailed, EndBatch, MarkTaskComplete
  <2>3. TasksOn(Heartbeat)' = TasksOn(Heartbeat)
    BY <1>2, <1>6, <1>8
  <2>4. HeartbeatTurns'
    BY <2>2, <2>3 DEF TurnInv, HeartbeatTurns
  <2>5. ASSUME lapses' = 0 PROVE ChannelTurns'
    <3>1. ChannelTurns
      BY <1>1, <2>5 DEF TurnInv
    <3>2. NoLapse(q) /\ q.retryAfter[b.ch] # "armed" /\ q.cancelled[b.ch] = <<>>
      BY <1>3, <2>1, <3>1 DEF ChannelTurns
    <3>3. /\ q'.inFlight = q.inFlight \ {b.ch} /\ NoLapse(q')
          /\ \A d \in Channels \ {b.ch} : /\ q'.retryAfter[d] = q.retryAfter[d]
                                          /\ q'.cancelled[d] = q.cancelled[d]
          /\ q'.retryAfter[b.ch] = "armed" => q'.cancelled[b.ch] = <<>>
      BY <1>4, <2>1, <3>2, SettledTurn
    <3>4. PICK c \in Channels : c = b.ch
      BY <2>1
    <3>5. TasksOn(c)' = {} /\ \A d \in Channels \ {c} : TasksOn(d)' = TasksOn(d)
      <4>1. s \in TasksOn(c) /\ \A x, y \in TasksOn(c) : x = y
        BY <1>3, <3>1, <3>4 DEF ChannelTurns
      <4>2. \A d \in Channels \ {c} : s \notin TasksOn(d)
        BY <1>6, <3>4
      <4> QED BY <1>2, <4>1, <4>2
    <3> QED BY <3>1, <3>3, <3>4, <3>5 DEF ChannelTurns, NoLapse
  <2> QED BY <2>4, <2>5 DEF TurnInv
<1> QED BY <1>7, <1>8

TurnsKept ==
  /\ lapses' = 0 => lapses = 0 /\ TurnKept(q, q')
  /\ lapses = 0 => q'.inFlight = q.inFlight
  /\ UNCHANGED hbInFlight
  /\ TasksKept

\* The steps that start or end no turn keep the queue's turn state.
LEMMA QuietTurns ==
  ASSUME TypeInv, TurnInv,
         \/ Maintenance \/ NoMaintenance \/ CollectRespawns \/ DrainDone \/ PeriodicTick \/ Shutdown
         \/ \E a \in acks : HandleAck(a)
         \/ \E c \in Channels, at \in 1 .. MaxCreated : RelayEvent(c, at)
         \/ \E c \in Channels : \/ MemberRemoved(c) \/ MemberAdded(c)
                                \/ CancelTurn(c) \/ Rotate(c) \/ SwitchModel(c)
         \/ \E s \in Slots : TaskStep(s)
         \/ Clock
         \/ UNCHANGED vars
  PROVE  TurnsKept
<1>1. q \in BoundedQueue /\ TurnKept(q, q) /\ (UNCHANGED tasks => TasksKept)
  BY DEF TypeInv, TurnKept, TasksKept
<1>0. TurnKept(q, q') /\ UNCHANGED <<lapses, hbInFlight>> /\ TasksKept => TurnsKept
  BY DEF TurnsKept, TurnKept
<1>2. CASE Maintenance
  <2>1. CompactExpiredState(q) \in BoundedQueue /\ TurnKept(q, CompactExpiredState(q))
    BY <1>1, CompactBounded, CompactKeepsTurns
  <2>2. ASSUME lapses = 0 PROVE q' = CompactExpiredState(q)
    <3>1. NoLapse(q)
      BY <2>2 DEF TurnInv, ChannelTurns
    <3>2. NoLapse(CompactExpiredState(q))
      BY <2>1, <3>1 DEF TurnKept, NoLapse
    <3> QED BY <1>2, <2>1, <3>2, ExpireIsIdle DEF Maintenance
  <2>3. UNCHANGED <<tasks, hbInFlight, lapses>>
    BY <1>2 DEF Maintenance
  <2> QED BY <1>1, <2>1, <2>2, <2>3 DEF TurnsKept, TurnKept
<1>3. CASE NoMaintenance \/ CollectRespawns \/ DrainDone \/ PeriodicTick \/ Shutdown \/ UNCHANGED vars
  BY <1>0, <1>1, <1>3 DEF NoMaintenance, CollectRespawns, DrainDone, PeriodicTick, Shutdown, vars
<1>4. ASSUME NEW a \in acks, HandleAck(a) PROVE TurnsKept
  <2>1. a.ch \in Channels
    BY DEF TypeInv, TypeOK
  <2>2. ExtendDeadline(q, a.ch) \in BoundedQueue
    BY <1>1, <2>1, ExtendBounded
  <2>3. TurnKept(q, RemoveEvent(ExtendDeadline(q, a.ch), a.ch, a.id))
    BY <1>1, <2>1, <2>2, OpsKeepTurns, KeptTransitive
  <2>4. TurnKept(q, q')
    BY <1>1, <1>4, <2>1, <2>3, OpsKeepTurns DEF HandleAck
  <2>5. TasksKept
    BY <1>4, AckQuiet DEF QuietStep
  <2> QED BY <1>0, <1>4, <2>4, <2>5 DEF HandleAck
<1>5. ASSUME NEW c \in Channels, NEW at \in 1 .. MaxCreated, RelayEvent(c, at) PROVE TurnsKept
  <2> DEFINE e == NewEvent(at)
  <2>1. e \in Event
    BY <1>5, HarnessAssumption DEF NewEvent, Event, TypeInv, TypeOK
  <2> HIDE DEF e
  <2>2. Push(q, c, e) \in BoundedQueue
    BY <1>1, <2>1, PushBounded
  <2>3. TurnKept(q, Push(q, c, e)) /\ TurnKept(q, MarkNativeSteerPending(Push(q, c, e), c, e.id))
    BY <1>1, <2>2, OpsKeepTurns, KeptTransitive
  <2>4. q' \in {q, Push(q, c, e), MarkNativeSteerPending(Push(q, c, e), c, e.id)}
    BY <1>5 DEF RelayEvent, MidTurn, SteerAccepted, e
  <2>5. TasksKept
    BY <1>5, InputsQuiet DEF QuietStep
  <2> QED BY <1>0, <1>1, <1>5, <2>3, <2>4, <2>5 DEF RelayEvent
<1>6. ASSUME NEW c \in Channels,
             \/ MemberRemoved(c) \/ MemberAdded(c) \/ CancelTurn(c) \/ Rotate(c) \/ SwitchModel(c)
      PROVE  TurnsKept
  <2>1. TasksKept
    BY <1>6, InputsQuiet DEF QuietStep
  <2>2. q' \in {q, DrainChannel(q, c)} /\ UNCHANGED <<lapses, hbInFlight>>
    BY <1>6 DEF MemberRemoved, MemberAdded, CancelTurn, Rotate, SwitchModel
  <2> QED BY <1>0, <1>1, <2>1, <2>2, OpsKeepTurns
<1>7. ASSUME NEW s \in Slots, TaskStep(s) PROVE TurnsKept
  <2>1. UNCHANGED <<q, lapses, hbInFlight>>
    BY <1>7 DEF TaskStep, TakeSteer, SteerReply, TurnEnds, TurnCancelled, Finish, TaskPanics,
                RespawnEnds, MainLoopVars
  <2>2. TasksKept
    BY <1>1, <1>7, TaskStepCases DEF QuietStep, RespawnEnds
  <2> QED BY <1>0, <1>1, <2>1, <2>2
<1>8. CASE Clock
  <2>1. UNCHANGED <<tasks, hbInFlight>>
    BY <1>8 DEF Clock, ThrottleElapses, DeadlinePasses, CrashesAge, CooldownElapses
  <2>2. ASSUME NEW c \in Channels, ThrottleElapses(c)
        PROVE  UNCHANGED lapses /\ TurnKept(q, q')
    BY <1>1, <2>2 DEF ThrottleElapses, TurnKept, BoundedQueue
  <2>3. ASSUME NEW c \in Channels, DeadlinePasses(c)
        PROVE  lapses' # 0 /\ q'.inFlight = q.inFlight
    BY <1>1, <2>3 DEF DeadlinePasses, TypeInv, TypeOK, BoundedQueue
  <2>4. ASSUME NEW s \in Slots, CrashesAge(s) \/ CooldownElapses(s)
        PROVE  UNCHANGED <<q, lapses>>
    BY <2>4 DEF CrashesAge, CooldownElapses
  <2> QED BY <1>0, <1>1, <1>8, <2>1, <2>2, <2>3, <2>4 DEF Clock, TurnsKept
<1> QED BY <1>2, <1>3, <1>4, <1>5, <1>6, <1>7, <1>8

\* Every step starts a turn, ends a turn, or keeps the turns.
LEMMA NextCases ==
  ASSUME TypeInv, TurnInv, [Next]_vars
  PROVE  \/ DispatchStep \/ HeartbeatTick
         \/ \E s \in Slots : HandleResult(s) \/ HandlePanic(s)
         \/ TurnsKept
BY QuietTurns DEF Next, MainLoop, Inputs

\* The turn invariant is inductive relative to the type and slot invariants.
LEMMA TurnNext == TypeInv /\ SlotInv /\ TurnInv /\ [Next]_vars => TurnInv'
BY NextCases, TurnDispatch, TurnHeartbeat, TurnEnded, TurnQuiet DEF TurnsKept

\* It holds initially.
LEMMA TurnInit == Init => TurnInv
<1> SUFFICES ASSUME Init PROVE TurnInv
  OBVIOUS
<1>1. \A c : TasksOn(c) = {}
  BY DEF Init, TasksOn, TaskSlots
<1>2. q.inFlight = {} /\ \A c \in Channels : /\ q.deadlines[c] = "none"
                                             /\ q.retryAfter[c] = "none"
  BY DEF Init, NewQueue
<1>3. hbInFlight = FALSE
  BY DEF Init
<1> QED BY <1>1, <1>2, <1>3 DEF TurnInv, ChannelTurns, HeartbeatTurns, NoLapse

\* The three invariants together hold in every behaviour.
LEMMA FullInv == Spec => [](TypeInv /\ SlotInv /\ TurnInv)
BY TypeInit, TypeNext, SlotInit, SlotNext, TurnInit, TurnNext, PTL DEF Spec

\* A channel has one turn at a time (while no in-flight deadline has passed), and there is one
\* heartbeat at a time (always).
THEOREM OneTurnPerChannel == Spec => []TurnExclusive
<1>1. TurnInv => TurnExclusive
  BY DEF TurnInv, ChannelTurns, HeartbeatTurns, TurnExclusive
<1> QED BY <1>1, FullInv, PTL

\* Settling a batch puts a channel under a throttle only with one more counted retry.
LEMMA ThrottleCounted ==
  ASSUME NEW a \in BoundedQueue, NEW b \in Batch, NEW c \in Channels, a.retryAfter[c] # "armed",
         NEW qq \in {a, Requeue(a, b), RequeueAsCancelled(a, b)},
         MarkComplete(qq, b.ch).retryAfter[c] = "armed"
  PROVE  MarkComplete(qq, b.ch).retryCounts[c] = a.retryCounts[c] + 1
<1>1. b.ch \in Channels
  BY DEF Batch
<1>2. CASE qq = a
  BY <1>1, <1>2 DEF MarkComplete, BoundedQueue
<1>3. CASE qq = RequeueAsCancelled(a, b)
  BY <1>1, <1>3 DEF MarkComplete, RequeueAsCancelled, BoundedQueue
<1>4. CASE qq = Requeue(a, b)
  <2>1. qq \in BoundedQueue
    BY <1>4, RequeueBounded
  <2>2. CASE RetriesExhausted(a, b.ch)
    <3>1. qq.retryAfter[c] # "armed"
      BY <1>1, <1>4, <2>2 DEF Requeue, BoundedQueue
    <3> QED BY <1>1, <2>1, <3>1 DEF MarkComplete, BoundedQueue
  <2>3. CASE ~RetriesExhausted(a, b.ch)
    <3>1. /\ qq.retryAfter = [a.retryAfter EXCEPT ![b.ch] = "armed"]
          /\ qq.retryCounts = [a.retryCounts EXCEPT ![b.ch] = @ + 1]
      BY <1>4, <2>3 DEF Requeue, BoundedQueue
    <3> QED BY <1>1, <2>1, <3>1 DEF MarkComplete, BoundedQueue
  <2> QED BY <2>2, <2>3
<1> QED BY <1>2, <1>3, <1>4

\* What a step may do to a channel without a throttle.
CountsRetry ==
  \A c \in Channels : q.retryAfter[c] # "armed" /\ q'.retryAfter[c] = "armed"
                        => q'.retryCounts[c] = q.retryCounts[c] + 1

LEMMA RetriesCounted ==
  ASSUME TypeInv, SlotInv, TurnInv, Next, lapses' = 0
  PROVE  CountsRetry
<1>1. q \in BoundedQueue
  BY DEF TypeInv
<1>2. CASE DispatchStep
  <2>1. NoLapse(q)
    BY <1>2 DEF DispatchStep, TurnInv, ChannelTurns
  <2>2. CASE q' = ExpireInFlight(q)
    BY <1>1, <2>1, <2>2, ExpireIsIdle DEF CountsRetry
  <2>3. ASSUME NEW r \in FlushNext(q),
               \/ q' = r.q
               \/ q' = MarkComplete(RequeuePreserve(r.q, r.batch), r.batch.ch)
        PROVE  CountsRetry
    <3> DEFINE d == r.batch.ch
    <3>1. r.q \in BoundedQueue /\ d \in Channels /\ r.q.retryAfter = q.retryAfter
      BY <1>1, <2>1, FlushBounded, FlushTurn DEF Batch
    <3>2. ASSUME NEW c \in Channels, q'.retryAfter[c] = "armed"
          PROVE  r.q.retryAfter[c] = "armed"
      <4> HIDE DEF d
      <4>1. PICK v : RequeuePreserve(r.q, r.batch) = [r.q EXCEPT !.queues[d] = v]
        BY DEF RequeuePreserve, d
      <4>2. q' = r.q \/ q' = MarkComplete([r.q EXCEPT !.queues[d] = v], d)
        BY <2>3, <4>1 DEF d
      <4>3. CASE q' = MarkComplete([r.q EXCEPT !.queues[d] = v], d)
        <5>1. q'.retryAfter = [r.q.retryAfter EXCEPT ![d] = IF @ = "armed" THEN @ ELSE "none"]
          BY <4>3 DEF MarkComplete
        <5>2. r.q.retryAfter \in [Channels -> Timer]
          BY <3>1 DEF BoundedQueue
        <5> QED BY <3>2, <5>1, <5>2
      <4> QED BY <3>2, <4>2, <4>3
    <3> QED BY <3>1, <3>2 DEF CountsRetry
  <2> QED BY <1>2, <2>2, <2>3 DEF DispatchStep
<1>3. CASE HeartbeatTick
  <2>1. NoLapse(q)
    BY <1>3 DEF HeartbeatTick, TurnInv, ChannelTurns
  <2> QED BY <1>1, <1>3, <2>1, ExpireIsIdle DEF HeartbeatTick, CountsRetry
<1>4. ASSUME NEW s \in Slots, HandleResult(s) \/ HandlePanic(s)
      PROVE  CountsRetry
  <2> DEFINE b == tasks[s].batch
  <2>1. tasks[s] \in GoodTask
    BY <1>4, PhaseIsTask DEF HandleResult, HandlePanic
  <2>2. b.ch = Heartbeat => q' = q
    <3>1. b.ch = Heartbeat => ~tasks[s].returned
      BY <2>1 DEF GoodTask
    <3> QED BY <1>4, <3>1 DEF HandleResult, HandlePanic, ResultBatch, EndBatch, MarkTaskComplete
  <2>3. CASE b.ch # Heartbeat
    <3>1. b \in Batch
      BY <2>1, <2>3, GoodTaskFacts
    <3>2. PICK qq \in {q, Requeue(q, b), RequeueAsCancelled(q, b)} : q' = MarkComplete(qq, b.ch)
      BY <1>4, <2>3 DEF HandleResult, HandlePanic, ResultBatch, EndBatch, StoreCancelled,
                        RequeueFailed, MarkTaskComplete
    <3> HIDE DEF b
    <3> QED BY <1>1, <3>1, <3>2, ThrottleCounted DEF CountsRetry
  <2> QED BY <2>2, <2>3 DEF CountsRetry
<1>5. CASE TurnsKept
  BY <1>5 DEF TurnsKept, TurnKept, CountsRetry
<1> QED BY <1>2, <1>3, <1>4, <1>5, NextCases

\* A channel under an unexpired retry throttle is not dispatched: not from its queue, and not
\* through the fallback that re-runs cancelled batches, which does not look at the throttle.
\* And a throttle is set with a counted retry, so a failing batch is dead-lettered in the end.
THEOREM ThrottleRespected == Spec => BackoffHonoured
<1>1. ASSUME TypeInv, TurnInv, [Next]_vars
      PROVE  [lapses = 0 => \A c \in Channels :
                q.retryAfter[c] = "armed" /\ c \notin q.inFlight => c \notin q'.inFlight]_vars
  <2> SUFFICES ASSUME lapses = 0, NEW c \in Channels, q.retryAfter[c] = "armed",
                      c \notin q.inFlight, ~UNCHANGED vars
               PROVE  c \notin q'.inFlight
    OBVIOUS
  <2>1. ChannelTurns /\ q \in BoundedQueue /\ NoLapse(q)
    BY <1>1 DEF TurnInv, TypeInv, ChannelTurns
  <2>2. CASE DispatchStep
    <3>1. CASE q' = ExpireInFlight(q)
      BY <2>1, <3>1, ExpireIsIdle
    <3>2. ASSUME NEW r \in FlushNext(q),
                 \/ q' = r.q
                 \/ q' = MarkComplete(RequeuePreserve(r.q, r.batch), r.batch.ch)
          PROVE  c \notin q'.inFlight
      <4>1. r.q \in BoundedQueue /\ r.batch.ch \in Channels
        BY <2>1, FlushBounded DEF Batch
      <4>2. /\ r.q.inFlight = q.inFlight \cup {r.batch.ch}
            /\ q.retryAfter[r.batch.ch] # "armed" \/ q.cancelled[r.batch.ch] # <<>>
        BY <2>1, <3>2, FlushTurn
      <4>3. q.cancelled[c] = <<>>
        BY <2>1 DEF ChannelTurns
      <4>4. MarkComplete(RequeuePreserve(r.q, r.batch), r.batch.ch).inFlight
              = r.q.inFlight \ {r.batch.ch}
        BY <4>1 DEF MarkComplete, RequeuePreserve, BoundedQueue
      <4> QED BY <3>2, <4>2, <4>3, <4>4
    <3> QED BY <2>2, <3>1, <3>2 DEF DispatchStep
  <2>3. CASE HeartbeatTick
    BY <2>1, <2>3, ExpireIsIdle DEF HeartbeatTick
  <2>4. ASSUME NEW s \in Slots, HandleResult(s) \/ HandlePanic(s)
        PROVE  c \notin q'.inFlight
    <3> DEFINE b == tasks[s].batch
    <3>1. PICK qq \in {q, Requeue(q, b), RequeueAsCancelled(q, b)} :
            q' = qq \/ q' = MarkComplete(qq, b.ch)
      BY <2>4 DEF HandleResult, HandlePanic, ResultBatch, EndBatch, StoreCancelled,
                  RequeueFailed, MarkTaskComplete
    <3>2. qq.inFlight = q.inFlight
      BY <2>1, <3>1 DEF Requeue, RequeueAsCancelled, BoundedQueue
    <3>3. MarkComplete(qq, b.ch).inFlight = qq.inFlight \ {b.ch}
      BY <2>1, <3>1 DEF MarkComplete, Requeue, RequeueAsCancelled, BoundedQueue
    <3> QED BY <3>1, <3>2, <3>3
  <2>5. CASE TurnsKept
    BY <2>5 DEF TurnsKept
  <2> QED BY <1>1, <2>2, <2>3, <2>4, <2>5, NextCases
<1>2. ASSUME TypeInv, SlotInv, TurnInv, [Next]_vars
      PROVE  [lapses' = 0 => CountsRetry]_vars
  BY <1>2, RetriesCounted
<1>3. ASSUME TypeInv, SlotInv, TurnInv, [Next]_vars
      PROVE  [/\ lapses = 0 => \A c \in Channels :
                   q.retryAfter[c] = "armed" /\ c \notin q.inFlight => c \notin q'.inFlight
              /\ lapses' = 0 => \A c \in Channels :
                   q.retryAfter[c] # "armed" /\ q'.retryAfter[c] = "armed"
                     => q'.retryCounts[c] = q.retryCounts[c] + 1]_vars
  BY <1>1, <1>2, <1>3 DEF CountsRetry
<1> QED BY <1>3, FullInv, PTL DEF Spec, BackoffHonoured
=============================================================================
