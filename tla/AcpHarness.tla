----------------------------- MODULE AcpHarness -----------------------------
(***************************************************************************)
(* The agent harness (crates/lenos-acp): the main loop of lib.rs, the      *)
(* agent pool and the prompt tasks of pool.rs, and the read loop of acp.rs *)
(* as far as it answers steer requests, around the EventQueue.             *)
(*                                                                         *)
(* The main loop is one thread.  pc says where it is:                      *)
(*   "top"      start of an iteration: maintenance                         *)
(*   "collect"  collecting the results of background respawns              *)
(*   "select"   waiting in tokio::select!                                  *)
(*   "drain"    drain_ready_join_results after a prompt result             *)
(*   "dispatch" inside dispatch_pending; ret is where it returns to        *)
(*   "exited"   left the loop ("all agents dead", or shut down)            *)
(* Prompt tasks, their agents, the respawn tasks and time run alongside it.*)
(***************************************************************************)
EXTENDS EventQueue, SlotCircuit

CONSTANTS
  Slots,        \* agent slot indices, 1 .. config.agents
  Handling,     \* config.multiple_event_handling
  Periodic,     \* a presence or typing timer is enabled
  Heartbeats,   \* config.heartbeat_interval_secs > 0
  Membership,   \* inputs: the agent is removed from and re-added to channels
  OwnerCommands,\* inputs: the owner sends !cancel, !rotate and switch_model
  MaxEvents,    \* bound: relay events of one behaviour
  MaxCreated,   \* bound: distinct created_at values
  MaxLapses     \* bound: in-flight deadlines that pass

ASSUME HarnessAssumption ==
  /\ Slots \subseteq Nat /\ Slots # {} /\ IsFiniteSet(Slots)
  /\ Handling \in {"queue", "steer", "interrupt", "owner_interrupt"}
  /\ {Periodic, Heartbeats, Membership, OwnerCommands} \subseteq BOOLEAN
  /\ MaxEvents \in Nat /\ MaxCreated \in Nat \ {0} /\ MaxLapses \in Nat

Heartbeat == "heartbeat"      \* PromptSource::Heartbeat

ASSUME HeartbeatAssumption == Heartbeat \notin Channels

VARIABLES
  q,         \* the EventQueue
  pc, ret,   \* position of the main loop
  agents,    \* AgentPool.agents: "idle" in its slot, "out" with a task, "none"
  sess,      \* SessionState.sessions of each slot's agent
  tasks,     \* AgentPool.task_map, with the state of the running prompt task
  hbInFlight,\* heartbeat_in_flight
  respawn,   \* respawn task of a slot: "no", "running", or its unread result
  circ,      \* crash_history
  acks,      \* SteerAckEvents not yet received by the main loop
  removed,   \* removed_channels
  nextId,    \* arrival number of the next relay event
  lapses,    \* number of in-flight deadlines that have passed
  fate,      \* history: what became of each event
  cxl        \* history: events stored by requeue_as_cancelled

vars == <<q, pc, ret, agents, sess, tasks, hbInFlight, respawn, circ, acks, removed,
          nextId, lapses, fate, cxl>>

EventIds == 1 .. MaxEvents
NoTask   == [phase |-> "none"]
NoEvent  == 0

\* Outcomes of a turn, by their effect.  "exited" stands for AgentExited, an idle
\* timeout, a hard timeout with recent activity and transport-class errors.
Outcomes == {"ok", "cancelled", "drain_timeout", "exited", "hard_timeout",
             "auth_error", "app_error"}

Task ==
  [ phase : {"running", "done", "panicked"},
    batch : [ch : Channels \cup {Heartbeat}, events : Seq(Event),
             cancelled : Seq(Event), reason : Reason],
    ctl : {"none", "open", "steer", "interrupt", "drop"},   \* control_tx / signal sent
    buf : Nat,        \* steer request in the capacity-1 channel
    pend : Nat,       \* steer request written and awaiting its response
    outcome : Outcomes \cup {"none"},
    returned : BOOLEAN ]   \* PromptResult.batch is Some

TypeOK ==
  /\ q \in QueueState
  /\ pc \in {"top", "collect", "select", "drain", "dispatch", "exited"}
  /\ ret \in {"top", "collect", "select"}
  /\ agents \in [Slots -> {"idle", "out", "none"}]
  /\ sess \in [Slots -> SUBSET Channels]
  /\ tasks \in [Slots -> Task \cup {NoTask}]
  /\ hbInFlight \in BOOLEAN
  /\ respawn \in [Slots -> {"no", "running", "ok", "failed"}]
  /\ circ \in [Slots -> Circuit]
  /\ acks \subseteq [ch : Channels, id : Nat, kind : {"success", "release", "fallback"}]
  /\ removed \subseteq Channels
  /\ nextId \in 1 .. MaxEvents + 1
  /\ lapses \in 0 .. MaxLapses
  /\ fate \in [EventIds -> {"none", "live", "delivered", "dead", "dropped"}]
  /\ cxl \subseteq Nat

\* initialize_agent_pool of an eager pool: a partial pool is valid, an empty one is not.
Init ==
  /\ q = NewQueue
  /\ pc = "top" /\ ret = "top"
  /\ \E S \in SUBSET Slots \ {{}} : agents = [s \in Slots |-> IF s \in S THEN "idle" ELSE "none"]
  /\ sess = [s \in Slots |-> {}]
  /\ tasks = [s \in Slots |-> NoTask]
  /\ hbInFlight = FALSE
  /\ respawn = [s \in Slots |-> "no"]
  /\ circ = [s \in Slots |-> NewCircuit]
  /\ acks = {}
  /\ removed = {}
  /\ nextId = 1
  /\ lapses = 0
  /\ fate = [i \in EventIds |-> "none"]
  /\ cxl = {}

\* History: events of S that were still live meet their fate v.
Settle(f, S, v) == [i \in EventIds |-> IF i \in S /\ f[i] = "live" THEN v ELSE f[i]]

-----------------------------------------------------------------------------
(* The agent pool *)

Idle == {s \in Slots : agents[s] = "idle"}
TaskSlots == {s \in Slots : tasks[s] # NoTask}
TasksOn(c) == {s \in TaskSlots : tasks[s].batch.ch = c}
FirstOf(S) == CHOOSE s \in S : \A t \in S : s <= t

\* try_claim: an idle agent with a session for c, else the first idle agent.
Claim(c) ==
  LET affine == {s \in Idle : c \in sess[s]}
  IN IF affine # {} THEN FirstOf(affine) ELSE FirstOf(Idle)

\* The sessions once those for c are taken from the agents in the pool.
InvalidateChannelSessions(c) ==
  [s \in Slots |-> IF s \in Idle THEN sess[s] \ {c} ELSE sess[s]]

\* The first idle agent with a session for c gives it up, unless there is none or its
\* catalog lacks the model.
SwitchIdleAgentModel(c) ==
  LET affine == {s \in Idle : c \in sess[s]}
  IN \/ affine # {} /\ sess' = [sess EXCEPT ![FirstOf(affine)] = @ \ {c}]
     \/ UNCHANGED sess

NewTask(b, ctl) ==
  [phase |-> "running", batch |-> b, ctl |-> ctl, buf |-> NoEvent, pend |-> NoEvent,
   outcome |-> "none", returned |-> FALSE]

\* signal_in_flight_task(c, sig) on the task of slot s: the oneshot is taken once.
Signal(ts, s, sig) ==
  [ts EXCEPT ![s].ctl = IF @ = "open" THEN sig ELSE @]

\* The tasks after signal_in_flight_task(c, sig); the task_map yields any match.
Signalled(c, sig) ==
  IF TasksOn(c) = {} THEN {tasks} ELSE {Signal(tasks, s, sig) : s \in TasksOn(c)}

\* live_count() = 0 and no respawn in flight, after slot s lost its agent.
AllDead(ag, ts, rs) ==
  \A s \in Slots : ag[s] # "idle" /\ ts[s] = NoTask /\ rs[s] = "no"

-----------------------------------------------------------------------------
(* dispatch_pending *)

\* One turn of its loop: flush a batch and hand it to an agent; without an idle
\* agent the batch goes back and the loop ends; with nothing to flush it ends.
DispatchStep ==
  /\ pc = "dispatch"
  /\ \/ /\ FlushNext(q) = {}
        /\ q' = ExpireInFlight(q)
        /\ fate' = Settle(fate, ExpiryTrims(q), "dropped")
        /\ pc' = ret
        /\ UNCHANGED <<agents, tasks>>
     \/ \E r \in FlushNext(q) :
          \/ /\ Idle # {}
             /\ LET s == Claim(r.batch.ch)
                IN /\ agents' = [agents EXCEPT ![s] = "out"]
                   /\ tasks' = [tasks EXCEPT ![s] = NewTask(r.batch, "open")]
             /\ q' = r.q
             /\ fate' = Settle(fate, ExpiryTrims(q), "dropped")
             /\ UNCHANGED pc
          \/ /\ Idle = {}
             /\ fate' = Settle(fate, ExpiryTrims(q) \cup RequeueTrims(r.q, r.batch), "dropped")
             /\ q' = MarkComplete(RequeuePreserve(r.q, r.batch), r.batch.ch)
             /\ pc' = ret
             /\ UNCHANGED <<agents, tasks>>
  /\ UNCHANGED <<ret, sess, hbInFlight, respawn, circ, acks, removed, nextId, lapses, cxl>>

DispatchThen(next) == pc' = "dispatch" /\ ret' = next

-----------------------------------------------------------------------------
(* Top of the loop: maintenance, then background respawn results *)

\* Seeded faults: a slot whose agent is out with a task counts as empty; no slot does.
RefillableBusy ==
  {s \in Slots : agents[s] # "idle" /\ respawn[s] = "no" /\ CanRefill(circ[s])}
RefillableNever == {}

Refillable ==
  {s \in Slots : agents[s] # "idle" /\ tasks[s] = NoTask /\ respawn[s] = "no"
                 /\ CanRefill(circ[s])}

\* The maintenance interval (30 s) has elapsed.
Maintenance ==
  /\ pc = "top"
  /\ LET compacted == CompactExpiredState(q)
     IN /\ q' = ExpireInFlight(compacted)
        /\ fate' = Settle(fate, ExpiryTrims(compacted), "dropped")
        /\ IF HasFlushableWork(compacted) THEN DispatchThen("collect")
           ELSE pc' = "collect" /\ UNCHANGED ret
  /\ respawn' = [s \in Slots |-> IF s \in Refillable THEN "running" ELSE respawn[s]]
  /\ circ' = [s \in Slots |-> IF s \in Refillable THEN Refilled(circ[s]) ELSE circ[s]]
  /\ UNCHANGED <<agents, sess, tasks, hbInFlight, acks, removed, nextId, lapses, cxl>>

\* It has not.
NoMaintenance ==
  /\ pc = "top"
  /\ pc' = "collect"
  /\ UNCHANGED <<q, ret, agents, sess, tasks, hbInFlight, respawn, circ, acks, removed,
                 nextId, lapses, fate, cxl>>

\* while let Ok(rr) = respawn_rx.try_recv()
CollectRespawns ==
  LET ok == {s \in Slots : respawn[s] = "ok"}
      failed == {s \in Slots : respawn[s] = "failed"}
  IN /\ pc = "collect"
     /\ respawn' = [s \in Slots |-> IF s \in ok \cup failed THEN "no" ELSE respawn[s]]
     /\ agents' = [s \in Slots |-> IF s \in ok THEN "idle" ELSE agents[s]]
     /\ sess' = [s \in Slots |-> IF s \in ok THEN {} ELSE sess[s]]
     /\ circ' = [s \in Slots |-> IF s \in failed THEN MarkSpawnFailed(circ[s]) ELSE circ[s]]
     /\ IF ok # {} THEN DispatchThen("select") ELSE pc' = "select" /\ UNCHANGED ret
     /\ UNCHANGED <<q, tasks, hbInFlight, acks, removed, nextId, lapses, fate, cxl>>

-----------------------------------------------------------------------------
(* select!: a relay event *)

NewEvent(at) == [id |-> nextId, at |-> at]

\* try_native_steer accepted: the event is withheld and rides in slot s's channel.
SteerAccepted(c, e, s) ==
  /\ tasks[s].phase = "running" /\ tasks[s].buf = NoEvent
  /\ q' = MarkNativeSteerPending(Push(q, c, e), c, e.id)
  /\ tasks' = [tasks EXCEPT ![s].buf = e.id]

\* The mode gate found a turn in flight.  A steer request may be refused (channel
\* full or closed); then, as for an interrupt, the turn is signalled.
MidTurn(c, e) ==
  \/ Handling = "steer" /\ \E s \in TasksOn(c) : SteerAccepted(c, e, s)
  \/ /\ Handling = "steer"
     /\ q' = Push(q, c, e)
     /\ tasks' \in Signalled(c, "steer")
  \/ /\ Handling \in {"interrupt", "owner_interrupt"}
     /\ q' = Push(q, c, e)
     /\ tasks' \in Signalled(c, "interrupt")
  \/ /\ Handling \in {"queue", "owner_interrupt"}     \* owner_interrupt: author is not the owner
     /\ q' = Push(q, c, e)
     /\ UNCHANGED tasks

RelayEvent(c, at) ==
  LET e == NewEvent(at)
  IN /\ pc = "select"
     /\ nextId <= MaxEvents
     /\ nextId' = nextId + 1
     /\ \/ /\ ~PushAccepted(q, c)
           /\ UNCHANGED <<q, tasks, fate>>
        \/ /\ PushAccepted(q, c)
           /\ fate' = [Settle(fate, PushEvicts(q, c), "dropped") EXCEPT ![e.id] = "live"]
           /\ IF c \in q.inFlight THEN MidTurn(c, e)
              ELSE q' = Push(q, c, e) /\ UNCHANGED tasks
     /\ DispatchThen("top")
     /\ UNCHANGED <<agents, sess, hbInFlight, respawn, circ, acks, removed, lapses, cxl>>

\* KIND_MEMBER_REMOVED_NOTIFICATION, past the replay filter.
MemberRemoved(c) ==
  /\ pc = "select"
  /\ q' = DrainChannel(q, c)
  /\ fate' = Settle(fate, Ids(q.queues[c]) \cup Ids(q.withheld[c]) \cup Ids(q.cancelled[c]),
                    "dropped")
  /\ sess' = InvalidateChannelSessions(c)
  /\ removed' = removed \cup {c}
  /\ pc' = "top"
  /\ UNCHANGED <<ret, agents, tasks, hbInFlight, respawn, circ, acks, nextId, lapses, cxl>>

\* KIND_MEMBER_ADDED_NOTIFICATION, past the replay filter.
MemberAdded(c) ==
  /\ pc = "select"
  /\ removed' = removed \ {c}
  /\ pc' = "top"
  /\ UNCHANGED <<q, ret, agents, sess, tasks, hbInFlight, respawn, circ, acks, nextId,
                 lapses, fate, cxl>>

\* The owner's !cancel, or the observer's cancel_turn frame.
CancelTurn(c) ==
  /\ pc = "select"
  /\ tasks' \in Signalled(c, "drop")
  /\ pc' = "top"
  /\ UNCHANGED <<q, ret, agents, sess, hbInFlight, respawn, circ, acks, removed, nextId,
                 lapses, fate, cxl>>

\* The owner's !rotate: if no turn took the signal, idle sessions are dropped.
Rotate(c) ==
  /\ pc = "select"
  /\ tasks' \in Signalled(c, "drop")
  /\ sess' = IF tasks' = tasks THEN InvalidateChannelSessions(c) ELSE sess
  /\ pc' = "top"
  /\ UNCHANGED <<q, ret, agents, hbInFlight, respawn, circ, acks, removed, nextId, lapses,
                 fate, cxl>>

\* The observer's switch_model frame: a busy turn is cancelled and re-run.
SwitchModel(c) ==
  /\ pc = "select"
  /\ \/ TasksOn(c) # {} /\ tasks' \in Signalled(c, "interrupt") /\ UNCHANGED sess
     \/ TasksOn(c) = {} /\ UNCHANGED tasks /\ SwitchIdleAgentModel(c)
  /\ pc' = "top"
  /\ UNCHANGED <<q, ret, agents, hbInFlight, respawn, circ, acks, removed, nextId, lapses,
                 fate, cxl>>

-----------------------------------------------------------------------------
(* select!: timers *)

\* Presence and typing ticks only wake the loop.
PeriodicTick ==
  /\ pc = "select" /\ Periodic
  /\ pc' = "top"
  /\ UNCHANGED <<q, ret, agents, sess, tasks, hbInFlight, respawn, circ, acks, removed,
                 nextId, lapses, fate, cxl>>

\* The heartbeat tick: pending work first, else dispatch_heartbeat.
HeartbeatTick ==
  /\ pc = "select" /\ Heartbeats
  /\ q' = ExpireInFlight(q)
  /\ fate' = Settle(fate, ExpiryTrims(q), "dropped")
  /\ \/ /\ HasFlushableWork(q)
        /\ DispatchThen("top")
        /\ UNCHANGED <<agents, tasks, hbInFlight>>
     \/ /\ ~HasFlushableWork(q) /\ Idle # {} /\ ~hbInFlight
        /\ LET s == FirstOf(Idle)
               b == [ch |-> Heartbeat, events |-> <<>>, cancelled |-> <<>>, reason |-> "none"]
           IN /\ agents' = [agents EXCEPT ![s] = "out"]
              /\ tasks' = [tasks EXCEPT ![s] = NewTask(b, "none")]
        /\ hbInFlight' = TRUE
        /\ pc' = "top" /\ UNCHANGED ret
     \/ /\ ~HasFlushableWork(q) /\ (Idle = {} \/ hbInFlight)
        /\ pc' = "top" /\ UNCHANGED <<ret, agents, tasks, hbInFlight>>
  /\ UNCHANGED <<sess, respawn, circ, acks, removed, nextId, lapses, cxl>>

\* The shutdown watch fires: a signal, the owner's !shutdown, or the inactivity reaper.
Shutdown ==
  /\ pc = "select"
  /\ pc' = "exited"
  /\ UNCHANGED <<q, ret, agents, sess, tasks, hbInFlight, respawn, circ, acks, removed,
                 nextId, lapses, fate, cxl>>

-----------------------------------------------------------------------------
(* select!: a prompt result, a panicked task, a steer ack *)

\* Slot s's agent is dead: record the crash, respawn it or leave the slot empty.
Crash(s) ==
  /\ agents' = [agents EXCEPT ![s] = "none"]
  /\ sess' = [sess EXCEPT ![s] = {}]
  /\ circ' = [circ EXCEPT ![s] = RecordCrash(@)]
  /\ respawn' = [respawn EXCEPT ![s] = IF RespawnAllowed(circ[s]) THEN "running" ELSE @]

\* Seeded fault: heartbeat_in_flight is not cleared.
MarkTaskCompleteStuck(qq, c) ==
  q' = (IF c = Heartbeat THEN qq ELSE MarkComplete(qq, c)) /\ UNCHANGED hbInFlight

MarkTaskComplete(qq, c) ==
  IF c = Heartbeat
  THEN q' = qq /\ hbInFlight' = FALSE
  ELSE q' = MarkComplete(qq, c) /\ UNCHANGED hbInFlight

\* Seeded fault: the turn is marked complete first, which forgets how often b was retried.
RequeueFailedLate(b) ==
  LET qq == MarkComplete(q, b.ch)
  IN /\ q' = Requeue(qq, b) /\ UNCHANGED <<hbInFlight, cxl>>
     /\ fate' = IF RetriesExhausted(qq, b.ch) THEN Settle(fate, BatchIds(b), "dead")
                ELSE Settle(fate, RequeueTrims(qq, b), "dropped")

\* The batch b of a failed turn goes back through requeue().
RequeueFailed(b) ==
  /\ MarkTaskComplete(Requeue(q, b), b.ch)
  /\ fate' = IF RetriesExhausted(q, b.ch) THEN Settle(fate, BatchIds(b), "dead")
             ELSE Settle(fate, RequeueTrims(q, b), "dropped")
  /\ UNCHANGED cxl

\* The events of b end here with fate v.
EndBatch(b, v) ==
  /\ MarkTaskComplete(q, b.ch)
  /\ fate' = Settle(fate, BatchIds(b), v)
  /\ UNCHANGED cxl

StoreCancelled(b) ==
  /\ MarkTaskComplete(RequeueAsCancelled(q, b), b.ch)
  /\ cxl' = cxl \cup BatchIds(b)
  /\ UNCHANGED fate

\* The batch of a prompt result: requeue BEFORE mark_complete.
ResultBatch(t) ==
  LET b == t.batch
  IN \/ t.outcome = "ok" /\ EndBatch(b, "delivered")
     \/ t.outcome # "ok" /\ (~t.returned \/ b.ch \in removed) /\ EndBatch(b, "dropped")
     \/ /\ t.outcome # "ok" /\ t.returned /\ b.ch \notin removed
        /\ \/ t.outcome \in {"cancelled", "drain_timeout"} /\ StoreCancelled(b)
           \/ t.outcome \in {"hard_timeout", "auth_error"} /\ EndBatch(b, "dead")
           \/ t.outcome \in {"exited", "app_error"} /\ RequeueFailed(b)

\* Outcomes after which the agent process is replaced rather than returned.
Fatal == {"exited", "hard_timeout", "drain_timeout"}

\* Seeded fault: the sessions of removed channels are not stripped from a returning agent.
HandleResultKeepingSessions(s) ==
  /\ pc = "select"
  /\ tasks[s].phase = "done"
  /\ tasks' = [tasks EXCEPT ![s] = NoTask]
  /\ ResultBatch(tasks[s])
  /\ \/ tasks[s].outcome \in Fatal /\ Crash(s)
     \/ /\ tasks[s].outcome \notin Fatal
        /\ agents' = [agents EXCEPT ![s] = "idle"]
        /\ UNCHANGED <<sess, respawn, circ>>
  /\ pc' = IF AllDead(agents', tasks', respawn') THEN "exited" ELSE "drain"
  /\ UNCHANGED <<ret, acks, removed, nextId, lapses>>

HandleResult(s) ==
  /\ pc = "select"
  /\ tasks[s].phase = "done"
  /\ tasks' = [tasks EXCEPT ![s] = NoTask]
  /\ ResultBatch(tasks[s])
  /\ \/ /\ tasks[s].outcome \in Fatal
        /\ Crash(s)
     \/ /\ tasks[s].outcome \notin Fatal
        /\ agents' = [agents EXCEPT ![s] = "idle"]
        /\ sess' = [sess EXCEPT ![s] = @ \ removed]
        /\ UNCHANGED <<respawn, circ>>
  /\ pc' = IF AllDead(agents', tasks', respawn') THEN "exited" ELSE "drain"
  /\ UNCHANGED <<ret, acks, removed, nextId, lapses>>

\* recover_panicked_agent, from the select arm or from drain_ready_join_results.
HandlePanic(s) ==
  LET b == tasks[s].batch
  IN /\ pc \in {"select", "drain"}
     /\ tasks[s].phase = "panicked"
     /\ tasks' = [tasks EXCEPT ![s] = NoTask]
     /\ IF b.ch # Heartbeat /\ DedupMode = "queue" /\ b.ch \notin removed
        THEN RequeueFailed(b) ELSE EndBatch(b, "dropped")
     /\ Crash(s)
     /\ \/ AllDead(agents', tasks', respawn') /\ pc' = "exited" /\ UNCHANGED ret
        \/ /\ ~AllDead(agents', tasks', respawn')
           /\ IF pc = "drain" THEN UNCHANGED <<pc, ret>> ELSE DispatchThen("top")
     /\ UNCHANGED <<acks, removed, nextId, lapses>>

DrainDone ==
  /\ pc = "drain"
  /\ \A s \in Slots : tasks[s].phase # "panicked"
  /\ DispatchThen("top")
  /\ UNCHANGED <<q, agents, sess, tasks, hbInFlight, respawn, circ, acks, removed, nextId,
                 lapses, fate, cxl>>

\* The SteerAck arm.  "fallback" also signals whatever turn the channel has now.
HandleAck(a) ==
  /\ pc = "select"
  /\ a \in acks
  /\ acks' = acks \ {a}
  /\ \/ /\ a.kind = "success"
        /\ q' = RemoveEvent(ExtendDeadline(q, a.ch), a.ch, a.id)
        /\ fate' = Settle(fate, {a.id}, "delivered")
        /\ UNCHANGED tasks
     \/ /\ a.kind # "success"
        /\ q' = ReleaseNativeSteer(q, a.ch, a.id)
        /\ fate' = Settle(fate, ReleaseTrims(q, a.ch, a.id), "dropped")
        /\ IF a.kind = "fallback" THEN tasks' \in Signalled(a.ch, "steer")
           ELSE UNCHANGED tasks
  /\ DispatchThen("top")
  /\ UNCHANGED <<agents, sess, hbInFlight, respawn, circ, removed, nextId, lapses, cxl>>

-----------------------------------------------------------------------------
(* Prompt tasks: run_prompt_task and the agent's read loop *)

MainLoopVars == <<q, pc, ret, hbInFlight, circ, removed, nextId, lapses, fate, cxl>>

\* The task is in run_prompt_task: it resolves its session, sends the initial message,
\* gathers context and runs the prompt.
Running(s) == pc # "exited" /\ tasks[s].phase = "running"

AckOf(s, id, kind) == [ch |-> tasks[s].batch.ch, id |-> id, kind |-> kind]

\* The read loop takes the buffered steer request: it writes it, or answers that it
\* cannot (no run id and no steering capability, or the write failed).
TakeSteer(s) ==
  /\ Running(s)
  /\ tasks[s].buf # NoEvent /\ tasks[s].pend = NoEvent
  /\ \/ /\ tasks' = [tasks EXCEPT ![s].pend = tasks[s].buf, ![s].buf = NoEvent]
        /\ UNCHANGED acks
     \/ /\ tasks' = [tasks EXCEPT ![s].buf = NoEvent]
        /\ acks' = acks \cup {AckOf(s, tasks[s].buf, "fallback")}
  /\ UNCHANGED <<agents, sess, respawn, MainLoopVars>>

\* The agent answers a written steer: delivered, refused by the application
\* ("release"), or method_not_found / an unknown outcome ("fallback").
SteerReply(s, kind) ==
  /\ Running(s)
  /\ tasks[s].pend # NoEvent
  /\ tasks' = [tasks EXCEPT ![s].pend = NoEvent]
  /\ acks' = acks \cup {AckOf(s, tasks[s].pend, kind)}
  /\ UNCHANGED <<agents, sess, respawn, MainLoopVars>>

\* However a task ends, its open steers resolve to a release (PromptCompletedNeutral
\* for the written one, a dropped oneshot for the buffered one).
OpenSteers(s) == {tasks[s].buf, tasks[s].pend} \ {NoEvent}
\* Seeded fault: a steer request still in the channel is dropped without an answer.
ReleaseWrittenOnly(s) ==
  acks' = acks \cup {AckOf(s, i, "release") : i \in {tasks[s].pend} \ {NoEvent}}

ReleaseSteers(s) == acks' = acks \cup {AckOf(s, i, "release") : i \in OpenSteers(s)}

\* The sessions an agent may hold when it comes back from a turn with outcome o.
SessionsAfter(s, o) ==
  LET c == tasks[s].batch.ch
  IN CASE c = Heartbeat -> {sess[s]}
       [] o \in {"exited", "hard_timeout"} -> {{}}
       [] o \in {"cancelled", "drain_timeout"} -> {sess[s] \ {c}}
       [] OTHER -> {sess[s] \cup {c}, sess[s] \ {c}}   \* kept, or rotated / invalidated

\* The task sends its PromptResult.
Finish(s, o, returned, reason) ==
  /\ tasks' = [tasks EXCEPT ![s] =
                 [@ EXCEPT !.phase = "done", !.outcome = o, !.returned = returned,
                           !.batch.reason = reason, !.buf = NoEvent, !.pend = NoEvent]]
  /\ ReleaseSteers(s)
  /\ \E ss \in SessionsAfter(s, o) : sess' = [sess EXCEPT ![s] = ss]
  /\ UNCHANGED <<agents, respawn, MainLoopVars>>

\* What may come back from the read loop, and from a cancellation.
TurnOutcomes   == {"ok", "exited", "hard_timeout", "auth_error", "app_error"}
CancelOutcomes == {"cancelled", "drain_timeout", "exited", "app_error", "auth_error"}

\* A heartbeat has no batch, and Drop mode gives none back.
RequeueBatchIfQueue(s) == DedupMode = "queue" /\ tasks[s].batch.ch # Heartbeat

\* The turn ends on its own, or fails before its prompt is sent.
TurnEnds(s, o) ==
  /\ Running(s) /\ o \in TurnOutcomes
  /\ Finish(s, o, o # "ok" /\ RequeueBatchIfQueue(s), tasks[s].batch.reason)

\* Seeded fault: every control signal is recorded as the batch's cancel reason.
TurnCancelledAnyReason(s, o) ==
  /\ Running(s) /\ o \in CancelOutcomes
  /\ tasks[s].ctl \in {"steer", "interrupt", "drop"}
  /\ Finish(s, o, RequeueBatchIfQueue(s) /\ tasks[s].ctl # "drop", tasks[s].ctl)

\* Steer and Interrupt keep the batch, Cancel and Rotate drop it.
CancelReasonOf(ctl) == IF ctl = "drop" THEN "none" ELSE ctl

\* The control signal is taken: the turn is cancelled, or the cancel itself fails.
TurnCancelled(s, o) ==
  /\ Running(s) /\ o \in CancelOutcomes
  /\ tasks[s].ctl \in {"steer", "interrupt", "drop"}
  /\ Finish(s, o, RequeueBatchIfQueue(s) /\ tasks[s].ctl # "drop", CancelReasonOf(tasks[s].ctl))

\* The task panics; the JoinSet will report it.
TaskPanics(s) ==
  /\ Running(s)
  /\ tasks' = [tasks EXCEPT ![s].phase = "panicked", ![s].buf = NoEvent, ![s].pend = NoEvent]
  /\ ReleaseSteers(s)
  /\ UNCHANGED <<agents, sess, respawn, MainLoopVars>>

\* A respawn task ends; RespawnGuard sends a result even if it panics.
RespawnEnds(s) ==
  /\ pc # "exited"
  /\ respawn[s] = "running"
  /\ \E r \in {"ok", "failed"} : respawn' = [respawn EXCEPT ![s] = r]
  /\ UNCHANGED <<agents, sess, tasks, acks, MainLoopVars>>

-----------------------------------------------------------------------------
(* Time *)

ThrottleElapses(c) ==
  /\ pc # "exited"
  /\ q.retryAfter[c] = "armed"
  /\ q' = [q EXCEPT !.retryAfter[c] = "passed"]
  /\ UNCHANGED <<pc, ret, agents, sess, tasks, hbInFlight, respawn, circ, acks, removed,
                 nextId, lapses, fate, cxl>>

\* A turn outlives its in-flight deadline (max turn duration plus 100 s).
DeadlinePasses(c) ==
  /\ pc # "exited"
  /\ lapses < MaxLapses
  /\ q.deadlines[c] = "armed"
  /\ q' = [q EXCEPT !.deadlines[c] = "passed"]
  /\ lapses' = lapses + 1
  /\ UNCHANGED <<pc, ret, agents, sess, tasks, hbInFlight, respawn, circ, acks, removed,
                 nextId, fate, cxl>>

CrashesAge(s) ==
  /\ pc # "exited"
  /\ \E n \in 0 .. circ[s].crashes - 1 : circ' = [circ EXCEPT ![s].crashes = n]
  /\ UNCHANGED <<q, pc, ret, agents, sess, tasks, hbInFlight, respawn, acks, removed,
                 nextId, lapses, fate, cxl>>

CooldownElapses(s) ==
  /\ pc # "exited"
  /\ circ[s].openUntil = "armed"
  /\ circ' = [circ EXCEPT ![s].openUntil = "passed"]
  /\ UNCHANGED <<q, pc, ret, agents, sess, tasks, hbInFlight, respawn, acks, removed,
                 nextId, lapses, fate, cxl>>

-----------------------------------------------------------------------------

MainLoop ==
  \/ Maintenance \/ NoMaintenance \/ CollectRespawns \/ DispatchStep \/ DrainDone
  \/ \E s \in Slots : HandleResult(s) \/ HandlePanic(s)
  \/ \E a \in acks : HandleAck(a)

Inputs ==
  \/ \E c \in Channels, at \in 1 .. MaxCreated : RelayEvent(c, at)
  \/ Membership /\ \E c \in Channels : MemberRemoved(c) \/ MemberAdded(c)
  \/ OwnerCommands /\ \E c \in Channels : CancelTurn(c) \/ Rotate(c) \/ SwitchModel(c)
  \/ PeriodicTick \/ HeartbeatTick \/ Shutdown

TaskStep(s) ==
  \/ TakeSteer(s)
  \/ \E kind \in {"success", "release", "fallback"} : SteerReply(s, kind)
  \/ \E o \in Outcomes : TurnEnds(s, o) \/ TurnCancelled(s, o)
  \/ TaskPanics(s)
  \/ RespawnEnds(s)

Clock ==
  \/ \E c \in Channels : ThrottleElapses(c) \/ DeadlinePasses(c)
  \/ \E s \in Slots : CrashesAge(s) \/ CooldownElapses(s)

Next == MainLoop \/ Inputs \/ (\E s \in Slots : TaskStep(s)) \/ Clock

Spec == Init /\ [][Next]_vars

\* What the scheduler and the agents guarantee: the loop keeps running and an arm of the
\* biased select that is ready again and again is taken; maintenance comes due every
\* 30 s; turns end (idle and hard timeouts); timers elapse; a slot that is respawned
\* again and again eventually gets an agent.
Fairness ==
  /\ WF_vars(MainLoop) /\ SF_vars(Maintenance)
  /\ WF_vars(PeriodicTick) /\ WF_vars(HeartbeatTick)
  /\ SF_vars(\E a \in acks : HandleAck(a))
  /\ \A s \in Slots :
       /\ SF_vars(HandleResult(s)) /\ SF_vars(HandlePanic(s))
       /\ WF_vars(\E o \in Outcomes : TurnEnds(s, o) \/ TurnCancelled(s, o))
       /\ WF_vars(RespawnEnds(s))
       /\ SF_vars(RespawnEnds(s) /\ respawn'[s] = "ok")
       /\ WF_vars(CooldownElapses(s))
  /\ \A c \in Channels : WF_vars(ThrottleElapses(c))

FairSpec == Spec /\ Fairness

-----------------------------------------------------------------------------
(* Properties *)

\* Where events can be: the three stores of each channel, and the batch of each task.
Places == ({"queues", "withheld", "cancelled"} \X Channels) \cup ({"batch"} \X Slots)

Content(p) ==
  CASE p[1] # "batch" -> q[p[1]][p[2]]
    [] p[1] = "batch" /\ tasks[p[2]] = NoTask -> <<>>
    [] OTHER -> tasks[p[2]].batch.cancelled \o tasks[p[2]].batch.events

Located == UNION {Ids(Content(p)) : p \in Places}

\* No accepted event disappears silently: until it is delivered, dead-lettered or
\* dropped for a stated reason, it is queued, withheld, stored as cancelled, or in the
\* batch of a task.  (Events that were stored by requeue_as_cancelled are the subject
\* of CancelledEventsSurvive.)
UncancelledEventsAccounted ==
  \A i \in EventIds : fate[i] = "live" /\ i \notin cxl => i \in Located

\* The same for the events of cancelled turns.
CancelledEventsSurvive ==
  \A i \in EventIds : fate[i] = "live" /\ i \in cxl => i \in Located

\* While no in-flight deadline has passed, an event that has met its fate is in no
\* queue and no batch: nothing is delivered again after success or dead-lettering.
SettledEventsGone ==
  lapses = 0 => \A i \in EventIds : fate[i] \in {"delivered", "dead", "dropped"} => i \notin Located

\* Every event is in at most one place, once: in a channel's queue, withheld for a steer,
\* stored as cancelled, or in one task's batch.  No interleaving of acks, cancels, requeues
\* and lapsed deadlines makes a second copy.
EventInOnePlace ==
  /\ \A p \in Places : \A i, j \in DOMAIN Content(p) :
       Content(p)[i].id = Content(p)[j].id => i = j
  /\ \A p, r \in Places : p # r => Ids(Content(p)) \cap Ids(Content(r)) = {}

\* A channel has one turn at a time: while no in-flight deadline has passed it is marked
\* in flight exactly when one prompt task is working on it, and never two.  Likewise
\* heartbeat_in_flight is set exactly while one heartbeat task exists.
TurnExclusive ==
  /\ lapses = 0 =>
       \A c \in Channels : /\ c \in q.inFlight <=> TasksOn(c) # {}
                           /\ \A s, t \in TasksOn(c) : s = t
  /\ hbInFlight <=> TasksOn(Heartbeat) # {}
  /\ \A s, t \in TasksOn(Heartbeat) : s = t

\* A slot's agent is in one place: idle in its slot, out with its task, or gone (and
\* then possibly being respawned).  return_agent never finds the slot occupied.
SlotExclusive ==
  \A s \in Slots :
    /\ agents[s] = "out" <=> tasks[s] # NoTask
    /\ respawn[s] # "no" => agents[s] = "none"

\* A slot whose breaker is open has no agent and no respawn under way.
OpenCircuitKeepsSlotEmpty ==
  \A s \in Slots : circ[s].openUntil # "none" => agents[s] = "none" /\ respawn[s] = "no"

\* Every withheld event has a steer request or an ack that will release or remove it.
WithheldHasAck ==
  \A c \in Channels : \A i \in Ids(q.withheld[c]) :
    \/ \E a \in acks : a.ch = c /\ a.id = i
    \/ \E s \in TasksOn(c) : i \in OpenSteers(s)

\* An idle agent has no session for a channel the harness was removed from.
NoStaleSession == \A s \in Idle : sess[s] \cap removed = {}

\* No path into a channel's queue exceeds its cap: push, requeue of a failed or undispatched
\* batch, release of a withheld event, recovery after a lapsed deadline.
QueueWithinCap == \A c \in Channels : Len(q.queues[c]) <= MaxPending

\* Until a deadline passes, a channel under an unexpired retry throttle is not dispatched,
\* and each new throttle comes with one more counted retry: mark_complete, which forgets the
\* count of a channel without a throttle, does not get in before the requeue.
BackoffHonoured ==
  [][/\ lapses = 0 => \A c \in Channels :
          q.retryAfter[c] = "armed" /\ c \notin q.inFlight => c \notin q'.inFlight
     /\ lapses' = 0 => \A c \in Channels :
          q.retryAfter[c] # "armed" /\ q'.retryAfter[c] = "armed"
            => q'.retryCounts[c] = q.retryCounts[c] + 1]_vars

\* The harness as a TurnScheduler: the events of a channel's three stores wait, and the
\* batch of each prompt task is a turn.
Arrived == 1 .. nextId - 1

Waiting ==
  [c \in Channels |-> Ids(q.queues[c]) \cup Ids(q.withheld[c]) \cup Ids(q.cancelled[c])]

TurnOf(s) ==
  [agent |-> s, ch |-> tasks[s].batch.ch, events |-> BatchIds(tasks[s].batch)]

Turns == {TurnOf(s) : s \in TaskSlots}

Scheduler ==
  INSTANCE TurnScheduler WITH
    Agents <- Slots, Events <- EventIds, Pulse <- Heartbeat,
    offered <- Arrived, waiting <- Waiting, turns <- Turns

\* Until an in-flight deadline passes the harness implements TurnScheduler: through steers,
\* cancels, requeues, crashes and removals a channel's turns do not overlap, the events of a
\* turn are fixed when it is dispatched, none moves to another channel or is in two places,
\* and one that left the stores and the batches never comes back.
TurnsUntilLapse ==
  Scheduler!Init /\ [][lapses' = 0 => Scheduler!Next]_(Scheduler!vars)

\* Queued work is eventually put into a turn (or drained), unless every agent died and
\* the harness left its loop.
QueuedWorkServed ==
  \A c \in Channels :
    q.queues[c] # <<>> ~> (q.queues[c] = <<>> \/ c \in q.inFlight \/ pc = "exited")

\* A withheld steer event is eventually removed or released: every accepted steer
\* request is answered, whatever becomes of its turn.
WithheldResolved ==
  \A c \in Channels : q.withheld[c] # <<>> ~> (q.withheld[c] = <<>> \/ pc = "exited")

\* An empty slot eventually has an agent again: crash, failed respawn, open breaker and
\* maintenance refill never leave a slot abandoned.
SlotRefilled ==
  \A s \in Slots : agents[s] = "none" ~> (agents[s] # "none" \/ pc = "exited")
=============================================================================
