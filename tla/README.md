# LenOS: TLA+ models of the agent harness and the relay

LenOS is a Nostr-based workspace: a relay that runs on several pods, a set of
services around it, client applications, and agents that take part in channels.
This project models the parts with the most concurrency of their own:

* the agent harness, `crates/lenos-acp`, which turns relay events into turns of agent
  processes: its queue, main loop, agent pool, circuit breaker, lazy start and exit, and
  the background task that keeps its subscriptions alive over a bad connection;
* the relay pod, `crates/lenos-relay` with `crates/lenos-pubsub`: connections, the
  subscription registry, REQ and CLOSE, the interest in Redis topics, and fan-out;
* the ownership of an audio huddle that pods share through a fenced lease.

The models are checked on small instances with TLC, and their main safety
properties are proved for all sizes with TLAPS.

All paths below are relative to `src/`.

## 1. Inventory

### 1.1 The agent harness (`crates/lenos-acp`)

| Part | State | Operations | Source |
|---|---|---|---|
| event queue | per channel: pending events, in-flight mark and deadline, retry throttle and count, events of a cancelled turn, events withheld for a steer | push, flush_next, mark_complete, requeue (three kinds), drain_channel, native-steer withhold / release / remove, deadline extension, compaction | `queue.rs` |
| main loop | removed channels, heartbeat flag, crash history, channels to its tasks | one `tokio::select!` loop with maintenance at its top | `lib.rs` |
| agent pool | one slot per agent, map from task to its metadata | claim, return, invalidate sessions | `pool.rs` |
| prompt task | the agent it owns, its batch, a control oneshot, a capacity-1 steer channel | run_prompt_task | `pool.rs` |
| read loop | steer request written and not answered | read_until_response_with_idle_timeout | `acp.rs` |
| circuit breaker | per slot: recent crashes, open-until | record_crash, mark_spawn_failed, can_refill | `lib.rs` |
| respawn task | none; reports through a guard | spawn_respawn_task, RespawnGuard | `lib.rs` |
| lazy pool lifecycle | Listening, Waking, Ready, Failed with an attempt number | wake, completion, retry | `pool_lifecycle.rs` |
| relay client | wanted subscriptions, per-channel watermarks and dropped marks, two generations of seen ids, rate-limit gate with parked and retried subscriptions | one background task: read, commands, proactive resubscription, drains, reconnect | `relay.rs` |

How they interact. The queue, the pool and the crash history belong to the main
loop's thread. Dispatch moves an agent out of its slot into a prompt task; the
task sends it back in a `PromptResult`, or panics, which the `JoinSet` reports.
While a turn runs, the loop may send it one control signal (the oneshot) or steer
requests (the channel); an accepted steer's event is withheld from the queue until a
`SteerAckEvent` removes it (delivered) or releases it. Respawn tasks send results
that the loop collects at its top, not in its `select!`. Deadlines, throttles and
cooldowns are instants compared with the clock when an operation looks at them.

What is hard here: acks, results, panics, deadlines, membership changes and owner
commands arrive in any order, and each of the four paths by which events re-enter a
queue must keep them, once, within the cap; an agent is checked out while the state
it was checked out under changes; work is only served if something wakes the loop; and
at the exit agents may be in five different places, each with tasks still running.

What makes it correct: no accepted event disappears without a stated reason or is
prompted twice; a channel has one turn at a time; an agent is in one place; the
breaker and the throttle are honoured; no session of a left channel is reused;
queued work is served, steers are answered and empty slots are refilled; a lazy pool is
started once, when there is work, and no agent outlives the harness.

The relay client runs beside the main loop and shares no state with it: bounded
channels carry events one way and subscription commands the other. An event that does not
fit is dropped, marked, and asked for again. Which channels to subscribe to is decided by
the main loop from membership notices, which are themselves replayed after a reconnect,
newest first.

### 1.2 The relay pod (`crates/lenos-relay`, `crates/lenos-pubsub`)

| Part | State | Operations | Source |
|---|---|---|---|
| community registry | connections bound to a community, with their tokens | bind, check, disconnect_community | `state.rs` |
| connection manager | connections by id, draining flag | register, deregister, send, drain_all | `state.rs` |
| connection task | socket, permit, token | handshake, receive loop, cleanup | `connection.rs` |
| subscription registry | per connection and subscription id: filters and scope; indexes from scope and kind to subscriptions | register_scoped, remove_subscription, remove_connection, remove_channel_subscriptions_scoped, fan_out_scoped | `subscription.rs` |
| REQ, CLOSE | none | register, release and retain the topic, historical query, EOSE; remove, release | `handlers/req.rs`, `handlers/close.rs` |
| dispatch and consumer | ids of local events | mark, PUBLISH, fan out; take from Redis, skip an echo, fan out | `handlers/event.rs` |
| topic interest | reference counts | retain_topic, debounced release_topic | `lenos-pubsub/src/lib.rs` |
| subscriber task | Redis connection, active topics, command channel | snapshot on connect, commands, forwarding | `lenos-pubsub/src/subscriber.rs` |

REQ and EVENT handlers are tasks of their own, CLOSE and the cleanup run in the
connection's task, evictions in the task of whatever event removed a member. A connection has
many subscription ids, so handlers of one connection meet each other as well. They all meet in
two concurrent maps (entries and indexes, locked one shard at a time) and in the count
of each topic. The historical query may be answered by a replica that is behind the writer. Hard: a registration against a removal, a replacement of the same id, a
disconnect against a handler, a release against a retain across the debounce, a lost Redis
connection, the order of registration and historical query, an echo against the
dispatch it belongs to, admission against drain and archival.

Correct means: what a client subscribed to is found by fan-out; an event is delivered to it,
once, whether it was stored before or after the REQ; nothing crosses scopes; a wanted topic
stays subscribed at Redis; and no connection is served on after the pod was swept.

### 1.3 Huddles (`crates/lenos-relay/src/audio`, `.../tunnel`)

A huddle is an ephemeral audio channel. Its owner pod holds a lease in Redis with a
generation that grows with every acquire; scripts acquire, renew, release and check it.
A client's connection looks the owner up (or acquires), enters a room on its own pod or
registers at the owner over a control stream, is admitted, and cleans up in the end. The
owner pod keeps one renewer task per lease in a registry; shutdown drains it. Hard: every
step is an await, so the lease, the room, the registry entry and the channel may each
have changed since they were looked at; pods crash, replies get lost, leases run out.

Correct means: one owner at a time, and nothing accepted under an older generation; a
renewer that nobody can stop does not exist; a drained pod lets go; no peer is left in a
room whose connection is gone.

### 1.4 The rest of the repository

* Relay: event ingest with side effects per kind, HTTP API, git on object storage,
  authentication, roster replication, media datagrams, byte tunnels.
* Pub/sub: presence, typing, rate limits, replay guard, cache invalidation.
* Relay mesh (`lenos-relay-mesh`): gossip membership and peer registry.
* Workflow engine (`lenos-workflow`): runs, steps, approvals, resumption.
* Audit log (`lenos-audit`): an append-only hash chain under a database lock.
* Push gateway, Kubernetes backend, pairing relay: leases and grants, a reconcile
  loop with garbage collection, a two-party rendezvous.
* Store (`lenos-db`), core types, authentication, SDK, media, search, persona,
  retrieval, voice, command-line tools, desktop, mobile and web clients: data
  handling, SQL, one-shot programs or user interface.

`PROJECT.json` lists every one of them with its status. The repository itself keeps
two TLA+ models (`docs/spec`: multi-tenant relay, git on object storage) and
exhaustive Python models (`docs/formal`); none of them covers the parts above.

## 2. Modules

* `EventQueue`: `queue.rs`. The queue is a record; each method is an operator from
  record to record, so that the loop's actions compose them as the code does
  (`MarkComplete(Requeue(q, b), c)`). An event is `[id, at]`: arrival number, which
  orders events as `received_at` does, and `created_at`. Absent map keys are `<<>>`, `0`
  or `"none"`. Instants are kept as `"armed"` (in the future) or `"passed"`.
  `FlushNext(q)` is the set of possible results: empty when there is nothing to flush,
  and of several elements in the fallback, where the code takes whichever key the
  hash map yields first. The `...Trims` and `...Evicts` operators name the events
  that the cap loops discard.
* `SlotCircuit`: the breaker of one slot. Crash times are reduced to the number of
  crashes within the window, which `CrashesAge` lets fall.
* `TurnScheduler`: what the harness promises to a channel. Events wait in their channel,
  `Start` takes some of them into a turn that has an agent and the channel to itself, and
  `End` gives back some of these, all or none, to the same channel. Events may be refused or
  dropped, and an event that is neither waiting nor in a turn is gone for good.
* `AcpHarness`: the composition. `pc` is where the main loop is; every arm of its
  `select!` is one action with everything the arm does, up to the dispatch that
  follows, which runs batch by batch (`DispatchStep`) because prompt tasks, respawn
  tasks and clocks run alongside it. `tasks[s]` is the prompt task that holds slot
  `s`'s agent, `acks` the answers on their way to the loop (in any order, as
  independent watcher tasks send them).
  `fate` and `cxl` are history variables: they are written and never read by the
  actions, and record what became of each event and which events were ever stored by
  `requeue_as_cancelled`. As a `TurnScheduler` (`TurnsUntilLapse`) its `waiting` is what the
  three stores of a channel hold (queued, withheld, cancelled) and its `turns` are the
  batches of the prompt tasks.
* `MCAcpHarness`: the instances for TLC. Channels are interchangeable and are
  declared symmetric where two are used; slots are not, since the pool prefers the
  lowest index.
* `PoolLifecycle`: `pool_lifecycle.rs`, the wake tasks that run `initialize_agent_pool`,
  and the phases of the exit after the loop. It is the other end of the harness's life,
  which `AcpHarness` leaves out by starting with an eager pool and stopping at
  `Shutdown`. `life` is the state machine (`Ready` is left in the same step that enters
  it, so it does not appear), `wakes[a]` the task of attempt `a` with the slot it is
  at and the agents it holds, `chan` the capacity-1 channel, `slots` where the agent
  of each slot of the started pool is. The queue is the number of its events: before the
  pool is ready no turn runs, so all of them are flushable. `retried` is a history variable.
* `MCPoolLifecycle`: its instances.
* `RelayClient`: `relay.rs`, composed with the membership filter of the main loop. `bg`
  is `BgState`, `conn` where the background task is (serving, lost, resubscribing, or in
  one of the two drains), `wire` what the relay sent and the task has not read, `evq` and
  `cmds` the two channels. The relay is external: it answers a REQ when it is sent, with
  its stored items from `since` on, newest first, or refuses it. Faults are socket deaths,
  refusals, closings, throttling and writes that time out although they went through. The task
  gives a connection up whenever the code does: on a late `Reconnect`, on a failed write, on a
  loss, however much is unread. `enqueued` and `cut` are history variables; `cut` keeps the items
  that a replay was to bring (`ended`: the connection ended before they were read, and the next
  `since` does not reach back to them, or before the REQ that carried their mark arrived;
  `refused`: the relay refused that REQ).
* `FencedLease`: what the session directory promises: one holder, an epoch per grant, and
  nothing accepted but under the present epoch.
* `HuddleOwnership`: the lease scripts, the join, the registry with its renewers, rooms,
  control streams and shutdown of several pods. A step is a stretch of code between two
  awaits, split again where two threads meet without a common lock. A room is an object
  that a connection may hold after its manager forgot it. `fenced` is a history variable;
  `LeaseSpec` is `FencedLease!Spec` under `epoch <- counter`, `holder <- lease.owner`,
  `used <- fenced`.
* `TopicInterest`: the reference counts and the subscriber task of `lenos-pubsub`. A retain
  is two steps, since the order to subscribe is sent after the lock was given back.
* `RelayPod`: one pod on top of `TopicInterest`. A slot is a connection with one of its
  subscription ids. `subs` is the registry's entry of each slot (the REQ it is from), `index` the
  slots listed for a topic, `taken` what CLOSE, the cleanup and evictions took out and still have to
  unlist or release, `req`, `conn` and `eviction` where those tasks are, `event` and `fanout` where
  each event and each fan-out is. `got`, `hidden` and `unsure` are history variables: frames sent,
  subscriptions that a drop took out of the index, events whose PUBLISH was wrongly taken to have
  failed. So are two fields of `req`: `early`, what had been fanned out when the subscription was
  listed, and `behind`, what the replica that was asked did not have.
* `MCRelayClient`, `MCHuddleOwnership`, `MCRelayPod`: their instances.
* `EventQueueProofs`: what each operation of the queue keeps and what its stores hold
  afterwards. `AcpHarnessProofs` (types, caps), `AcpTurnProofs` (slots, turns),
  `AcpEventProofs` (events), `PoolLifecycleProofs`, `RelayClientProofs`,
  `HuddleOwnershipProofs`, `RelayPodProofs`: the theorems.

Granularity of `RelayPod`. A step ends at an await or where a map entry is let go that the
code comes back to; some of those points are merged where no other task can tell the
difference. `Admit` joins the community check with the look at the token, the permit, the
challenge and the insert into the connection manager: between them the connection is
only bound, and a sweep that comes in between cancels a token that is looked at once
more by the receive loop. `Sweep` is one step although it iterates: a connection
that registers during it is treated like one that registers after it, and the
registration's own look at the flag covers both. `EndConn` joins the end of the receive
loop with the removal of the connection's entry; its subscriptions then leave the index one by
one (`EndUnlist`, `DropEmptied`), all before the first topic is released (`ReleaseTaken`), and
`EndDone` is the deregistration. `Evict` collects the ids of a member's subscriptions and
`EvictRemove` removes each by its id. `ReqInsert` lets go of the registry entry before `ReqPush`
enters the index, so a removal of another id of the same connection may come between; `Locked`
holds only where the code holds the connection's entry (`remove_subscription` and the first half
of `register_scoped`). `FanOut` joins the snapshot of the candidates with the second look at each; a candidate
that changes in between is as one that changed before. `ReqQuery` joins the rows with
their frames and EOSE, and `ReqQueryReplica` is the same with a page from a replica, which has
the first of the stored events and lacks any number of the latest (`query_events_routed`). What stays apart is what the properties are about: the entry and
the index in `register_scoped`, the two halves of `remove_from_index`, release and retain,
the count and the order to subscribe, registration and query, mark, PUBLISH, its answer,
match and frames.

Correspondence of actions and code: `Maintenance`/`NoMaintenance` and
`CollectRespawns` are the top of the loop; `RelayEvent`, `MemberRemoved`,
`MemberAdded`, `CancelTurn`, `Rotate`, `SwitchModel`, `HeartbeatTick`, `PeriodicTick`
(presence and typing), `Shutdown`, `HandleResult`, `HandlePanic`, `HandleAck` are arms of
`select!`; `DrainDone` ends `drain_ready_join_results`; `TurnEnds`, `TurnCancelled`,
`TaskPanics` are the ends of `run_prompt_task`; `TakeSteer` and `SteerReply` are the read
loop's steer arm and its response handling; `RespawnEnds` is a respawn task;
`ThrottleElapses`, `DeadlinePasses`, `CrashesAge`, `CooldownElapses` are time. In
`PoolLifecycle`, `Top` is the top of the loop (work flag, `start_wake_if_due`,
maintenance, respawn results); `WakeResult`, `RetryArm`, `WakeTaskFailed`, `RelayEvent`,
`ChannelRemoved`, `PromptResult`, `OtherArm`, `LeaveLoop` are the arms; `WakesDrained` or
`WakesAborted`, `ReapResult`, `PromptsDrained`, `RespawnsAborted`,
`RespawnResultsDrained` are the exit in its order; `Spawn`, `Initialize`,
`CancelInitialize`, `SendResult`, `WakePanics` are a wake task.

Outcomes with the same effect are merged: `"exited"` stands for a dead agent, an idle
timeout, a hard timeout with recent activity and transport errors, all of which
requeue the batch and replace the agent.

Operators marked as seeded faults are plausible mistakes in the operator that
follows them. They are not part of the specification; `PROJECT.json` ("mutants")
says which property each of them breaks.

## 3. Runs

| Run | Instance | What it checks |
|---|---|---|
| `steer_turns` | 1 channel, 1 slot, 2 events, queue and batch of 2, steer, membership, owner commands, one lapsed deadline | `TypeOK`, `SettledEventsGone`, `EventInOnePlace`, `WithheldHasAck`, `NoStaleSession`, `UncancelledEventsAccounted`, `SlotExclusive`, `BackoffHonoured`, `TurnsUntilLapse` |
| `two_channels` | 2 channels, 2 slots, 2 events, drop dedup, owner interrupts, heartbeats, membership | `TurnExclusive`, `OpenCircuitKeepsSlotEmpty` |
| `steer_liveness` | 1 channel, 1 slot, 2 events, queue of 1, steer, heartbeats the only timer | `QueueWithinCap`, and under fairness `QueuedWorkServed`, `WithheldResolved`, `SlotRefilled` |
| `lazy_pool` | 2 agents, 2 events, attempts up to 2, one panic | `OneWake`, `NoStaleResult`, `StoppedMeansReaped`, `RetryStartsWake`, and under fairness `WorkWakesPool`, `ShutdownCompletes` |
| `relay_client` | 1 channel, event channel of 1, 3 items, 2 faults | `TypeOK`, `NothingMissed`, `NoDoubleDelivery`, `MembershipSettled`, `ActiveCovered`, `NoResurrection`, and under fairness `EventuallyEnqueued` |
| `huddle_ownership` | 2 pods, 2 connections, 2 generations, 3 rooms, 1 fault, one pod shut down | `RenewerReachable`, `DrainedNotRenewed`, `NoGhostPeers`, `LeaseSpec`, and under fairness `DrainedPodLetsGo` |
| `relay_interest` | 1 connection with 2 ids, 1 topic, 2 REQs, CLOSE, disconnect, 1 eviction, a drain or an archival | `InterestCounted`, `OnlyDropsHide`, `NoneOutlivesSweep` |
| `relay_delivery` | 1 connection with 2 ids, 2 topics, 2 REQs, 1 event, 1 fault, 1 lost Redis connection, pages from the writer or a replica | `InterestCovered`, `NoGap`, `RoutedOnce`, `InScope` |
| `cancelled_lost` | 1 channel, 1 slot | violates `CancelledEventsSurvive` |
| `missed_replay` | as `relay_client` | violates `DroppedComeBack` |
| `unwatched_owner` | 1 pod, 3 connections, no fault | violates `OwnerPeerWatched` |
| `unindexed_subscription` | 1 connection with 2 ids, 1 topic, 2 REQs, CLOSE | violates `Reachable` |

The `TypeOK` of `PoolLifecycle`, of `HuddleOwnership` and of `RelayPod` is proved (section 4) and
not checked again. The four violations are the disagreements of section 6. Each passing run takes from 20
seconds to three minutes with two workers; the largest, `relay_interest`, has 2.2 million
states.

Bounds of the harness. `MaxEvents`, `MaxCreated`, `MaxLapses` bound the inputs;
`MaxPending`, `MaxBatch`, `MaxRetries` (1) and `CrashThreshold` (2) replace the code's 500,
50, 10 and 3 so that eviction, batch splitting, dead-lettering and a tripped breaker
happen within those inputs. Two events make one turn and one steer or one retry on each side
of it, and with a queue of one they fill it. Two slots and two channels make dispatch,
affinity and results of different turns interleave. `MaxAttempt` stands for `u32::MAX`,
where the attempt counter saturates, so that a saturated counter is reached;
two agents make partial pools, and one panic breaks a wake at any of its steps.

Bounds of the relay client. An event channel of one is full after one event. Three items
are what a lost event needs: the dropped one, a newer one that moves the watermark past
it, and one that fills the channel; or a removal, a rejoining and an event. The duplicate
filter is large enough not to forget (its limit is a separate remark of section 6), and two
faults give a loss during the recovery from another fault. Three faults were checked once.

Bounds of the huddle. Two pods are an owner and an ingress; two connections are a
peer and one that joins, leaves or takes over; two generations are an owner and its
successor; three rooms let a connection hold a room that was replaced twice.

Bounds of the pod. Two ids of one connection race in every pair of operations on an
index entry and a count, handler against handler and handler against CLOSE, eviction and
cleanup; the second REQ is a replacement, a second subscriber or a return after a release. With
two topics a connection moves a subscription while the event of either topic is on its way by
either route. Ids of one connection meet in all that ids of two connections meet in, and in the
lock of the connection's entry besides; several connections at once are covered by the theorems,
which hold for any number of connections, ids and REQs. One case does not arise in
`relay_delivery`: without CLOSE a key is emptied by a replacement only, and two REQs do not
suffice to hide a subscription that got its EOSE. The exception that `NoGap` makes for a hidden
subscription is therefore exercised by the proof and by `relay_interest` (`OnlyDropsHide`). The
symmetry of ids and topics is declared, as all properties of these runs are invariants.

Deadlock is not checked: the inputs are bounded, and the programs really stop, after
`Shutdown`, when every agent is dead, or when every connection is gone.

Assumptions of the instances. In `relay_client`, writes may time out everywhere except in the
drain after a reconnect, whose failure is a separate remark of section 6. In `huddle_ownership`, `PromptAdmission`
says that no lease runs out between the acquire and the attach of the same connection (the
lease lives 30 s; section 6 says what happens otherwise).

`NothingMissed` and `EventuallyEnqueued` except by name what the code does lose: the items in
`cut`. Nothing keeps a connection from ending during a replay or a REQ from being refused; the
properties say that an item is lost in those two ways only. An item that was unread when a
connection ended is in `cut` only if the next `since` does not reach back to it; one of a REQ that
was swallowed or refused only if the REQ carried a mark and asked for it. They speak of notices and of channels the agent was never removed from (`Stayed`).
In the same way `NoGap` excepts a subscription that was dropped from the index, and an event that
was fanned out before the subscription was listed and had not reached the replica that was asked.

`BackoffHonoured` says that a throttled channel is not prompted, and that a turn that brings a
new throttle also counts a retry: `mark_complete` takes the absence of a throttle for success, so the
order of `requeue` and `mark_complete` in `handle_prompt_result` matters (its mutant swaps them).

`SettledEventsGone`, `TurnExclusive`, `BackoffHonoured` and `TurnsUntilLapse` speak of
behaviours in which no in-flight deadline has passed. The deadline is the hard turn
limit plus a margin; when it does pass, the code presumes the task dead, and a late
task legitimately coexists with its channel's next turn. `UncancelledEventsAccounted`,
`EventInOnePlace` and `SlotExclusive` are checked with lapses; `QueueWithinCap` is proved with
them.

Fairness (`FairSpec`). The main loop keeps running (weak fairness). `select!` is
biased, but a ready result, panic or ack is not starved for ever by the arms above it,
since those consume what they receive: strong fairness. Maintenance is due every 30
s of wall-clock time, so a loop that iterates for ever takes it again and again:
strong fairness of `Maintenance`. A turn ends, because of the idle and hard timeouts;
a respawn task ends, because spawning and initialisation are under timeouts and the
guard reports in any case; timers elapse. One assumption is about the agent binary and not
the harness: a slot that is respawned again and again eventually gets a live agent.
Nothing is assumed of relay events, owner commands, or deadlines.
`PoolLifecycle` assumes in the same way that spawns and handshakes end (60 s timeout),
that the retry timer elapses, that ready arms are taken, and that a pool woken again
and again eventually gets an agent. The shutdown arm is the last of the biased `select!`,
so that it is taken assumes moments in which no other arm is ready. The exit's
waits have grace periods of 30 s, so its steps are weakly fair.
`RelayClient` assumes weak fairness of the background task, of the harness that reads
its events, and of the gate, which has a deadline; nothing of the relay. `HuddleOwnership`
assumes that each connection's task goes on joining and leaving, that a control stream is
served, that each renewer runs, that shutdown proceeds, and that a lease nobody renews runs
out (Redis `PX`); clients need not leave. `RelayPod` has safety properties only and states
no fairness.

## 4. What is proved

For every value of the constants that meets the assumptions. These are, for the harness,
`QueueAssumption`, `CircuitAssumption`, `HarnessAssumption`, `HeartbeatAssumption`,
`PoolAssumption`: sizes are naturals, the slots are a finite nonempty set of naturals, the
switches are Booleans or one of their settings, the heartbeat is not a channel. For the
huddle, `PodsAssumption`, `BoundsAssumption`, `DrainAssumption`: the bounds are naturals,
`NoPod` is not a pod, and the pods that shut down are pods. For the relay client,
`ClientAssumption`: capacities are positive, and the command channel holds the commands with
which the harness starts, one for each founding channel and two more. For the pod,
`NoTopicAssumption`, `OutagesAssumption`, `PodAssumption`: the bounds are naturals and the
placeholders are no topics or connections, and a pod has finitely many connections, subscription
ids and REQs, as it has to for a count of them to mean anything. The bounds on inputs and faults are arbitrary
naturals, so they limit nothing.

| Theorem | Statement |
|---|---|
| `TypeCorrect` | `Spec => []TypeOK` |
| `QueueCapped` | `Spec => []QueueWithinCap` |
| `AgentInOnePlace` | `Spec => []SlotExclusive` |
| `BreakerHolds` | `Spec => []OpenCircuitKeepsSlotEmpty` |
| `SessionsFresh` | `Spec => []NoStaleSession` |
| `OneTurnPerChannel` | `Spec => []TurnExclusive` |
| `ThrottleRespected` | `Spec => BackoffHonoured` |
| `WithheldAnswered` | `Spec => []WithheldHasAck` |
| `NoSilentLoss` | `Spec => []UncancelledEventsAccounted` |
| `OneCopy` | `Spec => []EventInOnePlace` |
| `SettledStaysGone` | `Spec => []SettledEventsGone` |
| `NoneReturns` | `Spec => [][...]_vars`: an event that arrived and is in no place is in none after the step |
| `OnlyPutBacksLose` | `Spec /\ [][~PutsBackMerged]_vars => []CancelledEventsSurvive` |
| `TurnsScheduled` | `Spec => TurnsUntilLapse`: until a deadline lapses `AcpHarness` implements `TurnScheduler` |
| `PunctualTurnsScheduled` | `MaxLapses = 0`: `Spec => Scheduler!Spec` |
| `LazyTypeCorrect` | `Spec => []TypeOK` of `PoolLifecycle` |
| `SingleWake` | `Spec => []OneWake` |
| `ResultsMatch` | `Spec => []NoStaleResult` |
| `ExitReapsAgents` | `Spec => []StoppedMeansReaped` |
| `NoRetrySpin` | `Spec => []RetryStartsWake` |
| `ClientTypes` | `Spec => []TypeOK` of `RelayClient` |
| `NoneForgotten` | `"post" \notin SlowSends`: `Spec => []ActiveCovered` |
| `GivenUpStaysGone` | `Spec => NoResurrection` |
| `SubscribedAsMember` | `Spec => []MembershipSettled` |
| `NoReplayTwice` | `Spec => [](Cardinality(log) < 2 * SeenHalf - 1 => NoDoubleDelivery)` |
| `OnlyCutReplaysMiss` | `"post" \notin SlowSends`: `Spec => []NothingMissed` |
| `HuddleTypeCorrect` | `Spec => []TypeOK` of `HuddleOwnership` |
| `LeaseImplemented` | `Spec => LeaseSpec`: `HuddleOwnership` implements `FencedLease` |
| `RenewersReachable` | `PromptAdmission`: `Spec => []RenewerReachable` |
| `DrainStopsRenewers` | `PromptAdmission`: `Spec => []DrainedNotRenewed` |
| `PeersAttended` | `Spec => []NoGhostPeers` |
| `InterestNeverForgotten` | `Spec => []InterestCovered` |
| `SweepsAreComplete` | `Spec => []NoneOutlivesSweep` |
| `PodTypes` | `Spec => []TypeOK` of `RelayPod` |
| `CountsSuffice` | `Spec => []InterestCounted` |
| `RoutedAtMostOnce` | `Spec => []RoutedOnce` |
| `FramesInScope` | `Spec => []InScope` |
| `IndexHidesByDropsOnly` | `Spec => []OnlyDropsHide` |
| `GapsAreDropsOrReplicas` | `Spec => []NoGap` |

The argument about `AcpHarness` has four layers.

1. `TypeInv` strengthens `TypeOK` in two ways. The queue is in `BoundedQueue`, whose
   pending sequences are capped, so that type and cap are one induction and each queue
   operation has one lemma (`PushBounded`, `RequeueBounded`, ...). Tasks are in
   `GoodTask`: a heartbeat's task never takes a signal, carries a steer or returns a
   batch; without this a heartbeat's pseudo-channel could index the queue's maps. The
   sort of `flush_next` is defined by rank; that every position is some event's rank
   is a pigeonhole argument (`CountBelowOnto`).
2. `SlotInv` is `SlotExclusive` and `OpenCircuitKeepsSlotEmpty` together: a crash may
   only empty a slot because the slot's agent was out, and the breaker may only open
   because the slot was just emptied. Most actions are dispatched by one frame
   lemma (`QuietStep`).
3. `TurnInv` says, while no deadline has lapsed, for each channel: in flight if and
   only if exactly one task works on it; a throttled channel is not in flight and has no
   stored cancelled batch; a channel in flight has no stored cancelled batch. The
   last two are needed because `flush_next`'s fallback for cancelled batches does not
   look at the throttle: the throttle is respected only because a channel never has
   both. `HeartbeatTurns` says the same of the heartbeat flag, with no condition. The other half
   of `BackoffHonoured` (`CountsRetry`) is a lemma about each step: the turn that failed is
   requeued before it is marked complete, and `mark_complete` keeps the count of a throttled channel.
4. `EventInv` is about the events themselves. `EventQueueProofs` says of each operation what
   the stores `Hold` afterwards and that it keeps them free of duplicates (`Once`);
   `AcpEventProofs` follows an event through the stores, the batches, the steers and the
   acks, in four invariants.
   * `AccountInv`: every live event outside cancelled turns is in a store or a batch, and
     events of cancelled turns are on record wherever they are. Each action either keeps what
     it takes or settles it (`Dies`).
   * `SteerInv`: a withheld event is asked for by an ack or by a steer request of the
     channel's running task, and no event is asked for twice. The second part is needed:
     with two acks for one event the first could take what the second answers for.
   * `PlaceInv`: stores and batches share no event and have none twice (`PlacedInv`), and
     all they hold has arrived (`KnownInv`). A lapsed deadline does not disturb this: the expiry
     moves events within a channel, and a late task requeues a batch that nobody else has.
     The same steps show that only an arrival brings an event that was not there
     (`NoneBack`), which is `NoneReturns`.
   * `ContentInv`, until a deadline lapses: all that stores and batches hold is live
     (`LiveInv`), and an event under a steer or an ack is withheld or gone, never queued or in a
     batch (`AskedInv`). The second makes the first inductive: a delivered steer removes
     the withheld copy, and there is no other that would outlive it.
   These hold from the beginning of every behaviour; all but `ContentInv` have no condition
   on deadlines.
   `SurviveInv` says of all live events what `AccountInv` says of those outside cancelled turns;
   it is kept by every step but `PutsBackMerged`, and behaviours without such a step are many:
   a merged batch that finds an idle agent and does not fail takes none (`OnlyPutBacksLose`).

The refinement of `TurnScheduler` rests on these layers. Each action of the harness is a step of
the scheduler or leaves its variables alone: a relay event is `Accept` or `Refuse`;
`DispatchStep` is `Start`, or `Drop` when a batch bounces without its cancelled events; a
heartbeat tick may be `Beat`; a result or a panic is `End` or `BeatEnds`; a removal and a steer ack are `Drop`. That
the agent and the channel are free is `SlotInv` and `TurnInv`. That a step moves events of
its own channel only is proved from three facts: each operation leaves the stores of other
channels alone (`OpsOneChannel`), the stores together gain nothing but the batch that ended (the
`Held` lemmas), and no event is in two channels (`PlaceInv`, through `ChannelGains`).
The refinement ends with the first lapsed deadline because two turns of a channel may then overlap,
as the code intends; `OneCopy` and `NoneReturns` go on. `MaxLapses = 0` is the case the code
provides for, in which every turn returns before the backstop fires (`queue.rs:168-170`).

The attempt to prove `NoSilentLoss` found an omission in the model: when no agent is idle
`dispatch_pending` puts the batch back with `requeue_preserve_timestamps`, which trims a queue
that is over its cap and warns of it (`queue.rs:520-528`), and the model did not record the fate of
the trimmed events. `DispatchStep` now does. No run had reached it: there a queue is never
filled between the flush and the requeue.

The lazy pool has three independent invariants above its `TypeInv` (types, and a
handshake only for an existing slot). `WakeInv` is `OneWake` with `NoStaleResult`: the
attempt is a token that passes from the task to the channel to the lifecycle, and a
wake starts only when nobody holds it. `ExitInv` says for each phase of the exit what
it has cleaned up for good: after the wake phase no task can start or deliver agents,
after the prompt phase only respawns hold agents, after the abort only finished ones.
`RetryInv` says that the work flag is still true while `select!` waits, because a pool
that is not ready has no agents to consume the queue, so that after the retry arm a
wake is due at the top.

The relay client has six invariants. `BaseInv` is the types with what the properties need
of the log: numbers and time stamps of its items are their own, and everything on the wire and in
the event channel comes from it. A replay is defined by rank, newest first, and that
it holds every stored item once is again the pigeonhole argument (`ReplayItems`).
`WantedOnly`: what a resubscription has still to do and what is to be retried is active; with
it a channel that becomes live at the relay is active, whoever asked (`GivenUpStaysGone`).
`CoverInv` is `ActiveCovered` with one addition, that after a failed drain the socket is dead;
each action that takes one reason for a subscription to be covered away (an entry drained, a
CLOSED read, the gate passed) leaves another. `SettlingInv` relates the three views of
membership: a notice the harness has seen is no newer than the newest it applied, that one
decides what is subscribed, and the newest stored one decides membership. `FilterInv` is a
counting argument: the two generations are disjoint, and a rotation leaves at least
`SeenHalf - 1` ids in the older one (a refused item takes its own out again), so a rotation
that forgets something has seen `2 * SeenHalf - 1` different ids.

The sixth, `ReachInv`, is for `OnlyCutReplaysMiss`, and is about the stamps from which
the next `since` is computed. `NothingMissed` is far from inductive: it says that an item
nobody has is asked for again, and every step that moves a watermark, clears the mark
of a drop or ends a subscription could make that false. The part that carries the argument is
`InReach`: an item that was neither handed over nor is on the wire nor was cut off is at or after
the mark of what was dropped, or it is at or after the watermark, its subscription is not live at
the relay and nothing newer of it is on the wire, all less the skew that a `since` allows for.
Around it:

* `InOrder` and `Ahead`: live items of a subscription come in the order of their time stamps and the
  watermark is not past them, so that reading one cannot move it past an older one that is still
  to come. A replay is newest first and has no such order: when the connection is given up in the
  middle of one, the watermark may be past its unread half. That half is what `GiveUp` adds to
  `cut.ended`, item by item and only where the next `since` does not reach back to it; a REQ that
  is swallowed by a dead socket or refused adds what only its mark would have brought (`Marked`).
  The proof shows that nothing else gets lost; finding `missed_replay` and the observation below
  show that both do happen.
* `DropDue`: a mark always has a resubscription due that will use it. This uses `CoverInv`
  and the hypothesis on `"post"`: a write after a reconnect that times out on a live socket
  is ignored by the caller.
* `SeenIn`: what the filter takes for a duplicate was handed over, as a refused item is taken out
  of the filter again.
* `StampsOK`, `Untouched`, `ResubOn`: stamps are never of the future, the startup watermark is
  set by the first command, and a subscription nobody asked for has none.
* `AskedOnce` and `NotDenied`: a channel the agent was never removed from is subscribed by one command,
  and is never denied, so that its subscription is not started anew over an old watermark.
  After a removal this fails, which is why the property speaks of `Stayed` channels (section 6,
  relay client).

An action that moves the stamps of one subscription leaves those of the others
(`SameStamps`), so each action has one lemma for the subscription it is about.

The huddle has three layers. `Base` is the type invariant with what types alone do not say:
the lease in Redis, if any, has the newest generation and the owner to which that
generation was granted, and no registry, room, connection or control stream knows a
generation that was not granted. From it every step is a grant, an end, a use or a stutter
of `FencedLease` (`Grant`, `Vacate`, `Use`): a renewal or a check that succeeds compares owner and generation with a
lease that is present, so what it accepts is the present epoch. `Reach` is for the renewers:
between its acquire and its attach a connection is the only one there, its lease is still
present and nobody renews it (`Held`; this is where `PromptAdmission` is used); generations not
granted have no renewer (`Unborn`); and an entry that a shutdown did not collect was inserted by
a connection that has yet to look at the draining flag again (`Late`). `RenewerReachable` needs
`Held`, because an insert overwrites what the registry had, and `DrainedNotRenewed` needs
`Late` with `RenewerReachable`: a renewer is in the registry, so it is collected or late.
`GhostInv` is for `NoGhostPeers` and needs no `PromptAdmission`. A room belongs to one pod, and
whoever holds it belongs there (`OwnRooms`); a connection that has not dialled has no control
stream, and one that has not begun has no room (`NotBegun`); each peer of a room its manager
knows has a connection that will take it out, locally because the connection holds that very room, or
through a stream of the owner pod that is served or cut (`AllAttended`). `OwnRooms` is what the
teardown of a stream needs: it removes its peer from the room the manager knows by then, which may
be a later one than the room the peer was put in, and what is left of the older is no longer live.

The pod has seven invariants. `InterestInv` adds to `InterestCovered` that a handler
knows its topic from its start, and that only a connection that is up has active topics: a
topic counts as covered while the link is down because the next snapshot will have it, and
that needs the snapshot to be the only way the link comes up. The case that carries the
argument is an idle topic that is taken out while a handler has counted it and not yet sent its
order. `SweepInv` adds to `NoneOutlivesSweep` that an archival has cancelled every connection that
was already past the check.

`RegistryInv` says who may hold what between the steps of a REQ, a CLOSE, the end of a
connection and an eviction: an entry is from a handler of the same connection that is past its
insert, whoever took an entry out knows its topic, and while an entry is locked for a removal it
is empty. On it rests `CountsSuffice`, a counting argument: a topic's count, with the retains
still to come, is at least its registered subscriptions with the releases still to come. Every
action is, for every topic, one of five kinds (`Steady`, `Registers`, `Retains`,
`Unregisters`, `Settles`), and each kind keeps the inequality. It is an inequality because
a release that overtakes its retain finds a count of 0 and does nothing, after which the topic
is counted once too often: that costs a subscription at Redis and loses no event.

`DeliveryInv` follows one event from its row to the frames: Redis tells the pod once and only
of what was published; what was dispatched here is marked before Redis can tell of it, so
that the consumer deals with an event of this pod only if its PUBLISH was taken to have failed
(`HeardOK`, `ConsumedOK`); frames are sent by the step that settles the event (`SentOK`).

`OnlyDropsHide` says how far the fault in the index goes (finding in section 6), and needs no
strengthening beyond `RegistryInv`: a subscription that is complete, on a connection that is served,
is listed for its topic unless it was hidden. Every removal takes out its own slot only, and a slot
is taken out of the index only after its entry; so the one step that can unlist the entry of another
is `Drop`, the second half of `remove_from_index`, on a key that was filled again since the first
half left it empty. It does not matter whose REQ filled it: another connection's, or another id's
of the same connection, since the lock of the connection's entry is not held for the push. Dropping
the key only while it is empty would do.

`GapInv` is for a subscription that is set up and not hidden (`Listening`): an event of its topic that
was not fanned out before it was listed is matched by the fan-out that settles it, and was sent once it
is settled. Its companion `LookedUp` says that what was fanned out before had been stored before, so
that the query, which comes later, returns it or the replica is behind it. Together they are
`GapsAreDropsOrReplicas`: nothing is lost in the seam between stored and live events, but for the
two exceptions that the property names.

## 5. Only model-checked

Liveness under fairness is out of the prover's reach (it does not handle `ENABLED`), as
is induction over data, so what recursive definitions compute is left to TLC; the
modules with proofs use none. These stay with TLC: `QueuedWorkServed`, `WithheldResolved`,
`SlotRefilled`, `WorkWakesPool`, `ShutdownCompletes`, `EventuallyEnqueued`,
`DrainedPodLetsGo`.

Every safety property of a passing run is proved, under the assumptions of section 4
(`NoDoubleDelivery` up to the number of items that the filter remembers).

## 6. Where code and comments disagree

Each of these is a run that TLC finds violated.

* `cancelled_lost`: `requeue` and `requeue_preserve_timestamps` put back a batch's events
  but not its `cancelled_events`. A steered turn is cancelled and its events ride in
  the next batch as `cancelled_events`; if that batch finds no agent, or fails,
  they are gone, although the comments promise that the batch survives. `OnlyPutBacksLose`
  proves that nothing else loses them: it takes a step that puts back a batch which carries
  cancelled events (`PutsBackMerged`).
* `missed_replay`: the mark of a dropped event is cleared when the REQ for its replay is
  written (`relay.rs:2549` and five more places), and the comments say after a successful
  resubscription. If the relay refuses that REQ, the event is not asked for again, although the
  connection holds. `OnlyCutReplaysMiss` proves that only such a refusal, or the end of a
  connection, loses an item.
* `unwatched_owner`: a peer that joins a huddle on the owner pod is said always to get a
  watcher of the lease (`handler.rs:569-573`). Between its check and its admission the last
  two peers may leave: one is still archiving the channel when the other's cleanup removes
  the room and releases the registry entry, and the joiner is admitted without a watcher.
* `unindexed_subscription`: `remove_from_index` lets go of an index entry that it
  emptied and then removes the key without another look (`subscription.rs:481-482`). A
  registration in between is in the registry and in no index, so that fan-out does not find it,
  while a test asserts that a replacement stays reachable. One connection suffices: `register_scoped`
  lets go of the connection's entry (line 82) before it pushes to the index (90-111), and runs in
  a task of its own while CLOSE runs in the receive loop, so a client that opens an id
  and closes another on the same channel meets it. `IndexHidesByDropsOnly` proves that nothing else
  hides a subscription.

### Observations without a run

Queue and main loop. When no agent is free, `dispatch_pending` puts the batch back and
calls `mark_complete`, which takes the absence of a throttle for success and clears the
retry count (`lib.rs:3034`, `queue.rs:388-389`): a batch that crashes the only agent may then
never be dead-lettered. The fallback of `flush_next` returns the events of cancelled turns
unsorted (`queue.rs:347-348`), while consumers are said to require the newest last
(`queue.rs:325`). Maintenance is said to be immune to starvation (`lib.rs:1672-1673`), but with
presence, typing, heartbeat and the inactivity reaper off no arm of `select!` is a timer, and
a batch requeued after a crash waits for the next relay event. The overflow warning of
`requeue` says "dropped oldest event" (`queue.rs:485-493`) where `pop_back` drops the newest;
the state-machine comment (`queue.rs:126-130`) has `mark_complete` remove `retry_counts`
without the condition; `flush_next` is said to drain all events (`queue.rs:257-258`) and
drains at most `MAX_BATCH_EVENTS`.

Relay client. A connection that ends during a replay, newest first, loses the older half
of it, because the watermark has moved. It need not be the relay's doing: a late `Reconnect`
(`relay.rs:1881`), a failed command write (1913-1917) and a missed pong (1951-1956) give it up
just so. `NothingMissed` excepts these items by name (`cut.ended`). Callers ignore a
failed drain after a reconnect. A channel whose access was denied stays deaf until the next
membership notice. An unsubscribed channel keeps its watermark, and a Subscribe takes its
`since` from `last_seen` alone (`relay.rs:1397-1401`). An event may therefore be lost for good
when a channel is left and joined again while events of the old subscription are unread: one
of them moves the watermark past an event that was dropped or not asked for yet. This takes
four items; `NothingMissed` does not speak of such channels (`Stayed`). An
addition and a removal in the same second may be replayed in reverse. The duplicate filter
remembers fewer than half its limit just after a rotation (`relay.rs:941-942`).

Huddles. A failed roster write leaves by `?` (`join.rs:1190`, `1322`) and skips the teardown that
`join.rs:1347` says happens however the loop ended. Early returns after the acquire leave the
lease to its TTL. When the last peer to leave is on another pod, the owner's renewer has
nobody to stop it, and the channel is not archived (`handler.rs:889`). A drained owner closes its
clients so that they rejoin, and the last of them archives the channel. If a lease runs out
between acquire and attach, an older insert may overwrite a newer entry (`join.rs:648-651`); this
is what `PromptAdmission` excludes.

Pod. `retain_topic` does not wait for the SUBSCRIBE (`lenos-pubsub/src/lib.rs:203`), so an event that
another pod stores after the historical query and publishes before the SUBSCRIBE is missed;
`NoGap` therefore speaks of events that this pod fanned out. With
`LENOS_REPLICA_READ_MAX_AGE_MS` set, the historical query may be served by a replica whose page
misses the freshest writes (`handlers/req.rs:312`, `lenos-db/src/lib.rs:371-376`, `450-458`). An event
that was stored and fanned out just before the registration is then neither in the page nor
sent live, and the EOSE gives no hint of it; `NoGap` excepts it by name. A CLOSE between the register and
the retain of a REQ leaks a count, a REQ that registers after `remove_connection` leaks an
entry and a count, and two REQs with the same id at once overwrite each other;
`InterestCounted` therefore says that a count is
never too small, and not that it is exact. An eviction closes by id, so it may hit
a replacement of the same id on another channel. A PUBLISH that succeeded and was reported
as failed is delivered again by its echo. A failed historical query still ends in EOSE.

## 7. Not modelled

In the parts that are modelled:

* harness: the author gate and rule filters, the inactivity clock (its shutdown is
  `Shutdown`), back-off delays as numbers (timers are armed or have passed), prompt text,
  JSON-RPC framing, usage accounting, setup and telemetry;
* relay client: observer and telemetry frames, pings, the authentication handshake, REST
  calls and the orderly end of the task;
* huddle: media datagrams, roster contents and their replication (`join.rs` from 1525),
  protocol versions, video, byte tunnels;
* pod: authentication, send buffers and slow clients, access and visibility filters, search
  REQs and COUNT, the separate indexes per kind (one index per topic stands for them),
  heartbeats, presence, typing, rate limits, cache invalidation.

The rest of section 1.4 is left out. Event ingest, the store, the HTTP API and git on object
storage are data handling over SQL and object storage, whose semantics belong to those
systems; the agent runtime is seen by the harness only through its protocol, whose
outcomes `AcpHarness` enumerates; types, codecs, tools and user interfaces have no
long-lived concurrent state of their own. The mesh, pairing relay, audit log, workflow
engine, push gateway and Kubernetes backend have, and are in the plan. Most of the repository's
lines are in the first group, so the modelled share of its lines is small.

## 8. Plan

1. (done) `EventQueue`, `SlotCircuit`, `AcpHarness`, `PoolLifecycle` with their runs and
   sixteen theorems.
2. (done) `RelayClient` with the membership filter; `FencedLease` and the refinement by
   `HuddleOwnership`; `TopicInterest` and `RelayPod`; eighteen theorems.
3. (done) `TurnScheduler`, which `AcpHarness` implements under a refinement mapping from its
   stores and tasks.
4. Liveness of the pod (a wanted topic is eventually subscribed, a sweep ends), slow
   clients, roster replication.
5. Workflow approvals and resumption, the audit chain, the pairing relay, mesh
   membership, the push gateway.
6. (done) Proofs of the events of the harness, the pod's delivery and counts, and the relay
   client, `NothingMissed` among them; of `NoGhostPeers`, of the single copy of an event without a
   condition, of the refinement of step 3, and of the extent of `cancelled_lost`, of
   `missed_replay` and of `unindexed_subscription`; 39 theorems in all.
7. `OwnerPeerWatched`, which does not hold: a theorem that delimits the fault, as
   `OnlyPutBacksLose` and `IndexHidesByDropsOnly` do for `CancelledEventsSurvive` and `Reachable`.
