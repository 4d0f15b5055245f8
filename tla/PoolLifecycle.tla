--------------------------- MODULE PoolLifecycle ---------------------------
(***************************************************************************)
(* The lazily started agent pool (crates/lenos-acp/src/pool_lifecycle.rs)  *)
(* and the ends of its life in lib.rs: the wake tasks that start the agent *)
(* processes when the first work arrives, and the orderly exit of the      *)
(* harness, which must shut down every process it started.                 *)
(*                                                                         *)
(* The queue is only the number of events in it: before the pool is ready  *)
(* no turn runs, so everything queued is flushable.  Turns and respawns    *)
(* are reduced to where the agent of a slot is; AcpHarness has the rest.   *)
(* The order in which the biased select! tries its arms is not modelled.   *)
(***************************************************************************)
EXTENDS Naturals, FiniteSets

CONSTANTS
  Agents,       \* config.agents
  MaxAttempt,   \* the attempt counter saturates here (u32::MAX)
  MaxEvents,    \* bound: relay events of one behaviour
  MaxPanics     \* bound: wake tasks that panic

ASSUME PoolAssumption ==
  /\ Agents \in Nat \ {0} /\ MaxAttempt \in Nat \ {0}
  /\ MaxEvents \in Nat /\ MaxPanics \in Nat

Slots    == 1 .. Agents
Attempts == 1 .. MaxAttempt

VARIABLES
  pc,          \* "top" or "select" of the loop, then the phases of the exit
  life,        \* the PoolLifecycle state machine
  poolReady,   \* pool_ready
  queued,      \* number of queued events
  workPending, \* lazy_wake_work_pending, computed at the top of the loop
  retried,     \* history: the last select! ended by its retry arm
  wakes,       \* wake_tasks, by attempt
  chan,        \* the wake channel (capacity 1)
  slots,       \* where the agent of each slot of the started pool is
  watch,       \* the shutdown watch has fired
  arrivals, panics

vars == <<pc, life, poolReady, queued, workPending, retried, wakes, chan, slots, watch,
          arrivals, panics>>

\* retry is the relation of retry_at to now.
Life == [st : {"listening", "waking", "failed"}, attempt : 0 .. MaxAttempt,
         retry : {"none", "armed", "passed"}]
Listening == [st |-> "listening", attempt |-> 0, retry |-> "none"]
Waking(a) == [st |-> "waking", attempt |-> a, retry |-> "none"]
Failed(a) == [st |-> "failed", attempt |-> a, retry |-> "armed"]

\* initialize_agent_pool: slot is the next one to start, held the started agents.
WakeTask == [st : {"none", "spawn", "init", "panicked"}, slot : 1 .. Agents + 1,
             held : SUBSET Slots]
NoWake   == [st |-> "none", slot |-> 1, held |-> {}]
NewWake  == [st |-> "spawn", slot |-> 1, held |-> {}]

\* A wake result: the agents of the pool, or none for an error.
Result   == [attempt : Attempts, agents : SUBSET Slots]
NoResult == [attempt |-> 0, agents |-> {}]

TypeOK ==
  /\ pc \in {"top", "select", "wakes", "prompts", "respawns", "results", "stopped"}
  /\ life \in Life
  /\ poolReady \in BOOLEAN /\ workPending \in BOOLEAN
  /\ retried \in BOOLEAN /\ watch \in BOOLEAN
  /\ queued \in 0 .. MaxEvents /\ arrivals \in 0 .. MaxEvents /\ panics \in 0 .. MaxPanics
  /\ wakes \in [Attempts -> WakeTask]
  /\ chan \in Result \cup {NoResult}
  /\ slots \in [Slots -> {"none", "idle", "out", "returned", "respawning", "respawned"}]

Init ==
  /\ pc = "top" /\ life = Listening /\ poolReady = FALSE
  /\ queued = 0 /\ workPending = FALSE /\ retried = FALSE
  /\ wakes = [a \in Attempts |-> NoWake] /\ chan = NoResult
  /\ slots = [s \in Slots |-> "none"]
  /\ watch = FALSE /\ arrivals = 0 /\ panics = 0

InLoop == pc \in {"top", "select"}
Active(a) == wakes[a].st \in {"spawn", "init"}

-----------------------------------------------------------------------------
(* The main loop *)

\* dispatch_pending with n queued events on the pool sl: idle agents take batches of at
\* least one event.  Channels in flight or backing off keep theirs (EventQueue).
Dispatch(n, sl) ==
  \E S \in SUBSET {s \in Slots : sl[s] = "idle"}, left \in 0 .. n :
    /\ left + Cardinality(S) <= n /\ (S = {} => left = n)
    /\ slots' = [s \in Slots |-> IF s \in S THEN "out" ELSE sl[s]]
    /\ queued' = left

\* Seeded fault: a second wake is started although one is under way.
WakeDueWhileWaking(l) == l.st # "failed" \/ l.retry = "passed"

\* start_wake_if_due: may a wake start, and with which attempt number.
WakeDue(l) == l.st = "listening" \/ (l.st = "failed" /\ l.retry = "passed")

NextAttempt(l) ==
  IF l.st = "listening" THEN 1
  ELSE IF l.attempt < MaxAttempt THEN l.attempt + 1 ELSE MaxAttempt

\* complete_wake accepts the result of the attempt it waits for; cancel_wake fails whatever
\* attempt is waking.
Accepts(l, a) == l.st = "waking" /\ l.attempt = a
CancelWake(l) == IF l.st = "waking" THEN Failed(l.attempt) ELSE l

\* Maintenance respawns some empty slots, and completed respawns go back to the pool.
Refreshed(R) ==
  [s \in Slots |-> IF s \in R THEN "respawning"
                   ELSE IF slots[s] = "respawned" THEN "idle" ELSE slots[s]]

\* Top of an iteration: compute the pending work, start a due wake; in a pool that is
\* ready, maintenance when due, collection of respawns and dispatch.
Top ==
  /\ pc = "top" /\ pc' = "select"
  /\ workPending' = (~poolReady /\ queued > 0)
  /\ \/ /\ workPending' /\ WakeDue(life)
        /\ life' = Waking(NextAttempt(life))
        /\ wakes' = [wakes EXCEPT ![NextAttempt(life)] = NewWake]
     \/ ~(workPending' /\ WakeDue(life)) /\ UNCHANGED <<life, wakes>>
  /\ IF poolReady
     THEN \E R \in SUBSET {s \in Slots : slots[s] = "none"} : Dispatch(queued, Refreshed(R))
     ELSE UNCHANGED <<slots, queued>>
  /\ UNCHANGED <<poolReady, retried, chan, watch, arrivals, panics>>

\* An arm of select! ended and the loop goes round; r says whether it was the retry arm.
GoRound(r) == pc = "select" /\ pc' = "top" /\ retried' = r

RelayEvent ==
  /\ GoRound(FALSE)
  /\ arrivals < MaxEvents /\ arrivals' = arrivals + 1
  /\ IF poolReady THEN Dispatch(queued + 1, slots)
     ELSE queued' = queued + 1 /\ UNCHANGED slots
  /\ UNCHANGED <<life, poolReady, workPending, wakes, chan, watch, panics>>

\* Seeded fault: with the last event the wake is given up, but its task is not stopped.
ChannelRemovedGivingUp ==
  /\ GoRound(FALSE)
  /\ queued' \in 0 .. queued
  /\ life' = IF queued' = 0 THEN CancelWake(life) ELSE life
  /\ UNCHANGED <<poolReady, workPending, wakes, chan, slots, watch, arrivals, panics>>

\* The agent is removed from a channel: its queued events are drained.
ChannelRemoved ==
  /\ GoRound(FALSE)
  /\ queued' \in 0 .. queued
  /\ UNCHANGED <<life, poolReady, workPending, wakes, chan, slots, watch, arrivals, panics>>

\* The wake result arm, with complete_wake and take_ready; nothing is in flight, so queued
\* work is dispatched.  A result that does not belong to the current attempt is dropped.
WakeResult ==
  /\ GoRound(FALSE)
  /\ ~poolReady /\ chan # NoResult /\ chan' = NoResult
  /\ IF Accepts(life, chan.attempt) /\ chan.agents # {}
     THEN /\ life' = Listening /\ poolReady' = TRUE
          /\ Dispatch(queued, [s \in Slots |-> IF s \in chan.agents THEN "idle" ELSE "none"])
          /\ queued > 0 => queued' < queued
     ELSE /\ life' = IF Accepts(life, chan.attempt) THEN Failed(chan.attempt) ELSE life
          /\ UNCHANGED <<poolReady, slots, queued>>
  /\ UNCHANGED <<workPending, wakes, watch, arrivals, panics>>

\* Seeded fault: the retry arm is not gated on pending work.
RetryArmUngated ==
  /\ GoRound(TRUE)
  /\ life.st = "failed" /\ life.retry = "passed"
  /\ UNCHANGED <<life, poolReady, queued, workPending, wakes, chan, slots, watch, arrivals,
                 panics>>

\* The retry-deadline sleep arm.
RetryArm ==
  /\ GoRound(TRUE)
  /\ workPending /\ life.st = "failed" /\ life.retry = "passed"
  /\ UNCHANGED <<life, poolReady, queued, workPending, wakes, chan, slots, watch, arrivals,
                 panics>>

\* Seeded fault: the failed task is joined and the lifecycle is left waking.
WakeTaskFailedIgnored(a) ==
  /\ GoRound(FALSE)
  /\ wakes[a].st = "panicked"
  /\ wakes' = [wakes EXCEPT ![a] = NoWake]
  /\ UNCHANGED <<life, poolReady, queued, workPending, chan, slots, watch, arrivals, panics>>

\* The wake_tasks.join_next() arm: cancel_wake of whatever attempt is waking.
WakeTaskFailed(a) ==
  /\ GoRound(FALSE)
  /\ wakes[a].st = "panicked"
  /\ wakes' = [wakes EXCEPT ![a] = NoWake]
  /\ life' = CancelWake(life)
  /\ UNCHANGED <<poolReady, queued, workPending, chan, slots, watch, arrivals, panics>>

\* A prompt result or a panicked prompt task: the agent goes back to its slot, is respawned,
\* or its slot stays empty; its events may be requeued.  "All agents dead" ends the loop.
PromptResult(s) ==
  /\ pc = "select" /\ retried' = FALSE
  /\ poolReady /\ slots[s] = "returned"
  /\ \E to \in {"idle", "respawning", "none"}, n \in queued .. arrivals :
       LET sl == [slots EXCEPT ![s] = to]
       IN \/ /\ \E t \in Slots : sl[t] # "none"
             /\ pc' = "top" /\ watch' = watch
             /\ Dispatch(n, sl)
          \/ /\ \A t \in Slots : sl[t] = "none"
             /\ pc' = "wakes" /\ watch' = TRUE
             /\ slots' = sl /\ queued' = n
  /\ UNCHANGED <<life, poolReady, workPending, wakes, chan, arrivals, panics>>

\* The other arms: a heartbeat or a steer answer that dispatches queued work, a heartbeat
\* turn on an idle agent, and ticks that change nothing here.
OtherArm ==
  /\ GoRound(FALSE)
  /\ \/ poolReady /\ Dispatch(queued, slots)
     \/ /\ poolReady /\ UNCHANGED queued
        /\ \E s \in Slots : slots[s] = "idle" /\ slots' = [slots EXCEPT ![s] = "out"]
     \/ UNCHANGED <<slots, queued>>
  /\ UNCHANGED <<life, poolReady, workPending, wakes, chan, watch, arrivals, panics>>

\* Seeded fault: the shutdown watch has no arm, the loop is left for other reasons only.
LeaveLoopUnwatched ==
  /\ pc = "select" /\ pc' = "wakes" /\ ~watch
  /\ watch' = TRUE
  /\ UNCHANGED <<life, poolReady, queued, workPending, retried, wakes, chan, slots, arrivals,
                 panics>>

\* The shutdown arm, or the relay's task is gone.  The watch is fired after the loop in
\* any case.
LeaveLoop ==
  /\ pc = "select" /\ pc' = "wakes"
  /\ watch' = TRUE
  /\ UNCHANGED <<life, poolReady, queued, workPending, retried, wakes, chan, slots, arrivals,
                 panics>>

-----------------------------------------------------------------------------
(* After the loop *)

\* Seeded fault: results that arrived during the drain are left in the channel.
WakesDrainedOnly ==
  /\ pc = "wakes" /\ pc' = "prompts"
  /\ \A a \in Attempts : ~Active(a)
  /\ UNCHANGED <<life, poolReady, queued, workPending, retried, wakes, chan, slots, watch,
                 arrivals, panics>>

\* All wake tasks have ended; pools still in the channel are shut down.
WakesDrained ==
  /\ pc = "wakes" /\ pc' = "prompts"
  /\ \A a \in Attempts : ~Active(a)
  /\ chan' = NoResult
  /\ UNCHANGED <<life, poolReady, queued, workPending, retried, wakes, slots, watch, arrivals,
                 panics>>

\* The grace period ends first: the tasks are aborted.
WakesAborted ==
  /\ pc = "wakes" /\ pc' = "prompts"
  /\ \E a \in Attempts : Active(a)
  /\ wakes' = [a \in Attempts |-> NoWake]
  /\ chan' = NoResult
  /\ UNCHANGED <<life, poolReady, queued, workPending, retried, slots, watch, arrivals, panics>>

\* The drain of in-flight prompts: a returned agent is shut down.
ReapResult(s) ==
  /\ pc = "prompts" /\ slots[s] = "returned"
  /\ slots' = [slots EXCEPT ![s] = "none"]
  /\ UNCHANGED <<pc, life, poolReady, queued, workPending, retried, wakes, chan, watch, arrivals,
                 panics>>

\* No prompt task is left, or the grace period ends and they are aborted; late results
\* and idle agents are shut down.
PromptsDrained ==
  /\ pc = "prompts" /\ pc' = "respawns"
  /\ slots' = [s \in Slots |-> IF slots[s] \in {"respawning", "respawned"} THEN slots[s] ELSE "none"]
  /\ UNCHANGED <<life, poolReady, queued, workPending, retried, wakes, chan, watch, arrivals,
                 panics>>

\* respawn_tasks.shutdown()
RespawnsAborted ==
  /\ pc = "respawns" /\ pc' = "results"
  /\ slots' = [s \in Slots |-> IF slots[s] = "respawning" THEN "none" ELSE slots[s]]
  /\ UNCHANGED <<life, poolReady, queued, workPending, retried, wakes, chan, watch, arrivals,
                 panics>>

\* Agents whose respawn completed before the abort are shut down.
RespawnResultsDrained ==
  /\ pc = "results" /\ pc' = "stopped"
  /\ slots' = [s \in Slots |-> IF slots[s] = "respawned" THEN "none" ELSE slots[s]]
  /\ UNCHANGED <<life, poolReady, queued, workPending, retried, wakes, chan, watch, arrivals,
                 panics>>

-----------------------------------------------------------------------------
(* Tasks and time *)

LoopVars == <<pc, life, poolReady, queued, workPending, retried, watch, arrivals>>

SetWake(a, w) == wakes' = [wakes EXCEPT ![a] = w]
NextSlot(w, held) == [st |-> "spawn", slot |-> w.slot + 1, held |-> held]

\* AcpClient::spawn of the next slot.
Spawn(a) ==
  /\ wakes[a].st = "spawn" /\ wakes[a].slot <= Agents
  /\ \/ SetWake(a, [wakes[a] EXCEPT !.st = "init"])
     \/ SetWake(a, NextSlot(wakes[a], wakes[a].held))
  /\ UNCHANGED <<chan, slots, panics, LoopVars>>

\* Its handshake succeeds, or fails or times out and the process is shut down.  The
\* select! prefers the shutdown watch.
Initialize(a, ok) ==
  /\ wakes[a].st = "init" /\ ~watch
  /\ SetWake(a, NextSlot(wakes[a], IF ok THEN wakes[a].held \cup {wakes[a].slot}
                                   ELSE wakes[a].held))
  /\ UNCHANGED <<chan, slots, panics, LoopVars>>

\* Shutdown during a handshake: this agent and the started ones are shut down.
CancelInitialize(a) ==
  /\ wakes[a].st = "init" /\ watch
  /\ SetWake(a, [st |-> "spawn", slot |-> Agents + 1, held |-> {}])
  /\ UNCHANGED <<chan, slots, panics, LoopVars>>

\* All slots were tried: the task sends its result and ends.
SendResult(a) ==
  /\ wakes[a].st = "spawn" /\ wakes[a].slot = Agents + 1 /\ chan = NoResult
  /\ chan' = [attempt |-> a, agents |-> wakes[a].held]
  /\ SetWake(a, NoWake)
  /\ UNCHANGED <<slots, panics, LoopVars>>

\* A panic drops the task's agents.
WakePanics(a) ==
  /\ Active(a) /\ panics < MaxPanics /\ panics' = panics + 1
  /\ SetWake(a, [NoWake EXCEPT !.st = "panicked"])
  /\ UNCHANGED <<chan, slots, LoopVars>>

WakeStep(a) ==
  \/ Spawn(a) \/ CancelInitialize(a) \/ SendResult(a) \/ WakePanics(a)
  \/ \E ok \in BOOLEAN : Initialize(a, ok)

\* A prompt task ends, and a respawn task ends with or without an agent.
SlotStep(s) ==
  /\ pc # "stopped"
  /\ \/ slots[s] = "out" /\ slots' = [slots EXCEPT ![s] = "returned"]
     \/ slots[s] = "respawning" /\ \E to \in {"respawned", "none"} : slots' = [slots EXCEPT ![s] = to]
  /\ UNCHANGED <<wakes, chan, panics, LoopVars>>

RetryElapses ==
  /\ InLoop /\ life.retry = "armed"
  /\ life' = [life EXCEPT !.retry = "passed"]
  /\ UNCHANGED <<pc, poolReady, queued, workPending, retried, wakes, chan, slots, watch,
                 arrivals, panics>>

\* A signal, or the owner's !shutdown.
ShutdownSignal ==
  /\ InLoop /\ ~watch /\ watch' = TRUE
  /\ UNCHANGED <<pc, life, poolReady, queued, workPending, retried, wakes, chan, slots,
                 arrivals, panics>>

Loop ==
  \/ Top \/ RelayEvent \/ ChannelRemoved \/ WakeResult \/ RetryArm \/ OtherArm \/ LeaveLoop
  \/ \E a \in Attempts : WakeTaskFailed(a)
  \/ \E s \in Slots : PromptResult(s)

Exit ==
  \/ WakesDrained \/ WakesAborted \/ PromptsDrained \/ RespawnsAborted \/ RespawnResultsDrained
  \/ \E s \in Slots : ReapResult(s)

Next ==
  \/ Loop \/ Exit \/ RetryElapses \/ ShutdownSignal
  \/ \E a \in Attempts : WakeStep(a)
  \/ \E s \in Slots : SlotStep(s)

Spec == Init /\ [][Next]_vars

\* The loop runs, a ready arm is eventually taken, spawns and handshakes end (60 s), the
\* shutdown arm is taken once the watch fired; and a pool that is woken again and again
\* eventually gets an agent.
Fairness ==
  /\ WF_vars(Top) /\ WF_vars(Exit) /\ WF_vars(RetryElapses)
  /\ SF_vars(WakeResult) /\ SF_vars(RetryArm) /\ SF_vars(watch /\ LeaveLoop)
  /\ \A a \in Attempts :
       /\ WF_vars(Spawn(a) \/ SendResult(a) \/ CancelInitialize(a) \/ \E ok \in BOOLEAN : Initialize(a, ok))
       /\ SF_vars(Spawn(a) /\ wakes'[a].st = "init") /\ SF_vars(Initialize(a, TRUE))
       /\ SF_vars(WakeTaskFailed(a))

FairSpec == Spec /\ Fairness

-----------------------------------------------------------------------------
(* Properties *)

\* At most one wake is starting agents, and it is the one the lifecycle waits for.
OneWake ==
  \A a \in Attempts : wakes[a].st # "none" =>
    /\ life.st = "waking" /\ life.attempt = a
    /\ ~poolReady /\ chan = NoResult
    /\ \A b \in Attempts : wakes[b].st # "none" => b = a

\* A result in the channel belongs to the attempt the lifecycle waits for: the branch that
\* discards a stale result, and drops its agents without shutting them down, is never taken.
NoStaleResult ==
  chan # NoResult => life.st = "waking" /\ life.attempt = chan.attempt /\ ~poolReady

\* When the harness has stopped no agent is left behind: not in the channel, not with a
\* wake task, not in the pool, not with a respawn.  (Tasks that panicked or were aborted
\* have dropped theirs, which AcpClient's Drop kills as best it can.)
StoppedMeansReaped ==
  pc = "stopped" =>
    /\ chan.agents = {}
    /\ \A a \in Attempts : ~Active(a) /\ wakes[a].held = {}
    /\ \A s \in Slots : slots[s] = "none"

\* No busy spin: when the retry deadline ended a select!, the next iteration starts a wake
\* instead of waiting on the same past deadline again.
RetryStartsWake == pc = "select" /\ retried => life.st # "failed"

\* Work that waits for the pool gets it, unless the work is drained or the harness exits.
WorkWakesPool ==
  queued > 0 /\ ~poolReady ~> (poolReady \/ queued = 0 \/ ~InLoop)

\* Once shutdown is signalled the harness stops.
ShutdownCompletes == watch ~> pc = "stopped"
=============================================================================
