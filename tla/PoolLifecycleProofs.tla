------------------------ MODULE PoolLifecycleProofs ------------------------
(***************************************************************************)
(* Proofs about the lazily started pool: one wake at a time, no stale      *)
(* result, no spinning on a past retry deadline, and an exit that leaves   *)
(* no agent behind.                                                        *)
(***************************************************************************)
EXTENDS PoolLifecycle, TLAPS

Where == {"none", "idle", "out", "returned", "respawning", "respawned"}

\* dispatch_pending takes no more events than there are, and only moves idle agents out.
LEMMA DispatchType ==
  ASSUME NEW n \in Nat, NEW sl \in [Slots -> Where], Dispatch(n, sl)
  PROVE  /\ queued' \in 0 .. n
         /\ slots' \in [Slots -> Where]
<1>1. PICK S \in SUBSET {s \in Slots : sl[s] = "idle"}, left \in 0 .. n :
        /\ slots' = [s \in Slots |-> IF s \in S THEN "out" ELSE sl[s]]
        /\ queued' = left
  BY DEF Dispatch
<1>2. slots' \in [Slots -> Where]
  BY <1>1 DEF Where
<1> QED
  BY <1>1, <1>2

\* The states and tasks the lifecycle moves through have their types.
LEMMA LifeType ==
  /\ Listening \in Life
  /\ \A a \in 0 .. MaxAttempt : Waking(a) \in Life /\ Failed(a) \in Life
  /\ NoWake \in WakeTask /\ NewWake \in WakeTask
  /\ Attempts \subseteq 0 .. MaxAttempt
  /\ NoResult \notin Result
  BY PoolAssumption DEF Listening, Waking, Failed, Life, NoWake, NewWake, WakeTask, Attempts,
                        NoResult, Result

\* A started wake has an attempt number in range.
LEMMA NextAttemptType ==
  ASSUME NEW l \in Life
  PROVE  NextAttempt(l) \in Attempts
  BY PoolAssumption DEF NextAttempt, Attempts, Life

\* The switches are Booleans ...
FlagsOK ==
  /\ poolReady \in BOOLEAN /\ workPending \in BOOLEAN
  /\ retried \in BOOLEAN /\ watch \in BOOLEAN

\* ... and the rest of the state has its type; besides, the queue holds no more than
\* arrived, and a handshake is under way only for an existing slot.
TypeInv ==
  /\ pc \in {"top", "select", "wakes", "prompts", "respawns", "results", "stopped"}
  /\ life \in Life
  /\ queued \in 0 .. MaxEvents /\ arrivals \in 0 .. MaxEvents /\ panics \in 0 .. MaxPanics
  /\ wakes \in [Attempts -> WakeTask]
  /\ chan \in Result \cup {NoResult}
  /\ slots \in [Slots -> Where]
  /\ queued <= arrivals
  /\ \A a \in Attempts : wakes[a].st = "init" => wakes[a].slot <= Agents

\* It holds initially.
LEMMA TypeInit == Init => TypeInv
  BY PoolAssumption, LifeType
  DEF Init, TypeInv, NoWake, NoResult, Result, Attempts, WakeTask, Slots, Where

\* The top of the loop preserves it.
LEMMA TypeTop == TypeInv /\ Top => TypeInv'
<1> SUFFICES ASSUME TypeInv, Top PROVE TypeInv'
  OBVIOUS
<1> USE PoolAssumption
<1>1. life' \in Life /\ wakes' \in [Attempts -> WakeTask]
  BY LifeType, NextAttemptType DEF Top, TypeInv
<1>2. \A a \in Attempts : wakes'[a].st = "init" => wakes'[a].slot <= Agents
  BY NextAttemptType DEF Top, TypeInv, NewWake
<1>3. queued' \in 0 .. queued /\ slots' \in [Slots -> Where]
  <2>1. queued \in Nat /\ slots \in [Slots -> Where]
    BY DEF TypeInv, Where
  <2>2. CASE poolReady
    <3>1. PICK R : Dispatch(queued, Refreshed(R))
      BY <2>2 DEF Top
    <3>2. Refreshed(R) \in [Slots -> Where]
      BY <2>1 DEF Refreshed, Where
    <3> QED
      BY <3>1, <3>2, <2>1, DispatchType
  <2>3. CASE ~poolReady
    BY <2>1, <2>3 DEF Top
  <2> QED
    BY <2>2, <2>3
<1> QED
  BY <1>1, <1>2, <1>3 DEF Top, TypeInv, Where

\* The arms of select! preserve it.
LEMMA TypeArms ==
  ASSUME TypeInv,
         \/ RelayEvent \/ ChannelRemoved \/ WakeResult \/ RetryArm \/ OtherArm \/ LeaveLoop
         \/ \E a \in Attempts : WakeTaskFailed(a)
         \/ \E s \in Slots : PromptResult(s)
  PROVE  TypeInv'
<1> USE PoolAssumption
<1>0. queued \in Nat /\ slots \in [Slots -> Where]
  BY DEF TypeInv, Where
<1>1. CASE RelayEvent
  <2>1. queued' \in 0 .. queued + 1 /\ slots' \in [Slots -> Where]
    <3>1. CASE poolReady
      BY <1>0, <1>1, <3>1, DispatchType DEF RelayEvent
    <3>2. CASE ~poolReady
      BY <1>0, <1>1, <3>2 DEF RelayEvent
    <3> QED
      BY <3>1, <3>2
  <2> QED
    BY <1>1, <2>1 DEF RelayEvent, GoRound, TypeInv, Where
<1>2. CASE ChannelRemoved
  BY <1>2 DEF ChannelRemoved, GoRound, TypeInv
<1>3. CASE WakeResult
  <2>1. queued' \in 0 .. queued /\ slots' \in [Slots -> Where]
    <3> DEFINE sl == [s \in Slots |-> IF s \in chan.agents THEN "idle" ELSE "none"]
    <3>1. CASE Accepts(life, chan.attempt) /\ chan.agents # {}
      <4>1. sl \in [Slots -> Where] /\ Dispatch(queued, sl)
        BY <1>3, <3>1 DEF WakeResult, Where
      <4> QED
        BY <4>1, <1>0, DispatchType
    <3>2. CASE ~(Accepts(life, chan.attempt) /\ chan.agents # {})
      BY <1>0, <1>3, <3>2 DEF WakeResult
    <3> QED
      BY <3>1, <3>2
  <2>2. life' \in Life
    <3>1. chan.attempt \in 0 .. MaxAttempt
      BY <1>3, LifeType DEF WakeResult, TypeInv, Result
    <3>2. life' \in {Listening, Failed(chan.attempt), life}
      BY <1>3 DEF WakeResult
    <3> QED
      BY <3>1, <3>2, LifeType DEF TypeInv
  <2> QED
    BY <1>3, <2>1, <2>2 DEF WakeResult, GoRound, TypeInv, Where
<1>4. CASE RetryArm \/ OtherArm \/ LeaveLoop
  <2>1. CASE RetryArm \/ LeaveLoop
    BY <2>1 DEF RetryArm, LeaveLoop, GoRound, TypeInv
  <2>2. CASE OtherArm
    <3>1. queued' \in 0 .. queued /\ slots' \in [Slots -> Where]
      <4>1. CASE Dispatch(queued, slots)
        BY <1>0, <4>1, DispatchType
      <4>2. CASE /\ UNCHANGED queued
                 /\ \E s \in Slots : slots' = [slots EXCEPT ![s] = "out"]
        BY <1>0, <4>2 DEF Where
      <4>3. CASE UNCHANGED <<slots, queued>>
        BY <1>0, <4>3
      <4> QED
        BY <2>2, <4>1, <4>2, <4>3 DEF OtherArm
    <3> QED
      BY <2>2, <3>1 DEF OtherArm, GoRound, TypeInv, Where
  <2> QED
    BY <1>4, <2>1, <2>2
<1>5. ASSUME NEW a \in Attempts, WakeTaskFailed(a) PROVE TypeInv'
  <2>1. life' \in Life
    BY <1>5, LifeType DEF WakeTaskFailed, CancelWake, TypeInv, Life
  <2>2. wakes' \in [Attempts -> WakeTask]
    BY <1>5, LifeType DEF WakeTaskFailed, TypeInv
  <2>3. \A b \in Attempts : wakes'[b].st = "init" => wakes'[b].slot <= Agents
    BY <1>5 DEF WakeTaskFailed, TypeInv, NoWake
  <2> QED
    BY <1>5, <2>1, <2>2, <2>3 DEF WakeTaskFailed, GoRound, TypeInv
<1>6. ASSUME NEW s \in Slots, PromptResult(s) PROVE TypeInv'
  <2>1. PICK to \in {"idle", "respawning", "none"}, n \in queued .. arrivals :
          \/ Dispatch(n, [slots EXCEPT ![s] = to])
          \/ slots' = [slots EXCEPT ![s] = to] /\ queued' = n
    BY <1>6 DEF PromptResult
  <2>2. [slots EXCEPT ![s] = to] \in [Slots -> Where]
    BY <1>0 DEF Where
  <2>3. n \in 0 .. arrivals
    BY DEF TypeInv
  <2>4. queued' \in 0 .. n /\ slots' \in [Slots -> Where]
    <3>1. n \in Nat /\ n \in 0 .. n
      BY <2>3 DEF TypeInv
    <3> QED
      BY <2>1, <2>2, <3>1, DispatchType
  <2>5. pc' \in {"top", "wakes"}
    BY <1>6 DEF PromptResult
  <2> QED
    BY <1>6, <2>3, <2>4, <2>5 DEF PromptResult, TypeInv, Where
<1> QED
  BY <1>1, <1>2, <1>3, <1>4, <1>5, <1>6

\* The exit, the slots' tasks and the clock preserve it.
LEMMA TypeExit ==
  ASSUME TypeInv, Exit \/ RetryElapses \/ ShutdownSignal \/ \E s \in Slots : SlotStep(s)
  PROVE  TypeInv'
<1>1. CASE WakesDrained \/ WakesAborted
  <2>1. CASE WakesDrained
    BY <2>1 DEF WakesDrained, TypeInv
  <2>2. CASE WakesAborted
    <3>1. wakes' \in [Attempts -> WakeTask]
      BY <2>2, LifeType DEF WakesAborted
    <3>2. \A a \in Attempts : wakes'[a].st = "init" => wakes'[a].slot <= Agents
      BY <2>2 DEF WakesAborted, NoWake
    <3> QED
      BY <2>2, <3>1, <3>2 DEF WakesAborted, TypeInv
  <2> QED
    BY <1>1, <2>1, <2>2
<1>2. CASE PromptsDrained \/ RespawnsAborted \/ RespawnResultsDrained
  BY <1>2 DEF PromptsDrained, RespawnsAborted, RespawnResultsDrained, TypeInv, Where
<1>3. ASSUME NEW s \in Slots, ReapResult(s) PROVE TypeInv'
  BY <1>3 DEF ReapResult, TypeInv, Where
<1>4. ASSUME NEW s \in Slots, SlotStep(s) PROVE TypeInv'
  BY <1>4 DEF SlotStep, LoopVars, TypeInv, Where
<1>5. CASE RetryElapses
  BY <1>5 DEF RetryElapses, TypeInv, Life
<1>6. CASE ShutdownSignal
  BY <1>6 DEF ShutdownSignal, TypeInv
<1> QED
  BY <1>1, <1>2, <1>3, <1>4, <1>5, <1>6 DEF Exit

\* A wake task that starts agents preserves it.
LEMMA TypeWake ==
  ASSUME TypeInv, NEW a \in Attempts, WakeStep(a)
  PROVE  TypeInv'
<1> USE PoolAssumption
<1>0. wakes[a] \in WakeTask
  BY DEF TypeInv
<1>1. \/ /\ \E w \in WakeTask : wakes' = [wakes EXCEPT ![a] = w]
                              /\ (w.st = "init" => w.slot <= Agents)
         /\ UNCHANGED <<chan, slots, LoopVars>>
         /\ panics' \in 0 .. MaxPanics
      \/ SendResult(a)
  <2>1. CASE Spawn(a)
    <3>1. CASE wakes' = [wakes EXCEPT ![a] = [wakes[a] EXCEPT !.st = "init"]]
      <4>1. [wakes[a] EXCEPT !.st = "init"] \in WakeTask
        BY <1>0 DEF WakeTask
      <4> QED
        BY <1>0, <2>1, <3>1, <4>1 DEF Spawn, WakeTask, TypeInv
    <3>2. CASE wakes' = [wakes EXCEPT ![a] = NextSlot(wakes[a], wakes[a].held)]
      <4>1. NextSlot(wakes[a], wakes[a].held) \in WakeTask
        BY <1>0, <2>1 DEF Spawn, WakeTask, NextSlot
      <4> QED
        BY <2>1, <3>2, <4>1 DEF Spawn, NextSlot, TypeInv
    <3> QED
      BY <2>1, <3>1, <3>2 DEF Spawn, SetWake
  <2>2. ASSUME NEW ok \in BOOLEAN, Initialize(a, ok)
        PROVE  /\ \E w \in WakeTask : wakes' = [wakes EXCEPT ![a] = w]
                                  /\ (w.st = "init" => w.slot <= Agents)
               /\ UNCHANGED <<chan, slots, LoopVars>>
               /\ panics' \in 0 .. MaxPanics
    <3> DEFINE h == IF ok THEN wakes[a].held \cup {wakes[a].slot} ELSE wakes[a].held
    <3>1. wakes[a].slot \in 1 .. Agents
      BY <1>0, <2>2 DEF Initialize, TypeInv, WakeTask
    <3>2. h \in SUBSET Slots
      BY <1>0, <3>1 DEF WakeTask, Slots
    <3>3. NextSlot(wakes[a], h) \in WakeTask
      BY <1>0, <3>1, <3>2 DEF WakeTask, NextSlot
    <3>4. wakes' = [wakes EXCEPT ![a] = NextSlot(wakes[a], h)]
      BY <2>2 DEF Initialize, SetWake
    <3>5. NextSlot(wakes[a], h).st = "spawn"
      BY DEF NextSlot
    <3>6. UNCHANGED <<chan, slots, LoopVars>> /\ panics' \in 0 .. MaxPanics
      BY <2>2 DEF Initialize, TypeInv
    <3> QED
      BY <3>3, <3>4, <3>5, <3>6
  <2>3. CASE CancelInitialize(a)
    <3> DEFINE w == [st |-> "spawn", slot |-> Agents + 1, held |-> {}]
    <3>1. w \in WakeTask
      BY DEF WakeTask
    <3> QED
      BY <2>3, <3>1 DEF CancelInitialize, SetWake, TypeInv
  <2>4. CASE WakePanics(a)
    <3> DEFINE w == [NoWake EXCEPT !.st = "panicked"]
    <3>1. w \in WakeTask /\ w.st = "panicked"
      BY DEF WakeTask, NoWake
    <3>2. panics' \in 0 .. MaxPanics
      BY <2>4 DEF WakePanics, TypeInv
    <3> QED
      BY <2>4, <3>1, <3>2 DEF WakePanics, SetWake
  <2> QED
    BY <2>1, <2>2, <2>3, <2>4 DEF WakeStep
<1>2. CASE SendResult(a)
  <2>1. chan' \in Result
    BY <1>0, <1>2 DEF SendResult, Result, WakeTask
  <2>2. wakes' = [wakes EXCEPT ![a] = NoWake]
    BY <1>2 DEF SendResult, SetWake
  <2> QED
    BY <1>2, <2>1, <2>2, LifeType DEF SendResult, LoopVars, TypeInv, NoWake
<1>3. ASSUME NEW w \in WakeTask, wakes' = [wakes EXCEPT ![a] = w],
             w.st = "init" => w.slot <= Agents,
             UNCHANGED <<chan, slots, LoopVars>>, panics' \in 0 .. MaxPanics
      PROVE  TypeInv'
  BY <1>3 DEF LoopVars, TypeInv
<1> QED
  BY <1>1, <1>2, <1>3

\* The strengthened type is inductive.
LEMMA TypeNext == TypeInv /\ [Next]_vars => TypeInv'
<1> SUFFICES ASSUME TypeInv, [Next]_vars PROVE TypeInv'
  OBVIOUS
<1>1. CASE UNCHANGED vars
  BY <1>1 DEF vars, TypeInv
<1>2. CASE Next
  BY <1>2, TypeTop, TypeArms, TypeExit, TypeWake DEF Next, Loop
<1> QED
  BY <1>1, <1>2

\* The switches stay Booleans.
LEMMA FlagsNext == FlagsOK /\ [Next]_vars => FlagsOK'
<1> SUFFICES ASSUME FlagsOK, [Next]_vars PROVE FlagsOK'
  OBVIOUS
<1>1. CASE UNCHANGED vars
  BY <1>1 DEF vars, FlagsOK
<1>2. CASE Top
  BY <1>2 DEF Top, FlagsOK
<1>3. CASE RelayEvent \/ ChannelRemoved \/ RetryArm \/ OtherArm \/ LeaveLoop
  BY <1>3 DEF RelayEvent, ChannelRemoved, RetryArm, OtherArm, LeaveLoop, GoRound, FlagsOK
<1>4. CASE WakeResult
  BY <1>4 DEF WakeResult, GoRound, FlagsOK
<1>5. CASE \E a \in Attempts : WakeTaskFailed(a)
  BY <1>5 DEF WakeTaskFailed, GoRound, FlagsOK
<1>6. CASE \E s \in Slots : PromptResult(s) \/ ReapResult(s) \/ SlotStep(s)
  BY <1>6 DEF PromptResult, ReapResult, SlotStep, LoopVars, GoRound, FlagsOK
<1>7. CASE \/ WakesDrained \/ WakesAborted \/ PromptsDrained \/ RespawnsAborted
           \/ RespawnResultsDrained \/ RetryElapses \/ ShutdownSignal
  BY <1>7 DEF WakesDrained, WakesAborted, PromptsDrained, RespawnsAborted,
              RespawnResultsDrained, RetryElapses, ShutdownSignal, FlagsOK
<1>8. CASE \E a \in Attempts : WakeStep(a)
  BY <1>8 DEF WakeStep, Spawn, Initialize, CancelInitialize, SendResult, WakePanics, LoopVars,
              FlagsOK
<1> QED
  BY <1>1, <1>2, <1>3, <1>4, <1>5, <1>6, <1>7, <1>8 DEF Next, Loop, Exit

\* The state of the lazy pool keeps its type: the attempt counter saturates, no slot beyond
\* the pool is started and dispatch never takes more events than are queued.
THEOREM LazyTypeCorrect == Spec => []TypeOK
<1>1. FlagsOK /\ TypeInv => TypeOK
  BY DEF FlagsOK, TypeInv, TypeOK, Where
<1>2. Init => FlagsOK
  BY DEF Init, FlagsOK
<1> QED
  BY <1>1, <1>2, TypeInit, TypeNext, FlagsNext, PTL DEF Spec

-----------------------------------------------------------------------------
(* Wakes *)

WakeInv == OneWake /\ NoStaleResult

\* Steps that touch neither the lifecycle nor the wakes.
WakesKept == UNCHANGED <<life, wakes, chan, poolReady>>

\* Such a step preserves the wake invariant.
LEMMA WakeQuiet == WakeInv /\ WakesKept => WakeInv'
  BY DEF WakeInv, WakesKept, OneWake, NoStaleResult

\* A wake is started only when none is under way and no result is unread.
LEMMA WakeTop == TypeInv /\ WakeInv /\ Top => WakeInv'
<1> SUFFICES ASSUME TypeInv, WakeInv, Top PROVE WakeInv'
  OBVIOUS
<1> DEFINE n == NextAttempt(life)
<1>1. CASE UNCHANGED <<life, wakes>>
  BY <1>1, WakeQuiet DEF Top, WakesKept
<1>2. CASE /\ workPending' /\ WakeDue(life)
           /\ life' = Waking(n)
           /\ wakes' = [wakes EXCEPT ![n] = NewWake]
  <2>1. life.st # "waking" /\ ~poolReady
    BY <1>2 DEF WakeDue, Top
  <2>2. chan = NoResult /\ \A a \in Attempts : wakes[a].st = "none"
    BY <2>1 DEF WakeInv, OneWake, NoStaleResult
  <2>3. n \in Attempts
    BY NextAttemptType DEF TypeInv
  <2>4. \A a \in Attempts : wakes'[a].st # "none" => a = n
    BY <1>2, <2>2, <2>3 DEF TypeInv
  <2> QED
    BY <1>2, <2>1, <2>2, <2>3, <2>4 DEF Top, Waking, WakeInv, OneWake, NoStaleResult
<1> QED
  BY <1>1, <1>2 DEF Top

\* The arms that read a result or join a failed task leave the lifecycle without a wake.
LEMMA WakeArms ==
  ASSUME TypeInv, WakeInv, WakeResult \/ \E a \in Attempts : WakeTaskFailed(a)
  PROVE  WakeInv'
<1>1. CASE WakeResult
  <2>1. \A a \in Attempts : wakes[a].st = "none"
    BY <1>1 DEF WakeResult, WakeInv, OneWake
  <2> QED
    BY <1>1, <2>1 DEF WakeResult, WakeInv, OneWake, NoStaleResult
<1>2. ASSUME NEW a \in Attempts, WakeTaskFailed(a) PROVE WakeInv'
  <2>1. chan = NoResult /\ \A b \in Attempts : wakes[b].st # "none" => b = a
    BY <1>2 DEF WakeTaskFailed, WakeInv, OneWake
  <2>2. \A b \in Attempts : wakes'[b].st = "none"
    BY <1>2, <2>1 DEF WakeTaskFailed, TypeInv, NoWake
  <2> QED
    BY <1>2, <2>1, <2>2 DEF WakeTaskFailed, WakeInv, OneWake, NoStaleResult
<1> QED
  BY <1>1, <1>2

\* A wake task belongs to the attempt until it has sent its result.
LEMMA WakeTaskSteps ==
  ASSUME TypeInv, WakeInv, NEW a \in Attempts, WakeStep(a)
  PROVE  WakeInv'
<1>1. wakes[a].st # "none" /\ UNCHANGED <<life, poolReady>>
  BY DEF WakeStep, Spawn, Initialize, CancelInitialize, SendResult, WakePanics, Active, LoopVars
<1>2. \A b \in Attempts : wakes[b].st # "none" => b = a
  BY <1>1 DEF WakeInv, OneWake
<1>3. life.st = "waking" /\ life.attempt = a /\ ~poolReady /\ chan = NoResult
  BY <1>1 DEF WakeInv, OneWake
<1>4. \A b \in Attempts : b # a => wakes'[b] = wakes[b]
  BY DEF WakeStep, Spawn, Initialize, CancelInitialize, SendResult, WakePanics, SetWake, TypeInv
<1>5. CASE SendResult(a)
  <2>1. wakes'[a].st = "none"
    BY <1>5 DEF SendResult, SetWake, NoWake, TypeInv
  <2>2. chan'.attempt = a
    BY <1>5 DEF SendResult
  <2>3. \A b \in Attempts : wakes'[b].st = "none"
    BY <1>2, <1>4, <2>1
  <2> QED
    BY <1>1, <1>3, <2>2, <2>3 DEF WakeInv, OneWake, NoStaleResult
<1>6. CASE UNCHANGED chan
  <2>1. \A b \in Attempts : wakes'[b].st # "none" => b = a
    BY <1>2, <1>4
  <2> QED
    BY <1>1, <1>3, <1>6, <2>1 DEF WakeInv, OneWake, NoStaleResult
<1> QED
  BY <1>5, <1>6 DEF WakeStep, Spawn, Initialize, CancelInitialize, WakePanics

\* The exit empties the channel and keeps or aborts the tasks; time does not matter.
LEMMA WakeOthers ==
  ASSUME TypeInv, WakeInv,
         \/ RelayEvent \/ ChannelRemoved \/ RetryArm \/ OtherArm \/ LeaveLoop
         \/ \E s \in Slots : PromptResult(s) \/ ReapResult(s) \/ SlotStep(s)
         \/ WakesDrained \/ WakesAborted \/ PromptsDrained \/ RespawnsAborted
         \/ RespawnResultsDrained \/ RetryElapses \/ ShutdownSignal
         \/ UNCHANGED vars
  PROVE  WakeInv'
<1>1. CASE \/ RelayEvent \/ ChannelRemoved \/ RetryArm \/ OtherArm \/ LeaveLoop
           \/ PromptsDrained \/ RespawnsAborted
           \/ RespawnResultsDrained \/ ShutdownSignal \/ UNCHANGED vars
  <2>1. WakesKept
    BY <1>1 DEF RelayEvent, ChannelRemoved, RetryArm, OtherArm, LeaveLoop,
       PromptsDrained, RespawnsAborted, RespawnResultsDrained, ShutdownSignal, vars, WakesKept
  <2> QED
    BY <2>1, WakeQuiet
<1>2. CASE \E s \in Slots : PromptResult(s) \/ ReapResult(s) \/ SlotStep(s)
  <2>1. WakesKept
    BY <1>2 DEF PromptResult, ReapResult, SlotStep, LoopVars, WakesKept
  <2> QED
    BY <2>1, WakeQuiet
<1>3. CASE WakesDrained
  BY <1>3 DEF WakesDrained, WakeInv, OneWake, NoStaleResult
<1>4. CASE WakesAborted
  BY <1>4 DEF WakesAborted, NoWake, WakeInv, OneWake, NoStaleResult
<1>5. CASE RetryElapses
  <2>1. life'.st = life.st /\ life'.attempt = life.attempt
    BY <1>5 DEF RetryElapses, TypeInv, Life
  <2> QED
    BY <1>5, <2>1 DEF RetryElapses, WakeInv, OneWake, NoStaleResult
<1> QED
  BY <1>1, <1>2, <1>3, <1>4, <1>5

\* The wake invariant is inductive relative to the types.
LEMMA WakeNext == TypeInv /\ WakeInv /\ [Next]_vars => WakeInv'
  BY WakeTop, WakeArms, WakeTaskSteps, WakeOthers DEF Next, Loop, Exit

\* Initially nothing is under way.
LEMMA WakeInit == Init => WakeInv
  BY DEF Init, NoWake, WakeInv, OneWake, NoStaleResult

\* start_wake_if_due starts one pool initialisation at a time, for every pool size and
\* however attempts fail, panic and saturate.
THEOREM SingleWake == Spec => []OneWake
<1>1. WakeInv => OneWake
  BY DEF WakeInv
<1> QED
  BY <1>1, TypeInit, TypeNext, WakeInit, WakeNext, PTL DEF Spec

\* complete_wake never rejects a result, so no started pool is dropped without shutdown.
THEOREM ResultsMatch == Spec => []NoStaleResult
<1>1. WakeInv => NoStaleResult
  BY DEF WakeInv
<1> QED
  BY <1>1, TypeInit, TypeNext, WakeInit, WakeNext, PTL DEF Spec

-----------------------------------------------------------------------------
(* The exit *)

\* The phases of the exit, each with the ones that follow it.
AfterWakes    == {"prompts", "respawns", "results", "stopped"}
AfterPrompts  == {"respawns", "results", "stopped"}
AfterRespawns == {"results", "stopped"}

\* What a phase has cleaned up stays clean: a wake task without a job has no agents, after
\* the wake phase no wake is left to start or deliver any, after the prompt phase only
\* respawns have agents, and then only completed ones.
WakesClean == \A a \in Attempts : ~Active(a) => wakes[a].held = {}
WakesOver  == pc \in AfterWakes => chan = NoResult /\ \A a \in Attempts : ~Active(a)
SlotsClean ==
  \A s \in Slots :
    /\ pc \in AfterPrompts => slots[s] \in {"none", "respawning", "respawned"}
    /\ pc \in AfterRespawns => slots[s] \in {"none", "respawned"}
    /\ pc = "stopped" => slots[s] = "none"

ExitInv == WakesClean /\ WakesOver /\ SlotsClean

\* The loop is not past any phase, so it only has to keep the wake tasks clean.
LEMMA ExitLoop ==
  ASSUME TypeInv, ExitInv, Loop
  PROVE  ExitInv'
<1>1. pc' \in {"top", "select", "wakes"}
  BY DEF Loop, Top, RelayEvent, ChannelRemoved, WakeResult, RetryArm, OtherArm, LeaveLoop,
         WakeTaskFailed, PromptResult, GoRound
<1>2. \/ UNCHANGED wakes
      \/ \E a \in Attempts, w \in {NoWake, NewWake} : wakes' = [wakes EXCEPT ![a] = w]
  <2>1. CASE Top
    BY <2>1, NextAttemptType DEF Top, TypeInv
  <2>2. CASE \E a \in Attempts : WakeTaskFailed(a)
    BY <2>2 DEF WakeTaskFailed
  <2>3. CASE \/ RelayEvent \/ ChannelRemoved \/ WakeResult \/ RetryArm \/ OtherArm \/ LeaveLoop
             \/ \E s \in Slots : PromptResult(s)
    BY <2>3 DEF RelayEvent, ChannelRemoved, WakeResult, RetryArm, OtherArm, LeaveLoop,
                PromptResult
  <2> QED
    BY <2>1, <2>2, <2>3 DEF Loop
<1>3. WakesClean'
  BY <1>2 DEF ExitInv, WakesClean, Active, TypeInv, NoWake, NewWake
<1> QED
  BY <1>1, <1>3 DEF ExitInv, WakesOver, SlotsClean, AfterWakes, AfterPrompts, AfterRespawns

\* Each phase of the exit establishes its part.
LEMMA ExitPhases ==
  ASSUME TypeInv, ExitInv, Exit
  PROVE  ExitInv'
<1> USE DEF AfterWakes, AfterPrompts, AfterRespawns
<1>1. WakesClean'
  <2>1. CASE WakesAborted
    BY <2>1 DEF WakesAborted, NoWake, WakesClean
  <2>2. CASE UNCHANGED wakes
    BY <2>2 DEF ExitInv, WakesClean, Active
  <2> QED
    BY <2>1, <2>2 DEF Exit, WakesDrained, PromptsDrained, RespawnsAborted,
                      RespawnResultsDrained, ReapResult
<1>2. WakesOver'
  <2>1. CASE WakesAborted
    BY <2>1 DEF WakesAborted, NoWake, WakesOver, Active
  <2>2. CASE WakesDrained
    BY <2>2 DEF WakesDrained, WakesOver, Active
  <2>3. CASE \/ PromptsDrained \/ RespawnsAborted \/ RespawnResultsDrained
             \/ \E s \in Slots : ReapResult(s)
    <3>1. pc \in AfterWakes /\ UNCHANGED <<wakes, chan>>
      BY <2>3 DEF PromptsDrained, RespawnsAborted, RespawnResultsDrained, ReapResult
    <3> QED
      BY <3>1 DEF ExitInv, WakesOver, Active
  <2> QED
    BY <2>1, <2>2, <2>3 DEF Exit
<1>3. SlotsClean'
  <2>1. CASE WakesDrained \/ WakesAborted
    BY <2>1 DEF WakesDrained, WakesAborted, SlotsClean
  <2>2. CASE PromptsDrained
    BY <2>2 DEF PromptsDrained, SlotsClean
  <2>3. CASE RespawnsAborted
    BY <2>3 DEF RespawnsAborted, SlotsClean, ExitInv
  <2>4. CASE RespawnResultsDrained
    BY <2>4 DEF RespawnResultsDrained, SlotsClean, ExitInv
  <2>5. CASE \E s \in Slots : ReapResult(s)
    BY <2>5 DEF ReapResult, SlotsClean
  <2> QED
    BY <2>1, <2>2, <2>3, <2>4, <2>5 DEF Exit
<1> QED
  BY <1>1, <1>2, <1>3 DEF ExitInv

\* A wake task gives up its agents when it ends.
LEMMA ExitWakes ==
  ASSUME TypeInv, ExitInv, NEW a \in Attempts, WakeStep(a)
  PROVE  ExitInv'
<1>1. Active(a) /\ UNCHANGED <<pc, slots>>
  BY DEF WakeStep, Spawn, Initialize, CancelInitialize, SendResult, WakePanics, Active, LoopVars
<1>2. pc \notin AfterWakes
  BY <1>1 DEF ExitInv, WakesOver
<1>3. WakesClean'
  <2>1. \A b \in Attempts : b # a => wakes'[b] = wakes[b]
    BY DEF WakeStep, Spawn, Initialize, CancelInitialize, SendResult, WakePanics, SetWake, TypeInv
  <2>2. wakes'[a].st \in {"spawn", "init"} \/ wakes'[a].held = {}
    <3>0. wakes[a] \in WakeTask
      BY DEF TypeInv
    <3>1. CASE Spawn(a)
      BY <3>0, <3>1 DEF Spawn, SetWake, NextSlot, TypeInv, WakeTask
    <3>2. CASE \E ok \in BOOLEAN : Initialize(a, ok)
      <4>1. PICK h : wakes' = [wakes EXCEPT ![a] = NextSlot(wakes[a], h)]
        BY <3>2 DEF Initialize, SetWake
      <4> QED
        BY <4>1 DEF NextSlot, TypeInv
    <3>3. CASE CancelInitialize(a) \/ SendResult(a) \/ WakePanics(a)
      BY <3>3 DEF CancelInitialize, SendResult, WakePanics, SetWake, NoWake, TypeInv
    <3> QED
      BY <3>1, <3>2, <3>3 DEF WakeStep
  <2> QED
    BY <2>1, <2>2 DEF ExitInv, WakesClean, Active
<1> QED
  BY <1>1, <1>2, <1>3
  DEF ExitInv, WakesOver, SlotsClean, AfterWakes, AfterPrompts, AfterRespawns

\* The tasks of the slots, the clock and the signal dirty no finished phase.
LEMMA ExitTasks ==
  ASSUME TypeInv, ExitInv,
         \/ RetryElapses \/ ShutdownSignal \/ UNCHANGED vars
         \/ \E s \in Slots : SlotStep(s)
  PROVE  ExitInv'
<1>1. UNCHANGED <<pc, wakes, chan>>
  BY DEF RetryElapses, ShutdownSignal, SlotStep, LoopVars, vars
<1>2. WakesClean' /\ WakesOver'
  BY <1>1 DEF ExitInv, WakesClean, WakesOver, Active
<1>3. SlotsClean'
  <2>1. CASE UNCHANGED slots
    BY <1>1, <2>1 DEF ExitInv, SlotsClean
  <2>2. CASE \E s \in Slots : SlotStep(s)
    BY <1>1, <2>2 DEF SlotStep, TypeInv, ExitInv, SlotsClean, AfterPrompts, AfterRespawns
  <2> QED
    BY <2>1, <2>2 DEF RetryElapses, ShutdownSignal, vars
<1> QED
  BY <1>2, <1>3 DEF ExitInv

\* The exit invariant is inductive relative to the types.
LEMMA ExitNext == TypeInv /\ ExitInv /\ [Next]_vars => ExitInv'
  BY ExitLoop, ExitPhases, ExitWakes, ExitTasks DEF Next

\* Initially nothing was started.
LEMMA ExitInit == Init => ExitInv
  BY DEF Init, NoWake, ExitInv, WakesClean, WakesOver, SlotsClean,
         AfterWakes, AfterPrompts, AfterRespawns

\* When the harness has stopped, every agent it started has been shut down or dropped:
\* the phases after the loop miss no place an agent can be in, for every pool size and
\* however wakes, prompts and respawns race with the exit.
THEOREM ExitReapsAgents == Spec => []StoppedMeansReaped
<1>1. ExitInv => StoppedMeansReaped
  BY DEF ExitInv, WakesClean, WakesOver, SlotsClean, StoppedMeansReaped, NoResult,
         AfterWakes, AfterPrompts, AfterRespawns
<1> QED
  BY <1>1, TypeInit, TypeNext, ExitInit, ExitNext, PTL DEF Spec

-----------------------------------------------------------------------------
(* The retry deadline *)

\* A pool that is not ready has no agents, so nothing consumes the queue ...
NoAgents   == ~poolReady => \A s \in Slots : slots[s] = "none"
\* ... the pending-work flag tells the truth while select! waits ...
FlagFresh  == pc = "select" /\ workPending => queued > 0 /\ ~poolReady
\* ... and after the retry arm a wake is still due at the top of the loop.
DueAtTop   == pc = "top" /\ retried =>
                life.st = "failed" /\ life.retry = "passed" /\ queued > 0 /\ ~poolReady

RetryInv == NoAgents /\ FlagFresh /\ DueAtTop /\ RetryStartsWake

\* At the top the due wake is started, and the queue is not touched before the pool is ready.
LEMMA RetryTop ==
  ASSUME TypeInv, RetryInv, Top
  PROVE  RetryInv'
<1>1. pc' = "select" /\ pc = "top" /\ (poolReady' <=> poolReady) /\ (retried' <=> retried)
  BY DEF Top
<1>2. CASE ~poolReady
  <2>2. UNCHANGED <<slots, queued>>
    BY <1>2 DEF Top
  <2>3. workPending' => queued > 0
    BY DEF Top
  <2>4. NoAgents' /\ FlagFresh' /\ DueAtTop'
    BY <1>1, <1>2, <2>2, <2>3 DEF RetryInv, NoAgents, FlagFresh, DueAtTop
  <2>5. ASSUME retried PROVE life'.st = "waking"
    <3>1. WakeDue(life) /\ queued > 0
      BY <1>1, <2>5 DEF RetryInv, DueAtTop, WakeDue
    <3>2. workPending'
      BY <1>2, <3>1 DEF Top
    <3>3. life' = Waking(NextAttempt(life))
      BY <3>1, <3>2 DEF Top
    <3> QED
      BY <3>3 DEF Waking
  <2>6. RetryStartsWake'
    BY <1>1, <2>5 DEF RetryStartsWake
  <2> QED
    BY <2>4, <2>6 DEF RetryInv
<1>3. CASE poolReady
  <2>1. ~workPending' /\ ~retried
    BY <1>1, <1>3 DEF Top, RetryInv, DueAtTop
  <2> QED
    BY <1>1, <1>3, <2>1 DEF RetryInv, NoAgents, FlagFresh, DueAtTop, RetryStartsWake
<1> QED
  BY <1>2, <1>3

\* The arms: only the retry arm sets the history flag, and only with work pending.
LEMMA RetryArms ==
  ASSUME RetryInv,
         \/ RelayEvent \/ ChannelRemoved \/ WakeResult \/ RetryArm \/ OtherArm \/ LeaveLoop
         \/ \E a \in Attempts : WakeTaskFailed(a)
         \/ \E s \in Slots : PromptResult(s)
  PROVE  RetryInv'
<1>1. NoAgents'
  <2>1. \/ poolReady'
        \/ ~poolReady /\ UNCHANGED slots
    <3>1. CASE RelayEvent
      BY <3>1 DEF RelayEvent
    <3>2. CASE WakeResult
      BY <3>2 DEF WakeResult
    <3>3. CASE \E s \in Slots : PromptResult(s)
      BY <3>3 DEF PromptResult
    <3>5. CASE OtherArm
      BY <3>5 DEF OtherArm
    <3>4. CASE \/ ChannelRemoved \/ RetryArm \/ LeaveLoop
               \/ \E a \in Attempts : WakeTaskFailed(a)
      <4>1. UNCHANGED <<poolReady, slots>>
        BY <3>4 DEF ChannelRemoved, RetryArm, LeaveLoop, WakeTaskFailed
      <4> QED
        BY <4>1
    <3> QED
      BY <3>1, <3>2, <3>3, <3>4, <3>5
  <2> QED
    BY <2>1 DEF RetryInv, NoAgents
<1>2. pc' # "select"
  BY DEF RelayEvent, ChannelRemoved, WakeResult, RetryArm, OtherArm, LeaveLoop,
         WakeTaskFailed, PromptResult, GoRound
<1>3. DueAtTop'
  <2>1. CASE RetryArm
    <3>1. workPending /\ pc = "select" /\ life.st = "failed" /\ life.retry = "passed"
      BY <2>1 DEF RetryArm, GoRound
    <3>2. UNCHANGED <<life, queued, poolReady>>
      BY <2>1 DEF RetryArm
    <3> QED
      BY <3>1, <3>2 DEF RetryInv, FlagFresh, DueAtTop
  <2>2. CASE LeaveLoop
    BY <2>2 DEF LeaveLoop, DueAtTop
  <2>3. CASE \/ RelayEvent \/ ChannelRemoved \/ WakeResult \/ OtherArm
             \/ \E a \in Attempts : WakeTaskFailed(a)
             \/ \E s \in Slots : PromptResult(s)
    <3>1. ~retried'
      BY <2>3 DEF RelayEvent, ChannelRemoved, WakeResult, OtherArm, WakeTaskFailed,
                  PromptResult, GoRound
    <3> QED
      BY <3>1 DEF DueAtTop
  <2> QED
    BY <2>1, <2>2, <2>3
<1> QED
  BY <1>1, <1>2, <1>3 DEF RetryInv, FlagFresh, RetryStartsWake

\* Outside the loop only the agents matter, and the exit creates none.
LEMMA RetryExit ==
  ASSUME RetryInv, Exit
  PROVE  RetryInv'
<1>1. pc' \notin {"top", "select"}
  BY DEF Exit, WakesDrained, WakesAborted, PromptsDrained, RespawnsAborted,
         RespawnResultsDrained, ReapResult
<1>2. poolReady' = poolReady
  BY DEF Exit, WakesDrained, WakesAborted, PromptsDrained, RespawnsAborted,
         RespawnResultsDrained, ReapResult
<1>3. ASSUME \A s \in Slots : slots[s] = "none" PROVE \A s \in Slots : slots'[s] = "none"
  BY <1>3 DEF Exit, WakesDrained, WakesAborted, PromptsDrained, RespawnsAborted,
              RespawnResultsDrained, ReapResult
<1>4. NoAgents'
  BY <1>2, <1>3 DEF RetryInv, NoAgents
<1> QED
  BY <1>1, <1>4 DEF RetryInv, FlagFresh, DueAtTop, RetryStartsWake

\* A step of a task, of the clock or of the signal between two steps of the loop.
LEMMA RetryTasks ==
  ASSUME TypeInv, RetryInv,
         \/ RetryElapses \/ ShutdownSignal \/ UNCHANGED vars
         \/ \E s \in Slots : SlotStep(s)
         \/ \E a \in Attempts : WakeStep(a)
  PROVE  RetryInv'
<1>1. /\ pc' = pc /\ queued' = queued
      /\ poolReady' = poolReady /\ workPending' = workPending /\ retried' = retried
  BY DEF RetryElapses, ShutdownSignal, SlotStep, WakeStep, Spawn, Initialize,
         CancelInitialize, SendResult, WakePanics, LoopVars, vars
<1>2. life'.st = life.st /\ (life.retry = "passed" => life' = life)
  BY DEF RetryElapses, ShutdownSignal, SlotStep, WakeStep, Spawn, Initialize,
         CancelInitialize, SendResult, WakePanics, LoopVars, vars, TypeInv, Life
<1>3. ASSUME \A s \in Slots : slots[s] = "none" PROVE UNCHANGED slots
  BY <1>3 DEF RetryElapses, ShutdownSignal, SlotStep, WakeStep, Spawn, Initialize,
              CancelInitialize, SendResult, WakePanics, vars
<1>4. NoAgents'
  BY <1>1, <1>3 DEF RetryInv, NoAgents
<1>5. FlagFresh'
  BY <1>1 DEF RetryInv, FlagFresh
<1>6. DueAtTop'
  BY <1>1, <1>2 DEF RetryInv, DueAtTop
<1>7. RetryStartsWake'
  BY <1>1, <1>2 DEF RetryInv, RetryStartsWake
<1> QED
  BY <1>4, <1>5, <1>6, <1>7 DEF RetryInv

\* The retry invariant is inductive relative to the types.
LEMMA RetryNext == TypeInv /\ RetryInv /\ [Next]_vars => RetryInv'
  BY RetryTop, RetryArms, RetryExit, RetryTasks DEF Next, Loop

\* Initially no retry is due.
LEMMA RetryInit == Init => RetryInv
  BY DEF Init, Listening, RetryInv, NoAgents, FlagFresh, DueAtTop, RetryStartsWake

\* The loop does not spin on a past retry deadline: the arm is gated on pending work, and
\* work that is pending when the arm fires is still pending at the top of the loop.
THEOREM NoRetrySpin == Spec => []RetryStartsWake
<1>1. RetryInv => RetryStartsWake
  BY DEF RetryInv
<1> QED
  BY <1>1, TypeInit, TypeNext, RetryInit, RetryNext, PTL DEF Spec
=============================================================================
