----------------------------- MODULE SlotCircuit -----------------------------
(***************************************************************************)
(* The circuit breaker of one agent slot                                   *)
(* (crates/lenos-acp/src/lib.rs, struct SlotCircuit).                      *)
(*                                                                         *)
(* crashes counts the crash_times that are younger than the window;        *)
(* openUntil is "none", "armed" (cooldown running) or "passed" (elapsed).  *)
(* The backoff before a respawn is a delay of the respawn task and shows   *)
(* only as the time that task takes.                                       *)
(***************************************************************************)
EXTENDS Naturals

CONSTANT CrashThreshold     \* CIRCUIT_BREAKER_THRESHOLD

ASSUME CircuitAssumption == CrashThreshold \in Nat \ {0}

Circuit == [crashes : 0 .. CrashThreshold, openUntil : {"none", "armed", "passed"}]

NewCircuit == [crashes |-> 0, openUntil |-> "none"]

\* Half-open: crash_times is seeded so that one more crash trips the breaker.
HalfOpen == [crashes |-> CrashThreshold - 1, openUntil |-> "none"]

\* record_crash: the circuit after a crash ...
RecordCrash(k) ==
  CASE k.openUntil = "passed" -> HalfOpen
    [] k.openUntil = "armed" -> k
    [] OTHER ->
         IF k.crashes + 1 >= CrashThreshold
         THEN [crashes |-> CrashThreshold, openUntil |-> "armed"]
         ELSE [k EXCEPT !.crashes = @ + 1]

\* ... and its verdict: Respawn or HalfOpenProbe rather than CircuitOpen.
RespawnAllowed(k) ==
  CASE k.openUntil = "passed" -> TRUE
    [] k.openUntil = "armed" -> FALSE
    [] OTHER -> k.crashes + 1 < CrashThreshold

MarkSpawnFailed(k) == [k EXCEPT !.openUntil = "armed"]

\* Seeded faults: the cooldown is ignored; an elapsed cooldown is not recognised.
CanRefillAlways(k) == TRUE
CanRefillClosedOnly(k) == k.openUntil = "none"

\* can_refill: its answer and its effect on the circuit.
CanRefill(k) == k.openUntil # "armed"

Refilled(k) == IF k.openUntil = "passed" THEN HalfOpen ELSE k
=============================================================================
