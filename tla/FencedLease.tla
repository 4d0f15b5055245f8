---------------------------- MODULE FencedLease ----------------------------
(***************************************************************************)
(* What the session directory promises to everything built on it: at most  *)
(* one holder at a time, an epoch that grows with every grant and never    *)
(* with anything else, and no operation accepted unless it carries the     *)
(* epoch of the present holder.                                            *)
(***************************************************************************)
EXTENDS Integers

CONSTANTS
    Owners,
    Nobody      \* no element of Owners

VARIABLES
    epoch,      \* grants made so far
    holder,     \* the present holder, or Nobody
    used        \* epoch of the last operation that was accepted

vars == <<epoch, holder, used>>

Init ==
    /\ epoch = 0
    /\ holder = Nobody
    /\ used = 0

\* A free lease is granted under a new epoch.
Grant ==
    /\ holder = Nobody
    /\ \E o \in Owners : holder' = o
    /\ epoch' = epoch + 1
    /\ UNCHANGED used

\* The holder lets go, or its lease runs out.
Vacate ==
    /\ holder # Nobody
    /\ holder' = Nobody
    /\ UNCHANGED <<epoch, used>>

\* An operation is accepted, under the epoch of the present holder.
Use ==
    /\ holder # Nobody
    /\ used' = epoch
    /\ UNCHANGED <<epoch, holder>>

Next == Grant \/ Vacate \/ Use

Spec == Init /\ [][Next]_vars

============================================================================
