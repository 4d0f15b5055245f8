--------------------------- MODULE TurnScheduler ---------------------------
(***************************************************************************)
(* What the agent harness promises to a channel: its events wait until     *)
(* they are taken into a turn, a turn has an agent to itself and a channel *)
(* has one turn at a time, the events of a turn are fixed when it starts   *)
(* and come back, if at all, to their own channel when it ends.  An event  *)
(* that is neither waiting nor in a turn has been dealt with for good.     *)
(***************************************************************************)
CONSTANTS
    Channels,
    Agents,
    Events,
    Pulse       \* the heartbeat, no element of Channels

VARIABLES
    offered,    \* events that have arrived so far
    waiting,    \* the events of each channel that wait for a turn
    turns       \* the turns under way

vars == <<offered, waiting, turns>>

Init ==
    /\ offered = {}
    /\ waiting = [c \in Channels |-> {}]
    /\ turns = {}

\* Agent a could begin a turn of c.
Free(a, c) == \A t \in turns : t.agent # a /\ t.ch # c

Turn(a, c, E) == [agent |-> a, ch |-> c, events |-> E]

\* An event arrives and is not wanted.
Refuse(e) ==
    /\ e \notin offered
    /\ offered' = offered \cup {e}
    /\ UNCHANGED <<waiting, turns>>

\* An event of c arrives; others that wait may have to make room.
Accept(e, c) ==
    /\ e \notin offered
    /\ offered' = offered \cup {e}
    /\ \E kept \in SUBSET waiting[c] : waiting' = [waiting EXCEPT ![c] = kept \cup {e}]
    /\ UNCHANGED turns

\* Events of c are taken into a turn, out of what waits.
Start(a, c) ==
    /\ Free(a, c)
    /\ \E E \in (SUBSET waiting[c]) \ {{}} :
         /\ turns' = turns \cup {Turn(a, c, E)}
         /\ waiting' = [waiting EXCEPT ![c] = @ \ E]
    /\ UNCHANGED offered

\* A turn that has no events.
Beat(a) ==
    /\ Free(a, Pulse)
    /\ turns' = turns \cup {Turn(a, Pulse, {})}
    /\ UNCHANGED <<offered, waiting>>

\* A turn of c ends; some of its events, all or none go back to wait.
End(t, c) ==
    /\ t.ch = c
    /\ turns' = turns \ {t}
    /\ \E kept \in SUBSET (waiting[c] \cup t.events) : waiting' = [waiting EXCEPT ![c] = kept]
    /\ UNCHANGED offered

BeatEnds(t) ==
    /\ t.ch = Pulse
    /\ turns' = turns \ {t}
    /\ UNCHANGED <<offered, waiting>>

\* Events of c are given up, or dealt with, without a turn of their own.
Drop(c) ==
    /\ \E kept \in SUBSET waiting[c] : waiting' = [waiting EXCEPT ![c] = kept]
    /\ UNCHANGED <<offered, turns>>

Next ==
    \/ \E e \in Events : Refuse(e)
    \/ \E e \in Events, c \in Channels : Accept(e, c)
    \/ \E a \in Agents, c \in Channels : Start(a, c)
    \/ \E a \in Agents : Beat(a)
    \/ \E t \in turns, c \in Channels : End(t, c)
    \/ \E t \in turns : BeatEnds(t)
    \/ \E c \in Channels : Drop(c)

Spec == Init /\ [][Next]_vars

============================================================================
