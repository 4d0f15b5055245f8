----------------------------- MODULE EventQueue -----------------------------
(***************************************************************************)
(* The per-channel event queue of the agent harness                        *)
(* (crates/lenos-acp/src/queue.rs, struct EventQueue).                     *)
(*                                                                         *)
(* The queue is a plain data structure owned by the harness's main loop,   *)
(* so each of its methods is an operator from the queue's state to its     *)
(* next state; AcpHarness composes them into the actions of the loop.      *)
(*                                                                         *)
(* An event is [id, at]: id is its arrival number, which orders events     *)
(* exactly as received_at does, and at is the author's created_at.         *)
(* The code's maps are total functions here; an absent key is the empty    *)
(* sequence, 0 or "none".  An Instant is kept only as its relation to now: *)
(* "armed" is in the future, "passed" is not.                              *)
(***************************************************************************)
EXTENDS Integers, Sequences, FiniteSets, SequencesExt

CONSTANTS
  Channels,     \* channel uuids
  MaxPending,   \* MAX_PENDING_PER_CHANNEL
  MaxBatch,     \* MAX_BATCH_EVENTS
  MaxRetries,   \* MAX_RETRIES
  DedupMode     \* DedupMode: "queue" or "drop"

ASSUME QueueAssumption ==
  /\ MaxPending \in Nat \ {0}
  /\ MaxBatch \in Nat \ {0}
  /\ MaxRetries \in Nat
  /\ DedupMode \in {"queue", "drop"}

Event   == [id : Nat, at : Nat]
Timer   == {"none", "armed", "passed"}
Reason  == {"none", "steer", "interrupt"}
Batch   == [ch : Channels, events : Seq(Event), cancelled : Seq(Event), reason : Reason]

QueueState ==
  [ queues      : [Channels -> Seq(Event)],
    inFlight    : SUBSET Channels,
    deadlines   : [Channels -> Timer],
    retryAfter  : [Channels -> Timer],
    retryCounts : [Channels -> Nat],
    cancelled   : [Channels -> Seq(Event)],
    reasons     : [Channels -> Reason],
    withheld    : [Channels -> Seq(Event)] ]

NewQueue ==
  [ queues      |-> [c \in Channels |-> <<>>],
    inFlight    |-> {},
    deadlines   |-> [c \in Channels |-> "none"],
    retryAfter  |-> [c \in Channels |-> "none"],
    retryCounts |-> [c \in Channels |-> 0],
    cancelled   |-> [c \in Channels |-> <<>>],
    reasons     |-> [c \in Channels |-> "none"],
    withheld    |-> [c \in Channels |-> <<>>] ]

-----------------------------------------------------------------------------
(* Helpers on sequences of events *)

Ids(s) == {s[i].id : i \in DOMAIN s}

BatchIds(b) == Ids(b.events) \cup Ids(b.cancelled)

\* Seeded fault: the loop is missing.
TrimBackMissing(s) == s

\* The `while queue.len() > MAX_PENDING { pop_back }` loop of every push-front path.
TrimBack(s) == IF Len(s) > MaxPending THEN SubSeq(s, 1, MaxPending) ELSE s

\* The events that loop drops.
Trimmed(s) == SubSeq(s, MaxPending + 1, Len(s))

\* The position of the first event with this id, as iter().position finds it.
PositionOf(s, id) ==
  CHOOSE i \in DOMAIN s : s[i].id = id /\ \A j \in DOMAIN s : s[j].id = id => i <= j

\* The events of s at the positions K, in order.
Keep(s, K) ==
  [k \in 1 .. Cardinality(K) |->
     s[CHOOSE i \in K : Cardinality({j \in K : j <= i}) = k]]

\* retain(|e| e.id != id)
Without(s, id) == Keep(s, {i \in DOMAIN s : s[i].id # id})

\* How many positions of s a stable sort by created_at places no later than i.
SortRank(s, i) ==
  Cardinality({j \in DOMAIN s : s[j].at < s[i].at \/ (s[j].at = s[i].at /\ j <= i)})

\* events.sort_by_key(created_at): Rust's sort_by_key is stable.
SortByCreatedAt(s) ==
  [k \in DOMAIN s |-> s[CHOOSE i \in DOMAIN s : SortRank(s, i) = k]]

-----------------------------------------------------------------------------
(* Operations *)

PushAccepted(q, c) == ~(DedupMode = "drop" /\ c \in q.inFlight)

\* push: at the cap the OLDEST event makes room.
Push(q, c, e) ==
  LET old == q.queues[c]
      kept == IF Len(old) >= MaxPending THEN Tail(old) ELSE old
  IN [q EXCEPT !.queues[c] = Append(kept, e)]

PushEvicts(q, c) == IF Len(q.queues[c]) >= MaxPending THEN {Head(q.queues[c]).id} ELSE {}

Expired(q) == {c \in Channels : q.deadlines[c] = "passed"}

\* Seeded fault: recover_withheld_for_expired_channel is not called, withheld is cleared.
ExpireLosingWithheld(q) ==
  LET X == Expired(q)
  IN [q EXCEPT
        !.inFlight  = @ \ X,
        !.deadlines = [c \in Channels |-> IF c \in X THEN "none" ELSE @[c]],
        !.withheld  = [c \in Channels |-> IF c \in X THEN <<>> ELSE @[c]]]

\* The auto-expiry block of flush_next and has_flushable_work, with
\* recover_withheld_for_expired_channel: the dispatched batch is given up,
\* withheld steer events go back to the queue front.
ExpireInFlight(q) ==
  LET X == Expired(q)
  IN [q EXCEPT
        !.inFlight  = @ \ X,
        !.deadlines = [c \in Channels |-> IF c \in X THEN "none" ELSE @[c]],
        !.queues    = [c \in Channels |->
                         IF c \in X THEN TrimBack(q.withheld[c] \o @[c]) ELSE @[c]],
        !.withheld  = [c \in Channels |-> IF c \in X THEN <<>> ELSE @[c]]]

ExpiryTrims(q) == UNION {Ids(Trimmed(q.withheld[c] \o q.queues[c])) : c \in Expired(q)}

Flushable(q) ==
  {c \in Channels : /\ q.queues[c] # <<>>
                    /\ c \notin q.inFlight
                    /\ q.retryAfter[c] # "armed"}

CancelledReady(q) == {c \in Channels : q.cancelled[c] # <<>> /\ c \notin q.inFlight}

\* has_flushable_work expires first, then asks.
HasFlushableWork(q) ==
  LET x == ExpireInFlight(q) IN Flushable(x) # {} \/ CancelledReady(x) # {}

OldestHead(q) ==
  {c \in Flushable(q) : \A d \in Flushable(q) : Head(q.queues[c]).id <= Head(q.queues[d]).id}

\* Seeded fault: the cancelled batch is read and not removed.
MarkInFlightKeepingBatch(q, c) ==
  [q EXCEPT !.inFlight = @ \cup {c}, !.deadlines[c] = "armed"]

MarkInFlight(q, c) ==
  [q EXCEPT !.inFlight = @ \cup {c}, !.deadlines[c] = "armed",
            !.cancelled[c] = <<>>, !.reasons[c] = "none"]

\* The main path of flush_next: up to MaxBatch events, oldest created_at first,
\* merged with the events of a cancelled turn.
FlushQueued(q, c) ==
  LET n == IF Len(q.queues[c]) < MaxBatch THEN Len(q.queues[c]) ELSE MaxBatch
  IN [ q |-> MarkInFlight(
               [q EXCEPT !.queues[c] = SubSeq(@, n + 1, Len(@))], c),
       batch |-> [ ch |-> c,
                   events |-> SortByCreatedAt(SubSeq(q.queues[c], 1, n)),
                   cancelled |-> q.cancelled[c],
                   reason |-> IF q.cancelled[c] = <<>> THEN "none" ELSE q.reasons[c] ] ]

\* The fallback: a cancelled batch with nothing new to merge is re-dispatched.
FlushCancelled(q, c) ==
  [ q |-> MarkInFlight(q, c),
    batch |-> [ ch |-> c, events |-> q.cancelled[c], cancelled |-> <<>>,
                reason |-> q.reasons[c] ] ]

\* flush_next: the set of [q, batch] it may return; {} is None.  The fallback
\* takes whichever key the HashMap yields first.
FlushNext(q0) ==
  LET q == ExpireInFlight(q0)
  IN IF Flushable(q) # {}
     THEN {FlushQueued(q, c) : c \in OldestHead(q)}
     ELSE {FlushCancelled(q, c) : c \in CancelledReady(q)}

MarkComplete(q, c) ==
  [q EXCEPT
     !.inFlight = @ \ {c},
     !.deadlines[c] = "none",
     !.retryAfter[c] = IF @ = "armed" THEN @ ELSE "none",
     !.retryCounts[c] = IF q.retryAfter[c] = "armed" THEN @ ELSE 0]

RetriesExhausted(q, c) == q.retryCounts[c] + 1 > MaxRetries

\* requeue: dead-letter past the budget, else back to the front under a throttle.
\* Only b.events goes back; b.cancelled is not stored anywhere.
Requeue(q, b) ==
  IF RetriesExhausted(q, b.ch)
  THEN [q EXCEPT !.retryCounts[b.ch] = 0, !.retryAfter[b.ch] = "none"]
  ELSE [q EXCEPT !.retryCounts[b.ch] = @ + 1,
                 !.queues[b.ch] = TrimBack(b.events \o @),
                 !.retryAfter[b.ch] = "armed"]

RequeueTrims(q, b) == Ids(Trimmed(b.events \o q.queues[b.ch]))

\* requeue_preserve_timestamps: the pool had no agent.  b.cancelled is not stored.
RequeuePreserve(q, b) == [q EXCEPT !.queues[b.ch] = TrimBack(b.events \o @)]

RequeueAsCancelled(q, b) ==
  [q EXCEPT !.cancelled[b.ch] = @ \o b.cancelled \o b.events,
            !.reasons[b.ch] = IF b.reason = "none" THEN "steer" ELSE b.reason]

DrainChannel(q, c) ==
  [q EXCEPT !.queues[c] = <<>>, !.retryAfter[c] = "none", !.retryCounts[c] = 0,
            !.cancelled[c] = <<>>, !.reasons[c] = "none", !.withheld[c] = <<>>]

ExtendDeadline(q, c) ==
  [q EXCEPT !.deadlines[c] = IF @ = "none" THEN @ ELSE "armed"]

\* A queued event is set aside while a native steer of it is in flight.
MarkNativeSteerPending(q, c, id) ==
  LET p == PositionOf(q.queues[c], id)
  IN IF id \in Ids(q.queues[c])
     THEN [q EXCEPT !.queues[c] = RemoveAt(@, p),
                    !.withheld[c] = Append(@, q.queues[c][p])]
     ELSE q

\* The queue of c once the withheld event id is pushed to its front.
Released(q, c, id) ==
  <<q.withheld[c][PositionOf(q.withheld[c], id)]>> \o q.queues[c]

\* Seeded faults: the event stays withheld too; the event stays withheld only.
ReleaseCopying(q, c, id) ==
  IF id \in Ids(q.withheld[c]) THEN [q EXCEPT !.queues[c] = TrimBack(Released(q, c, id))] ELSE q
ReleaseForgotten(q, c, id) == q

ReleaseNativeSteer(q, c, id) ==
  IF id \in Ids(q.withheld[c])
  THEN [q EXCEPT !.withheld[c] = RemoveAt(@, PositionOf(@, id)),
                 !.queues[c] = TrimBack(Released(q, c, id))]
  ELSE q

ReleaseTrims(q, c, id) ==
  IF id \in Ids(q.withheld[c]) THEN Ids(Trimmed(Released(q, c, id))) ELSE {}

\* Seeded fault: only the queue is searched.
RemoveFromQueueOnly(q, c, id) == [q EXCEPT !.queues[c] = Without(@, id)]

RemoveEvent(q, c, id) ==
  [q EXCEPT !.withheld[c] = Without(@, id), !.queues[c] = Without(@, id)]

CompactExpiredState(q) ==
  LET after == [c \in Channels |-> IF q.retryAfter[c] = "armed" THEN "armed" ELSE "none"]
  IN [q EXCEPT
        !.retryAfter = after,
        !.retryCounts = [c \in Channels |->
           IF after[c] # "none" \/ q.queues[c] # <<>> \/ c \in q.inFlight
           THEN @[c] ELSE 0]]
=============================================================================
