--------------------------- MODULE TopicInterest ---------------------------
(***************************************************************************)
(* A relay pod's interest in Redis topics (lenos-pubsub). Subscriptions    *)
(* retain and release a topic; the subscriber task keeps the SUBSCRIBEs of *)
(* its one Redis connection in step with the counts, over reconnects, and  *)
(* hands what arrives to a broadcast channel.                              *)
(*                                                                         *)
(* Redis is external: PUBLISH reaches the connections that are subscribed  *)
(* at that moment, and nothing is kept for the others. The command channel *)
(* and the broadcast channel hold 4096 entries each; neither limit is      *)
(* reached here, and back-off delays between connections are left out. The *)
(* SUBSCRIBEs of a new connection are one step.                            *)
(***************************************************************************)
EXTENDS Naturals, Sequences

CONSTANTS
    Topics,
    NoTopic,
    MaxOutages      \* bound: lost Redis connections

ASSUME NoTopicAssumption == NoTopic \notin Topics
ASSUME OutagesAssumption == MaxOutages \in Nat

VARIABLES
    desired,    \* desired_topics: reference counts
    sleepers,   \* per topic: release tasks that sleep out the debounce
    orders,     \* the channel of SubscriptionCommands
    link,       \* the Redis connection of the subscriber task
    todo,       \* topics of the snapshot that it has still to subscribe to
    active,     \* active_topics, and what Redis sends to this connection
    idle,       \* topic found idle, about to be unsubscribed from
    bcast,      \* messages Redis sent, up to the receiver of the broadcast channel
    outages     \* connections lost so far

interest == <<desired, sleepers>>
subscriber == <<orders, link, todo, active, idle, bcast, outages>>

Subscribe(t) == [op |-> "subscribe", topic |-> t]
UnsubscribeIfIdle(t) == [op |-> "unsubscribe_if_idle", topic |-> t]

InitInterest ==
    /\ desired = [t \in Topics |-> 0]
    /\ sleepers = [t \in Topics |-> 0]
    /\ orders = <<>>
    /\ link = "down"
    /\ todo = {} /\ active = {}
    /\ idle = NoTopic
    /\ bcast = <<>>
    /\ outages = 0

(***************************************************************************)
(* What the rest of the pod calls.                                         *)
(***************************************************************************)

\* retain_topic up to the unlock; a first retain goes on to send Subscribe(t).
Retain(t) ==
    /\ desired' = [desired EXCEPT ![t] = @ + 1]
    /\ UNCHANGED <<sleepers, subscriber>>

FirstRetain(t) == desired[t] = 0

Order(cmd) == orders' = Append(orders, cmd)

SendSubscribe(t) ==
    /\ Order(Subscribe(t))
    /\ UNCHANGED <<interest, link, todo, active, idle, bcast, outages>>

\* release_topic: releasing a topic that is not retained changes nothing.
Release(t) ==
    /\ desired' = [desired EXCEPT ![t] = IF @ = 0 THEN 0 ELSE @ - 1]
    /\ sleepers' = IF desired[t] = 1 THEN [sleepers EXCEPT ![t] = @ + 1] ELSE sleepers
    /\ UNCHANGED subscriber

\* PUBLISH (external): only a connection that is subscribed hears of it.
Published(t, e) == IF t \in active THEN Append(bcast, e) ELSE bcast

(***************************************************************************)
(* The debounce tasks and the subscriber task.                             *)
(***************************************************************************)

DebounceEnds(t) ==
    /\ sleepers[t] > 0
    /\ sleepers' = [sleepers EXCEPT ![t] = @ - 1]
    /\ Order(UnsubscribeIfIdle(t))
    /\ UNCHANGED <<desired, link, todo, active, idle, bcast, outages>>

\* connect_and_subscribe, with its snapshot of the topics that are wanted.
Connect ==
    /\ link = "down"
    /\ link' = "connecting"
    /\ todo' = {t \in Topics : desired[t] > 0}
    /\ UNCHANGED <<interest, orders, active, idle, bcast, outages>>

SubscribeSnapshot ==
    /\ link = "connecting"
    /\ link' = "up"
    /\ active' = todo
    /\ todo' = {}
    /\ UNCHANGED <<interest, orders, idle, bcast, outages>>

\* The select loop is waiting: no arm is being worked off.
Waiting == link = "up" /\ idle = NoTopic

\* Seeded fault: the count is not looked at again.
TakeOrderBlindly ==
    /\ Waiting /\ orders # <<>>
    /\ orders' = Tail(orders)
    /\ LET cmd == Head(orders) IN
       \/ cmd.op = "subscribe" /\ active' = active \cup {cmd.topic} /\ UNCHANGED idle
       \/ cmd.op = "unsubscribe_if_idle" /\ idle' = cmd.topic /\ UNCHANGED active
    /\ UNCHANGED <<interest, link, todo, bcast, outages>>

TakeOrder ==
    /\ Waiting /\ orders # <<>>
    /\ orders' = Tail(orders)
    /\ LET cmd == Head(orders) IN
       \/ cmd.op = "subscribe" /\ active' = active \cup {cmd.topic} /\ UNCHANGED idle
       \/ /\ cmd.op = "unsubscribe_if_idle"
          /\ idle' = IF desired[cmd.topic] = 0 THEN cmd.topic ELSE NoTopic
          /\ UNCHANGED active
    /\ UNCHANGED <<interest, link, todo, bcast, outages>>

Unsubscribe ==
    /\ idle # NoTopic
    /\ active' = active \ {idle}
    /\ idle' = NoTopic
    /\ UNCHANGED <<interest, orders, link, todo, bcast, outages>>

\* The stream ends or a command fails, in any state of the connection; what was
\* not yet read from it is lost.
Outage ==
    /\ link # "down"
    /\ outages < MaxOutages
    /\ outages' = outages + 1
    /\ link' = "down"
    /\ todo' = {} /\ active' = {} /\ idle' = NoTopic
    /\ \E n \in 0..Len(bcast) : bcast' = SubSeq(bcast, 1, n)
    /\ UNCHANGED <<interest, orders>>

SubscriberStep ==
    \/ Connect \/ SubscribeSnapshot
    \/ TakeOrder \/ Unsubscribe

\* The next thing that the subscriber task does for t, when it gets there.
InHand(t) == link = "down" \/ t \in todo \/ \E k \in DOMAIN orders : orders[k] = Subscribe(t)

Subscribed(t) == t \in active /\ idle # t

-----------------------------------------------------------------------------
InterestTypeOK ==
    /\ desired \in [Topics -> Nat]
    /\ sleepers \in [Topics -> Nat]
    /\ orders \in Seq([op : {"subscribe", "unsubscribe_if_idle"}, topic : Topics])
    /\ link \in {"down", "connecting", "up"}
    /\ todo \subseteq Topics /\ active \subseteq Topics
    /\ idle \in Topics \cup {NoTopic}
    /\ outages \in 0..MaxOutages

=============================================================================
