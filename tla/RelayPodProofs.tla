--------------------------- MODULE RelayPodProofs ---------------------------
(***************************************************************************)
(* Proofs about a relay pod: what is wanted of Redis is never forgotten,   *)
(* no connection is served on after a sweep of the pod, the counts of the  *)
(* topics suffice for the registry's subscriptions, live frames are sent   *)
(* in scope and once, only a drop from the fan-out index hides a           *)
(* subscription from it, and one that is not hidden has no gap but what    *)
(* the replica it asked did not have.                                      *)
(***************************************************************************)
EXTENDS RelayPod, FiniteSetTheorems, SequenceTheorems, TLAPS

-----------------------------------------------------------------------------
(***************************************************************************)
(* Interest in topics                                                      *)
(***************************************************************************)

\* A handler has its topic and its subscription from the moment it is spawned, and
\* the registry's entries are from handlers.
ReqType == [at : ReqPhases, sub : Slots \cup {NoSlot}, topic : Topics \cup {NoTopic},
            old : Topics \cup {NoTopic}, early : SUBSET Events,
            seen : SUBSET Events, behind : SUBSET Events]

ReqsOK ==
    /\ req \in [Reqs -> ReqType]
    /\ subs \in [Slots -> Reqs \cup {NoReq}]
    /\ \A r \in Reqs : req[r].at # "idle" => req[r].topic \in Topics /\ req[r].sub \in Slots

\* Only a connection that is up has topics, or one to unsubscribe from.
LinkOK == link # "up" => active = {} /\ idle = NoTopic

InterestInv == InterestTypeOK /\ ReqsOK /\ LinkOK /\ InterestCovered

\* No count becomes positive, and the subscriber and its commands are left alone.
Falls ==
    /\ desired' \in [Topics -> Nat] /\ sleepers' \in [Topics -> Nat]
    /\ \A t \in Topics : desired'[t] > 0 => desired[t] > 0
    /\ UNCHANGED <<orders, link, todo, active, idle, outages>>

\* The handlers that are about to send Subscribe still are.
SendersStay ==
    \A r \in Reqs : req[r].at = "send" => req'[r].at = "send" /\ req'[r].topic = req[r].topic

\* The invariant holds before anything is wanted.
LEMMA InterestInit == Init => InterestInv
BY NoTopicAssumption, OutagesAssumption
   DEF Init, InitInterest, InterestInv, InterestTypeOK, ReqsOK, ReqType, LinkOK, InterestCovered,
       NewReq, ReqPhases, InHand, Subscribed, NoReq

\* A step that wants nothing new and leaves the subscriptions alone keeps it.
LEMMA FallsKeeps ==
    ASSUME InterestInv, Falls, SendersStay, ReqsOK'
    PROVE  InterestInv'
<1>1. InterestTypeOK'
  BY DEF InterestInv, InterestTypeOK, Falls
<1>2. LinkOK'
  BY DEF InterestInv, LinkOK, Falls
<1>3. InterestCovered'
  <2> SUFFICES ASSUME NEW t \in Topics, desired'[t] > 0
               PROVE  \/ Subscribed(t)' \/ InHand(t)'
                      \/ \E r \in Reqs : req'[r].at = "send" /\ req'[r].topic = t
    BY DEF InterestCovered
  <2>1. \/ Subscribed(t) \/ InHand(t)
        \/ \E r \in Reqs : req[r].at = "send" /\ req[r].topic = t
    BY DEF InterestInv, InterestCovered, Falls
  <2>2. Subscribed(t)' = Subscribed(t) /\ InHand(t)' = InHand(t)
    BY DEF Falls, Subscribed, InHand, Subscribe
  <2> QED
    BY <2>1, <2>2 DEF SendersStay
<1> QED
  BY <1>1, <1>2, <1>3 DEF InterestInv

\* Steps outside of TopicInterest, ...
LEMMA UntouchedFalls ==
    ASSUME InterestInv, UNCHANGED pubsub
    PROVE  Falls
BY DEF InterestInv, InterestTypeOK, Falls, pubsub, interest, subscriber

\* ... or in its receiving end only, ...
LEMMA ReceivedFalls ==
    ASSUME InterestInv, UNCHANGED <<interest, orders, link, todo, active, idle, outages>>
    PROVE  Falls
BY DEF InterestInv, InterestTypeOK, Falls, interest

\* ... and releases are of that kind.
LEMMA ReleaseFalls ==
    ASSUME InterestInv, NEW STATE s, Release(s)
    PROVE  Falls
<1>1. desired \in [Topics -> Nat] /\ sleepers \in [Topics -> Nat]
  BY DEF InterestInv, InterestTypeOK
<1>2. UNCHANGED <<orders, link, todo, active, idle, outages>>
  BY DEF Release, subscriber
<1>3. desired' = [x \in Topics |-> IF x = s THEN (IF desired[s] = 0 THEN 0 ELSE desired[s] - 1)
                                     ELSE desired[x]]
  BY <1>1 DEF Release
<1>4. desired' \in [Topics -> Nat] /\ \A t \in Topics : desired'[t] > 0 => desired[t] > 0
  BY <1>1, <1>3
<1>5. sleepers' \in [Topics -> Nat]
  <2>1. CASE desired[s] = 1
    <3>1. sleepers' = [x \in Topics |-> IF x = s THEN sleepers[s] + 1 ELSE sleepers[x]]
      BY <1>1, <2>1 DEF Release
    <3> QED
      BY <1>1, <3>1
  <2>2. CASE desired[s] # 1
    BY <1>1, <2>2 DEF Release
  <2> QED
    BY <2>1, <2>2
<1> QED
  BY <1>2, <1>4, <1>5 DEF Falls

\* Steps that are no handler's.
LEMMA ReqsKept ==
    ASSUME ReqsOK, UNCHANGED req, subs' \in [Slots -> Reqs \cup {NoReq}]
    PROVE  ReqsOK' /\ SendersStay
BY DEF ReqsOK, SendersStay

\* The topic of an entry, where there is one.
LEMMA TopicOfType ==
    ASSUME ReqsOK, NEW s \in Slots
    PROVE  TopicOf(s) \in Topics \cup {NoTopic}
BY DEF ReqsOK, ReqType, TopicOf

\* The steps of a handler, with its page from the writer or from a replica.
LEMMA PageOfTask ==
    ASSUME NEW r \in Reqs, ReqTask(r)
    PROVE  \/ ReqRemove(r) \/ ReqDrop(r) \/ ReqInsert(r) \/ ReqPush(r)
           \/ ReqRelease(r) \/ ReqRetain(r) \/ ReqSend(r)
           \/ \E behind \in SUBSET Events : Page(r, behind)
<1>1. ASSUME NEW n, ReqQueryReplica(r, n) PROVE \E behind \in SUBSET Events : Page(r, behind)
  <2>1. {e \in Stored(req[r].topic) : e > n} \in SUBSET Events
    BY DEF Stored
  <2> QED
    BY <1>1, <2>1 DEF ReqQueryReplica
<1>2. ReqQuery(r) => \E behind \in SUBSET Events : Page(r, behind)
  BY DEF ReqQuery
<1> QED
  BY <1>1, <1>2 DEF ReqTask

\* A handler that is spawned.
LEMMA ReqSpawned ==
    ASSUME ReqsOK, NEW r \in Reqs, NEW s \in Slots, NEW t \in Topics, Req(r, s, t)
    PROVE  ReqsOK' /\ SendersStay
BY DEF ReqsOK, ReqType, SendersStay, Req, NewReq, ReqPhases, registry

\* The steps of a handler other than ReqRetain and ReqSend.
LEMMA HandlerSteps ==
    ASSUME ReqsOK, NEW r \in Reqs,
           \/ ReqRemove(r) \/ ReqDrop(r) \/ ReqInsert(r) \/ ReqPush(r) \/ ReqRelease(r)
           \/ \E behind \in SUBSET Events : Page(r, behind)
           \/ ReqQueryFails(r)
    PROVE  ReqsOK' /\ SendersStay
<1>0. subs' \in [Slots -> Reqs \cup {NoReq}]
  BY DEF ReqRemove, ReqDrop, ReqInsert, ReqPush, ReqRelease, Page, ReqQueryFails, registry, ReqsOK
<1>1. ASSUME NEW p \in ReqPhases \ {"send"}, req' = [req EXCEPT ![r].at = p],
             req[r].at \notin {"idle", "send"}, p # "idle"
      PROVE  ReqsOK' /\ SendersStay
  BY <1>0, <1>1 DEF ReqsOK, ReqType, SendersStay
<1>a. ASSUME NEW STATE rec, rec \in ReqType, rec.at \notin {"idle", "send"},
             rec.topic = req[r].topic, rec.sub = req[r].sub,
             req[r].at \notin {"idle", "send"}, req' = [req EXCEPT ![r] = rec]
      PROVE  ReqsOK' /\ SendersStay
  BY <1>0, <1>a DEF ReqsOK, SendersStay
<1>2. CASE ReqRemove(r)
  <2>1. CASE subs[req[r].sub] = NoReq
    BY <1>2, <2>1, <1>1 DEF ReqRemove, Step, ReqPhases
  <2>2. CASE subs[req[r].sub] # NoReq
    <3> DEFINE t == TopicOf(req[r].sub)
               p == IF LeftEmpty(req[r].sub, t) THEN "emptied" ELSE "insert"
               rec == [req[r] EXCEPT !.at = p, !.old = t]
    <3>1. req' = [req EXCEPT ![r].at = p, ![r].old = t] /\ req[r].at = "remove"
      BY <1>2, <2>2 DEF ReqRemove
    <3>2. p \in {"emptied", "insert"}
      OBVIOUS
    <3>3. t \in Topics \cup {NoTopic}
      BY <3>1, TopicOfType DEF ReqsOK
    <3> HIDE DEF p, t
    <3>4. req' = [req EXCEPT ![r] = rec]
      BY <3>1 DEF ReqsOK, ReqType
    <3>5. rec \in ReqType /\ rec.at = p /\ rec.topic = req[r].topic /\ rec.sub = req[r].sub
      BY <3>2, <3>3 DEF ReqsOK, ReqType, ReqPhases
    <3> HIDE DEF rec
    <3> QED
      BY <3>1, <3>2, <3>4, <3>5, <1>a
  <2> QED
    BY <2>1, <2>2
<1>3. CASE ReqDrop(r)
  BY <1>3, <1>1 DEF ReqDrop, Step, ReqPhases
<1>4. CASE ReqInsert(r)
  BY <1>4, <1>1 DEF ReqInsert, Step, ReqPhases
<1>5. CASE ReqPush(r)
  <2> DEFINE p == IF req[r].old = NoTopic THEN "retain" ELSE "release"
             rec == [req[r] EXCEPT !.at = p, !.early = Matched]
  <2>1. req' = [req EXCEPT ![r].at = p, ![r].early = Matched] /\ req[r].at = "push"
    BY <1>5 DEF ReqPush, Listed
  <2>2. Matched \in SUBSET Events
    BY DEF Matched
  <2>3. p \in {"retain", "release"}
    OBVIOUS
  <2> HIDE DEF p
  <2>4. req' = [req EXCEPT ![r] = rec]
    BY <2>1 DEF ReqsOK, ReqType
  <2>5. rec \in ReqType /\ rec.at = p /\ rec.topic = req[r].topic /\ rec.sub = req[r].sub
    BY <2>2, <2>3 DEF ReqsOK, ReqType, ReqPhases
  <2> HIDE DEF rec
  <2> QED
    BY <2>1, <2>3, <2>4, <2>5, <1>a
<1>6. CASE ReqRelease(r)
  <2> DEFINE rec == [req[r] EXCEPT !.at = "retain", !.old = NoTopic]
  <2>1. req' = [req EXCEPT ![r] = rec] /\ req[r].at = "release"
    BY <1>6 DEF ReqRelease, ReqsOK, ReqType
  <2>2. rec \in ReqType /\ rec.at = "retain" /\ rec.topic = req[r].topic /\ rec.sub = req[r].sub
    BY DEF ReqsOK, ReqType, ReqPhases
  <2> HIDE DEF rec
  <2> QED
    BY <2>1, <2>2, <1>a
<1>7. ASSUME NEW behind \in SUBSET Events, Page(r, behind)
      PROVE  ReqsOK' /\ SendersStay
  <2> DEFINE seen == Stored(req[r].topic) \ behind
             rec == [req[r] EXCEPT !.at = "done", !.behind = behind, !.seen = seen]
  <2>1. req' = [req EXCEPT ![r].at = "done", ![r].behind = behind, ![r].seen = seen]
        /\ req[r].at = "query"
    BY <1>7 DEF Page
  <2>2. seen \in SUBSET Events
    BY DEF Stored
  <2> HIDE DEF seen
  <2>3. req' = [req EXCEPT ![r] = rec]
    BY <2>1 DEF ReqsOK, ReqType
  <2>4. rec \in ReqType /\ rec.at = "done" /\ rec.topic = req[r].topic /\ rec.sub = req[r].sub
    BY <2>2 DEF ReqsOK, ReqType, ReqPhases
  <2> HIDE DEF rec
  <2> QED
    BY <2>1, <2>3, <2>4, <1>a
<1>8. CASE ReqQueryFails(r)
  BY <1>8, <1>1 DEF ReqQueryFails, Step, ReqPhases
<1> QED
  BY <1>2, <1>3, <1>4, <1>5, <1>6, <1>7, <1>8

\* The first retain of a topic leaves its handler about to send Subscribe.
LEMMA RetainKeeps ==
    ASSUME InterestInv, NEW r \in Reqs, ReqRetain(r)
    PROVE  InterestInv'
<1> DEFINE s == req[r].topic
           p == IF FirstRetain(s) THEN "send" ELSE "query"
<1>1. s \in Topics /\ desired \in [Topics -> Nat] /\ req \in [Reqs -> ReqType]
  BY DEF InterestInv, ReqsOK, InterestTypeOK, ReqRetain
<1>2. /\ desired' = [desired EXCEPT ![s] = @ + 1]
      /\ UNCHANGED <<sleepers, orders, link, todo, active, idle, outages>>
      /\ req' = [req EXCEPT ![r].at = p] /\ req[r].at = "retain" /\ subs' = subs
  BY DEF ReqRetain, Retain, Step, subscriber, registry
<1>3. p \in {"send", "query"} /\ p \in ReqPhases
  BY DEF ReqPhases
<1>4. ReqsOK' /\ SendersStay /\ req'[r].topic = s /\ req'[r].at = p
  <2> HIDE DEF p
  <2> QED
    BY <1>1, <1>2, <1>3 DEF InterestInv, ReqsOK, ReqType, SendersStay
<1>5. InterestTypeOK'
  BY <1>1, <1>2 DEF InterestInv, InterestTypeOK
<1>6. LinkOK'
  BY <1>2 DEF InterestInv, LinkOK
<1>7. InterestCovered'
  <2> SUFFICES ASSUME NEW t \in Topics, desired'[t] > 0
               PROVE  \/ Subscribed(t)' \/ InHand(t)'
                      \/ \E q \in Reqs : req'[q].at = "send" /\ req'[q].topic = t
    BY DEF InterestCovered
  <2>1. CASE t = s /\ FirstRetain(s)
    BY <2>1, <1>4
  <2>2. CASE ~(t = s /\ FirstRetain(s))
    <3>1. desired[t] > 0
      BY <2>2, <1>1, <1>2 DEF FirstRetain
    <3>2. \/ Subscribed(t) \/ InHand(t)
          \/ \E q \in Reqs : req[q].at = "send" /\ req[q].topic = t
      BY <3>1 DEF InterestInv, InterestCovered
    <3>3. Subscribed(t)' = Subscribed(t) /\ InHand(t)' = InHand(t)
      BY <1>2 DEF Subscribed, InHand, Subscribe
    <3> QED
      BY <3>2, <3>3, <1>4 DEF SendersStay
  <2> QED
    BY <2>1, <2>2
<1> QED
  BY <1>4, <1>5, <1>6, <1>7 DEF InterestInv

\* A command at the end of the channel leaves the ones before it where they are.
LEMMA OrderKeeps ==
    ASSUME InterestTypeOK, NEW STATE cmd, cmd \in [op : {"subscribe", "unsubscribe_if_idle"}, topic : Topics],
           Order(cmd), NEW t \in Topics, UNCHANGED <<link, todo>>
    PROVE  /\ orders' \in Seq([op : {"subscribe", "unsubscribe_if_idle"}, topic : Topics])
           /\ InHand(t) => InHand(t)'
           /\ cmd = Subscribe(t) => InHand(t)'
<1> DEFINE Cmds == [op : {"subscribe", "unsubscribe_if_idle"}, topic : Topics]
<1>1. orders \in Seq(Cmds) /\ cmd \in Cmds /\ orders' = Append(orders, cmd)
  BY DEF InterestTypeOK, Order
<1> HIDE DEF Cmds
<1>2. /\ orders' \in Seq(Cmds) /\ Len(orders') = Len(orders) + 1
      /\ \A k \in 1..Len(orders) : orders'[k] = orders[k]
      /\ orders'[Len(orders) + 1] = cmd
  BY <1>1
<1>3. /\ DOMAIN orders = 1..Len(orders) /\ DOMAIN orders' = 1..Len(orders')
      /\ Len(orders) \in Nat
  BY <1>1, <1>2
<1>4. \A k \in DOMAIN orders : k \in DOMAIN orders' /\ orders'[k] = orders[k]
  BY <1>2, <1>3
<1>5. Len(orders) + 1 \in DOMAIN orders'
  BY <1>2, <1>3
<1>6. Subscribe(t)' = Subscribe(t)
  BY DEF Subscribe
<1> QED
  BY <1>2, <1>4, <1>5, <1>6 DEF InHand, Cmds

\* Subscribe is sent: the handler's part passes to the command.
LEMMA SendKeeps ==
    ASSUME InterestInv, NEW r \in Reqs, ReqSend(r)
    PROVE  InterestInv'
<1> DEFINE s == req[r].topic
<1>1. s \in Topics /\ InterestTypeOK /\ req \in [Reqs -> ReqType]
  BY DEF InterestInv, ReqsOK, ReqSend
<1>2. /\ Order(Subscribe(s))
      /\ UNCHANGED <<desired, sleepers, link, todo, active, idle, outages>>
      /\ req' = [req EXCEPT ![r].at = "query"] /\ req[r].at = "send" /\ subs' = subs
  BY DEF ReqSend, SendSubscribe, Step, interest, registry
<1>3. ReqsOK' /\ \A q \in Reqs \ {r} : req'[q] = req[q]
  BY <1>1, <1>2 DEF InterestInv, ReqsOK, ReqType, ReqPhases
<1>4. Subscribe(s) \in [op : {"subscribe", "unsubscribe_if_idle"}, topic : Topics]
  BY <1>1 DEF Subscribe
<1>5. \A t \in Topics : (InHand(t) => InHand(t)') /\ (t = s => InHand(t)')
  BY <1>1, <1>2, <1>4, OrderKeeps
<1>6. InterestTypeOK'
  BY <1>1, <1>2, <1>4, OrderKeeps DEF InterestTypeOK
<1>7. LinkOK'
  BY <1>2 DEF InterestInv, LinkOK
<1>8. InterestCovered'
  <2> SUFFICES ASSUME NEW t \in Topics, desired'[t] > 0
               PROVE  \/ Subscribed(t)' \/ InHand(t)'
                      \/ \E q \in Reqs : req'[q].at = "send" /\ req'[q].topic = t
    BY DEF InterestCovered
  <2>1. \/ Subscribed(t) \/ InHand(t)
        \/ \E q \in Reqs : req[q].at = "send" /\ req[q].topic = t
    BY <1>2 DEF InterestInv, InterestCovered
  <2>2. Subscribed(t)' = Subscribed(t)
    BY <1>2 DEF Subscribed
  <2> QED
    BY <2>1, <2>2, <1>3, <1>5
<1> QED
  BY <1>3, <1>6, <1>7, <1>8 DEF InterestInv

\* Steps of the subscriber task, of Redis and of the debounce leave the counts and
\* the handlers alone; it is enough that what covered a topic goes on doing so.
LEMMA CoverKeeps ==
    ASSUME InterestInv, UNCHANGED <<desired, req, subs>>, InterestTypeOK', LinkOK',
           \A t \in Topics : desired[t] > 0 /\ (Subscribed(t) \/ InHand(t))
                                => Subscribed(t)' \/ InHand(t)'
    PROVE  InterestInv'
<1>1. InterestCovered'
  <2> SUFFICES ASSUME NEW t \in Topics, desired'[t] > 0
               PROVE  \/ Subscribed(t)' \/ InHand(t)'
                      \/ \E q \in Reqs : req'[q].at = "send" /\ req'[q].topic = t
    BY DEF InterestCovered
  <2>1. \/ Subscribed(t) \/ InHand(t)
        \/ \E q \in Reqs : req[q].at = "send" /\ req[q].topic = t
    BY DEF InterestInv, InterestCovered
  <2> QED
    BY <2>1
<1>2. ReqsOK'
  BY ReqsKept DEF InterestInv, ReqsOK
<1> QED
  BY <1>1, <1>2 DEF InterestInv

\* A new connection starts from a snapshot of what is wanted.
LEMMA ConnectKeeps ==
    ASSUME InterestInv, Connect, UNCHANGED <<req, subs>>
    PROVE  InterestInv'
<1>1. InterestTypeOK'
  BY DEF InterestInv, InterestTypeOK, Connect, interest
<1>2. LinkOK'
  BY DEF InterestInv, LinkOK, Connect
<1>3. \A t \in Topics : desired[t] > 0 => InHand(t)'
  BY DEF Connect, InHand
<1> QED
  BY <1>1, <1>2, <1>3, CoverKeeps DEF Connect, interest

\* All of the snapshot is subscribed to.
LEMMA SnapshotKeeps ==
    ASSUME InterestInv, SubscribeSnapshot, UNCHANGED <<req, subs>>
    PROVE  InterestInv'
<1>1. InterestTypeOK'
  BY DEF InterestInv, InterestTypeOK, SubscribeSnapshot, interest
<1>2. LinkOK'
  BY DEF LinkOK, SubscribeSnapshot
<1>3. ASSUME NEW t \in Topics, Subscribed(t) \/ InHand(t)
      PROVE  Subscribed(t)' \/ InHand(t)'
  <2>1. active = {} /\ idle' = NoTopic /\ link = "connecting" /\ active' = todo /\ orders' = orders
    BY DEF InterestInv, LinkOK, SubscribeSnapshot
  <2>2. ~Subscribed(t)
    BY <2>1 DEF Subscribed
  <2>3. CASE t \in todo
    BY <2>1, <2>3, NoTopicAssumption DEF Subscribed
  <2>4. CASE \E k \in DOMAIN orders : orders[k] = Subscribe(t)
    BY <2>1, <2>4 DEF InHand, Subscribe
  <2> QED
    BY <1>3, <2>1, <2>2, <2>3, <2>4 DEF InHand
<1> QED
  BY <1>1, <1>2, <1>3, CoverKeeps DEF SubscribeSnapshot, interest

\* A command is worked off: Subscribe becomes a subscription, and a topic is found
\* idle only when nothing wants it.
LEMMA TakeOrderKeeps ==
    ASSUME InterestInv, TakeOrder, UNCHANGED <<req, subs>>
    PROVE  InterestInv'
<1> DEFINE Cmds == [op : {"subscribe", "unsubscribe_if_idle"}, topic : Topics]
           cmd == Head(orders)
<1>1. orders \in Seq(Cmds) /\ orders # <<>> /\ orders' = Tail(orders)
  BY DEF InterestInv, InterestTypeOK, TakeOrder
<1>2. /\ link = "up" /\ idle = NoTopic /\ UNCHANGED <<desired, sleepers, link, todo, outages>>
  BY DEF TakeOrder, Waiting, interest
<1>3. cmd \in Cmds /\ orders' \in Seq(Cmds)
  <2> HIDE DEF Cmds
  <2> QED
    BY <1>1
<1>4. \/ cmd.op = "subscribe" /\ active' = active \cup {cmd.topic} /\ idle' = idle
      \/ /\ cmd.op = "unsubscribe_if_idle" /\ active' = active
         /\ idle' = IF desired[cmd.topic] = 0 THEN cmd.topic ELSE NoTopic
  BY DEF TakeOrder
<1>5. InterestTypeOK'
  BY <1>2, <1>3, <1>4 DEF InterestInv, InterestTypeOK
<1>6. LinkOK'
  BY <1>2 DEF LinkOK
<1>7. ASSUME NEW t \in Topics, desired[t] > 0, Subscribed(t) \/ InHand(t)
      PROVE  Subscribed(t)' \/ InHand(t)'
  <2>1. CASE Subscribed(t)
    <3>1. idle' # t
      BY <1>2, <1>4, <1>7, NoTopicAssumption
    <3>2. t \in active'
      BY <1>4, <2>1 DEF Subscribed
    <3> QED
      BY <3>1, <3>2 DEF Subscribed
  <2>2. CASE t \in todo
    BY <1>2, <2>2 DEF InHand
  <2>3. CASE cmd = Subscribe(t)
    <3>1. cmd.op = "subscribe" /\ cmd.topic = t
      BY <2>3 DEF Subscribe
    <3>2. t \in active' /\ idle' = NoTopic
      BY <3>1, <1>2, <1>4
    <3> QED
      BY <3>2, NoTopicAssumption DEF Subscribed
  <2>4. CASE cmd # Subscribe(t) /\ \E k \in DOMAIN orders : orders[k] = Subscribe(t)
    <3>1. PICK k \in DOMAIN orders : orders[k] = Subscribe(t)
      BY <2>4
    <3> HIDE DEF Cmds
    <3>2. k \in 1..Len(orders) /\ Len(orders) \in Nat /\ orders[1] = cmd
      BY <1>1
    <3>3. k # 1
      BY <2>4, <3>1, <3>2
    <3>4. k - 1 \in 1..Len(orders') /\ orders'[k - 1] = orders[k]
      BY <1>1, <3>2, <3>3
    <3>5. k - 1 \in DOMAIN orders'
      BY <1>3, <3>4
    <3> QED
      BY <3>1, <3>4, <3>5 DEF InHand, Subscribe
  <2> QED
    BY <1>2, <1>7, <2>1, <2>2, <2>3, <2>4 DEF InHand
<1> QED
  BY <1>2, <1>5, <1>6, <1>7, CoverKeeps

\* A topic that is retained after it was found idle has its Subscribe on the way.
LEMMA UnsubscribeKeeps ==
    ASSUME InterestInv, Unsubscribe, UNCHANGED <<req, subs>>
    PROVE  InterestInv'
<1>1. InterestTypeOK'
  BY DEF InterestInv, InterestTypeOK, Unsubscribe, interest
<1>2. LinkOK'
  BY DEF InterestInv, LinkOK, Unsubscribe
<1>3. ASSUME NEW t \in Topics, Subscribed(t) \/ InHand(t)
      PROVE  Subscribed(t)' \/ InHand(t)'
  <2>1. CASE Subscribed(t)
    BY <2>1, NoTopicAssumption DEF Subscribed, Unsubscribe
  <2>2. CASE InHand(t)
    BY <2>2 DEF InHand, Unsubscribe, Subscribe
  <2> QED
    BY <1>3, <2>1, <2>2
<1> QED
  BY <1>1, <1>2, <1>3, CoverKeeps DEF Unsubscribe, interest

\* A lost connection is to be made again.
LEMMA OutageKeeps ==
    ASSUME InterestInv, Outage, UNCHANGED <<req, subs>>
    PROVE  InterestInv'
<1>1. InterestTypeOK'
  <2>1. outages' \in 0..MaxOutages
    BY OutagesAssumption DEF InterestInv, InterestTypeOK, Outage
  <2> QED
    BY <2>1 DEF InterestInv, InterestTypeOK, Outage, interest
<1>2. LinkOK'
  BY DEF LinkOK, Outage
<1>3. \A t \in Topics : InHand(t)'
  BY DEF InHand, Outage
<1> QED
  BY <1>1, <1>2, <1>3, CoverKeeps DEF Outage, interest

\* The end of a debounce adds a command.
LEMMA DebounceKeeps ==
    ASSUME InterestInv, NEW s \in Topics, DebounceEnds(s), UNCHANGED <<req, subs>>
    PROVE  InterestInv'
<1>1. /\ Order(UnsubscribeIfIdle(s)) /\ sleepers[s] > 0
      /\ sleepers' = [sleepers EXCEPT ![s] = @ - 1]
      /\ UNCHANGED <<desired, link, todo, active, idle, outages>>
  BY DEF DebounceEnds
<1>2. UnsubscribeIfIdle(s) \in [op : {"subscribe", "unsubscribe_if_idle"}, topic : Topics]
  BY DEF UnsubscribeIfIdle
<1>3. InterestTypeOK
  BY DEF InterestInv
<1>4. InterestTypeOK'
  <2>1. orders' \in Seq([op : {"subscribe", "unsubscribe_if_idle"}, topic : Topics])
    BY <1>1, <1>2, <1>3, OrderKeeps
  <2>2. sleepers' \in [Topics -> Nat]
    BY <1>1, <1>3 DEF InterestTypeOK
  <2> QED
    BY <1>1, <1>3, <2>1, <2>2 DEF InterestTypeOK
<1>5. LinkOK'
  BY <1>1 DEF InterestInv, LinkOK
<1>6. \A t \in Topics : InHand(t) => InHand(t)'
  BY <1>1, <1>2, <1>3, OrderKeeps
<1>7. \A t \in Topics : Subscribed(t)' = Subscribed(t)
  BY <1>1 DEF Subscribed
<1> QED
  BY <1>1, <1>4, <1>5, <1>6, <1>7, CoverKeeps

\* Every step keeps the invariant.
LEMMA InterestStep == InterestInv /\ [Next]_vars => InterestInv'
<1> SUFFICES ASSUME InterestInv, [Next]_vars
             PROVE  InterestInv'
  OBVIOUS
<1> USE DEF pubsub
<1>0. ReqsOK
  BY DEF InterestInv
<1>a. ASSUME UNCHANGED pubsub, ReqsOK' /\ SendersStay PROVE InterestInv'
  BY <1>a, UntouchedFalls, FallsKeeps
<1>b. ASSUME UNCHANGED <<pubsub, req>>, subs' \in [Slots -> Reqs \cup {NoReq}] PROVE InterestInv'
  BY <1>b, <1>0, <1>a, ReqsKept
<1>c. ASSUME UNCHANGED <<pubsub, req, subs>> PROVE InterestInv'
  BY <1>0, <1>b, <1>c DEF ReqsOK
<1>1. CASE UNCHANGED vars
  BY <1>1, <1>c DEF vars, registry
<1>2. CASE Subscriber
  BY <1>2, ConnectKeeps, SnapshotKeeps, TakeOrderKeeps, UnsubscribeKeeps
     DEF Subscriber, SubscriberStep, registry
<1>3. CASE Redis
  BY <1>3, OutageKeeps DEF Redis, registry
<1>4. CASE \E t \in Topics : Debounce(t)
  BY <1>4, DebounceKeeps DEF Debounce, registry
<1>5. ASSUME NEW c \in Conns, Client(c) PROVE InterestInv'
  <2>1. CASE Arrive(c) \/ Refuse(c) \/ \E s \in SlotsOf(c) : CloseRemove(s)
    BY <2>1, <1>0, <1>b DEF Arrive, Refuse, CloseRemove, TakeOut, registry, ReqsOK
  <2>2. ASSUME NEW s \in SlotsOf(c), NEW r \in Reqs, NEW t \in Topics, Req(r, s, t)
        PROVE  InterestInv'
    <3>1. s \in Slots
      BY DEF SlotsOf, Slots
    <3> QED
      BY <2>2, <3>1, <1>0, <1>a, ReqSpawned DEF Req
  <2> QED
    BY <1>5, <2>1, <2>2 DEF Client
<1>6. ASSUME NEW c \in Conns, ConnTask(c) PROVE InterestInv'
  BY <1>6, <1>0, <1>b DEF ConnTask, Admit, Open, EndConn, EndUnlist, EndDone, registry, ReqsOK
<1>7. CASE \E w \in Sweeps : FlagSweep(w) \/ Sweep(w)
  BY <1>7, <1>c DEF FlagSweep, Sweep, registry
<1>8. ASSUME NEW r \in Reqs, ReqTask(r) \/ ReqQueryFails(r) PROVE InterestInv'
  <2>1. CASE \/ ReqRemove(r) \/ ReqDrop(r) \/ ReqInsert(r) \/ ReqPush(r)
             \/ \E behind \in SUBSET Events : Page(r, behind)
             \/ ReqQueryFails(r)
    <3>1. UNCHANGED pubsub
      BY <2>1 DEF ReqRemove, ReqDrop, ReqInsert, ReqPush, Page, ReqQueryFails
    <3> QED
      BY <2>1, <3>1, <1>0, <1>a, HandlerSteps
  <2>2. CASE ReqRelease(r)
    <3>1. Falls
      BY <2>2, ReleaseFalls DEF ReqRelease
    <3> QED
      BY <2>2, <3>1, <1>0, HandlerSteps, FallsKeeps
  <2>3. CASE ReqRetain(r)
    BY <2>3, RetainKeeps
  <2>4. CASE ReqSend(r)
    BY <2>4, SendKeeps
  <2> QED
    BY <1>8, <2>1, <2>2, <2>3, <2>4, PageOfTask
<1>9. CASE Evictor
  BY <1>9, <1>0, <1>b DEF Evictor, Evict, EvictRemove, TakeOut, registry, ReqsOK
<1>10. ASSUME NEW k \in Takings, DropEmptied(k) \/ ReleaseTaken(k) PROVE InterestInv'
  <2>1. CASE DropEmptied(k)
    BY <2>1, <1>c DEF DropEmptied, registry
  <2>2. CASE ReleaseTaken(k)
    <3>1. Falls
      BY <2>2, ReleaseFalls DEF ReleaseTaken
    <3>2. ReqsOK' /\ SendersStay
      BY <2>2, <1>0, ReqsKept DEF ReleaseTaken, registry, ReqsOK
    <3> QED
      BY <3>1, <3>2, FallsKeeps
  <2> QED
    BY <1>10, <2>1, <2>2
<1>11. ASSUME NEW e \in Events, Dispatching(e) \/ PublishFails(e) \/ PublishUnanswered(e)
       PROVE  InterestInv'
  <2>1. CASE \/ \E t \in Topics, here \in BOOLEAN : Store(e, t, here)
             \/ PublishAnswered(e) \/ PublishFails(e) \/ PublishUnanswered(e)
    BY <2>1, <1>c DEF Store, PublishAnswered, PublishFails, PublishUnanswered, registry
  <2>2. CASE PublishElsewhere(e) \/ Publish(e)
    <3>1. Falls
      BY <2>2, ReceivedFalls DEF PublishElsewhere, Publish
    <3>2. ReqsOK' /\ SendersStay
      BY <2>2, <1>0, ReqsKept DEF PublishElsewhere, Publish, registry, ReqsOK
    <3> QED
      BY <3>1, <3>2, FallsKeeps
  <2> QED
    BY <1>11, <2>1, <2>2 DEF Dispatching
<1>12. CASE Consume
  <2>1. Falls
    BY <1>12, ReceivedFalls DEF Consume
  <2>2. ReqsOK' /\ SendersStay
    BY <1>12, <1>0, ReqsKept DEF Consume, registry, ReqsOK
  <2> QED
    BY <2>1, <2>2, FallsKeeps
<1>13. CASE \E f \in Fanouts : Send(f)
  BY <1>13, <1>c DEF Send, registry
<1> QED
  BY <1>1, <1>2, <1>3, <1>4, <1>5, <1>6, <1>7, <1>8, <1>9, <1>10, <1>11, <1>12, <1>13
     DEF Next, TakenStep, Failing

\* What a subscription of the pod wants is subscribed to at Redis, in the hands of
\* the subscriber task or of the handler that first wanted it, in every state.
THEOREM InterestNeverForgotten == Spec => []InterestCovered
<1>1. InterestInv => InterestCovered
  BY DEF InterestInv
<1> QED
  BY InterestInit, InterestStep, <1>1, PTL DEF Spec

-----------------------------------------------------------------------------
(***************************************************************************)
(* Sweeps                                                                  *)
(***************************************************************************)

\* Connections and sweeps have their types.
ConnsOK ==
    /\ conn \in [Conns -> ConnPhases]
    /\ sweep \in [Sweeps -> {"off", "flagged", "done"}]

\* The archival of a community has cancelled whoever is past the check already.
ArchivedOut ==
    \A c \in Conns : "archive" \in Sweeps /\ sweep["archive"] = "done"
                       /\ conn[c] = "registered" => c \in cancelled

SweepInv == ConnsOK /\ ArchivedOut /\ NoneOutlivesSweep

LEMMA SweepInit == Init => SweepInv
BY DEF Init, SweepInv, ConnsOK, ArchivedOut, NoneOutlivesSweep, ConnPhases

\* A step in which no connection comes to be registered or served, no token is
\* taken back and no sweep ends keeps what the sweeps achieved.
LEMMA QuietKeeps ==
    ASSUME SweepInv, ConnsOK', cancelled \subseteq cancelled',
           \A w \in Sweeps : sweep'[w] = "done" => sweep[w] = "done",
           \A c \in Conns : /\ conn'[c] = "open" => conn[c] = "open"
                            /\ conn'[c] = "registered" => conn[c] = "registered"
    PROVE  SweepInv'
BY DEF SweepInv, ArchivedOut, NoneOutlivesSweep

LEMMA SweepStep == SweepInv /\ [Next]_vars => SweepInv'
<1> SUFFICES ASSUME SweepInv, [Next]_vars
             PROVE  SweepInv'
  OBVIOUS
<1>0. ConnsOK
  BY DEF SweepInv
<1>a. ASSUME UNCHANGED <<conn, cancelled, sweep>> PROVE SweepInv'
  BY <1>a DEF SweepInv, ConnsOK, ArchivedOut, NoneOutlivesSweep
<1>1. CASE UNCHANGED vars
  BY <1>1, <1>a DEF vars, sockets
<1>2. CASE Subscriber \/ Redis \/ \E t \in Topics : Debounce(t)
  BY <1>2, <1>a DEF Subscriber, Redis, Debounce, sockets
<1>3. ASSUME NEW c \in Conns, Arrive(c) \/ Refuse(c) \/ EndConn(c) \/ EndDone(c)
      PROVE  SweepInv'
  <2>1. ConnsOK'
    BY <1>0, <1>3 DEF Arrive, Refuse, EndConn, EndDone, Goto, ConnsOK, ConnPhases
  <2> QED
    BY <1>0, <1>3, <2>1, QuietKeeps DEF Arrive, Refuse, EndConn, EndDone, Goto, ConnsOK
<1>4. ASSUME NEW s, CloseRemove(s) \/ EndUnlist(s) PROVE SweepInv'
  BY <1>4, <1>a DEF CloseRemove, EndUnlist, sockets
<1>5. ASSUME NEW c \in Conns, Admit(c) PROVE SweepInv'
  <2>1. ConnsOK'
    BY <1>0, <1>5 DEF Admit, Goto, ConnsOK, ConnPhases
  <2>2. ~On("archive") /\ UNCHANGED <<cancelled, sweep>> /\ conn' = [conn EXCEPT ![c] = "registered"]
    BY <1>5 DEF Admit, Goto
  <2>3. ArchivedOut'
    BY <2>2 DEF ArchivedOut, On
  <2>4. NoneOutlivesSweep'
    BY <1>0, <2>2 DEF SweepInv, NoneOutlivesSweep, ConnsOK
  <2> QED
    BY <2>1, <2>3, <2>4 DEF SweepInv
<1>6. ASSUME NEW c \in Conns, Open(c) PROVE SweepInv'
  <2>1. ConnsOK'
    BY <1>0, <1>6 DEF Open, Goto, ConnsOK, ConnPhases
  <2>2. /\ conn[c] = "registered" /\ sweep' = sweep /\ cancelled \subseteq cancelled'
        /\ conn' = [conn EXCEPT ![c] = "open"]
        /\ (On("drain") => c \in cancelled')
    BY <1>6 DEF Open, Goto
  <2>3. ArchivedOut'
    BY <1>0, <2>2 DEF SweepInv, ArchivedOut, ConnsOK
  <2>4. ASSUME NEW w \in Sweeps, NEW d \in Conns, sweep'[w] = "done", conn'[d] = "open"
        PROVE  d \in cancelled'
    <3>1. CASE d # c
      BY <1>0, <2>2, <2>4, <3>1 DEF SweepInv, NoneOutlivesSweep, ConnsOK
    <3>2. CASE d = c /\ w = "drain"
      BY <2>2, <2>4, <3>2 DEF On
    <3>3. CASE d = c /\ w = "archive"
      BY <2>2, <2>4, <3>3 DEF SweepInv, ArchivedOut
    <3> QED
      BY <3>1, <3>2, <3>3, PodAssumption
  <2> QED
    BY <2>1, <2>3, <2>4 DEF SweepInv, NoneOutlivesSweep
<1>7. CASE TakenStep \/ Evictor
  BY <1>7, <1>a DEF TakenStep, DropEmptied, ReleaseTaken, Evictor, Evict, EvictRemove, sockets
<1>8. ASSUME NEW w \in Sweeps, FlagSweep(w) PROVE SweepInv'
  <2>1. ConnsOK'
    BY <1>0, <1>8 DEF FlagSweep, ConnsOK
  <2> QED
    BY <1>0, <1>8, <2>1, QuietKeeps DEF FlagSweep, ConnsOK
<1>9. ASSUME NEW w \in Sweeps, Sweep(w) PROVE SweepInv'
  <2>1. ConnsOK'
    BY <1>0, <1>9 DEF Sweep, ConnsOK
  <2>2. /\ sweep' = [sweep EXCEPT ![w] = "done"] /\ conn' = conn
        /\ cancelled \subseteq cancelled'
        /\ \A c \in Conns : (IF w = "drain" THEN Managed(c) ELSE Bound(c)) => c \in cancelled'
    BY <1>9 DEF Sweep
  <2>3. \A c \in Conns : /\ conn[c] = "open" => Managed(c) /\ Bound(c)
                         /\ conn[c] = "registered" => Bound(c)
    BY DEF Managed, Bound
  <2>4. ArchivedOut'
    BY <1>0, <2>2, <2>3 DEF SweepInv, ArchivedOut, ConnsOK
  <2>5. ASSUME NEW v \in Sweeps, NEW c \in Conns, sweep'[v] = "done", conn'[c] = "open"
        PROVE  c \in cancelled'
    <3>1. CASE v = w
      BY <2>2, <2>3, <2>5, <3>1
    <3>2. CASE v # w
      BY <1>0, <2>2, <2>5, <3>2 DEF SweepInv, NoneOutlivesSweep, ConnsOK
    <3> QED
      BY <3>1, <3>2
  <2> QED
    BY <2>1, <2>4, <2>5 DEF SweepInv, NoneOutlivesSweep
<1>10. ASSUME NEW r \in Reqs, ReqTask(r) \/ ReqQueryFails(r) PROVE SweepInv'
  BY <1>10, <1>a, PageOfTask DEF ReqRemove, ReqDrop, ReqInsert, ReqPush, ReqRelease, ReqRetain,
                                 ReqSend, Page, ReqQueryFails, sockets
<1>11. ASSUME NEW r, NEW s, NEW t, Req(r, s, t) PROVE SweepInv'
  BY <1>11, <1>a DEF Req, sockets
<1>13. ASSUME NEW e \in Events, Dispatching(e) \/ PublishFails(e) \/ PublishUnanswered(e)
       PROVE  SweepInv'
  BY <1>13, <1>a DEF Dispatching, Store, PublishElsewhere, Publish, PublishAnswered, PublishFails,
                     PublishUnanswered, sockets
<1>14. CASE Consume \/ \E f \in Fanouts : Send(f)
  BY <1>14, <1>a DEF Consume, Send, sockets
<1> QED
  BY <1>1, <1>2, <1>3, <1>4, <1>5, <1>6, <1>7, <1>8, <1>9, <1>10, <1>11, <1>13, <1>14
     DEF Next, Client, ConnTask, Failing

\* No connection is served on after a drain or an archival has gone through the pod,
\* for any number of connections and any interleaving of admission and sweep.
THEOREM SweepsAreComplete == Spec => []NoneOutlivesSweep
<1>1. SweepInv => NoneOutlivesSweep
  BY DEF SweepInv
<1> QED
  BY SweepInit, SweepStep, <1>1, PTL DEF Spec

-----------------------------------------------------------------------------
(***************************************************************************)
(* The registry                                                            *)
(***************************************************************************)

\* Index, eviction and what was taken out have their types.
IndexOK ==
    /\ cancelled \subseteq Conns /\ hidden \subseteq Reqs
    /\ index \in [Topics -> SUBSET Slots]
    /\ taken \in [Takings -> [at : {"none", "listed", "emptied", "release"},
                              topic : Topics \cup {NoTopic}]]
    /\ eviction \in [todo : SUBSET Slots, count : 0..MaxEvictions]

\* A handler belongs to a connection that was opened, and knows what it replaced.
HandlersOK ==
    \A r \in Reqs : req[r].at # "idle" =>
        /\ conn[req[r].sub[1]] \in {"open", "ending", "gone"}
        /\ req[r].at = "remove" => req[r].old = NoTopic
        /\ req[r].at \in {"emptied", "release"} => req[r].old \in Topics

\* Whoever took a subscription out knows its topic. Only what the cleanup of its
\* connection took out is still listed.
TakenOK ==
    \A k \in Takings :
        /\ taken[k].at # "none" => taken[k].topic \in Topics
        /\ taken[k].at = "listed" => k[1] = "loop" /\ conn[k[2][1]] = "ending"

\* An entry is from a handler of its subscription that is past its insert.
EntriesOK ==
    \A s \in Slots : subs[s] # NoReq =>
        /\ req[subs[s]].sub = s
        /\ req[subs[s]].at \notin {"idle", "remove", "emptied", "insert"}

RegistryInv == IndexOK /\ HandlersOK /\ TakenOK /\ EntriesOK

LEMMA RegistryInit == Init => RegistryInv
BY PodAssumption
   DEF Init, RegistryInv, IndexOK, HandlersOK, TakenOK, EntriesOK, NewReq, NoReq, Untaken

\* Subscriptions and their connections.
LEMMA SlotConn == \A s \in Slots : s[1] \in Conns
BY DEF Slots

LEMMA SlotOf == \A c \in Conns : \A s \in SlotsOf(c) : s \in Slots /\ s[1] = c
BY DEF SlotsOf, Slots

LEMMA TakingOf ==
    /\ \A s \in Slots : <<"loop", s>> \in Takings /\ <<"evictor", s>> \in Takings
    /\ \A k \in Takings : k[1] \in {"loop", "evictor"} /\ k[2] \in Slots /\ k = <<k[1], k[2]>>
BY DEF Takings

\* The topic of an entry is a topic.
LEMMA EntryTopic ==
    ASSUME ReqsOK, EntriesOK, NEW s \in Slots, subs[s] # NoReq
    PROVE  subs[s] \in Reqs /\ TopicOf(s) \in Topics /\ TopicOf(s) = req[subs[s]].topic
BY DEF ReqsOK, EntriesOK, TopicOf

\* A step that leaves the registry's tasks and maps alone.
LEMMA RegistryKept ==
    ASSUME RegistryInv, UNCHANGED <<conn, cancelled, registry, req, eviction>>
    PROVE  RegistryInv'
BY DEF RegistryInv, IndexOK, HandlersOK, TakenOK, EntriesOK, registry

\* Steps of a connection's task that leave its subscriptions alone.
LEMMA ConnMoves ==
    ASSUME RegistryInv, ConnsOK, ReqsOK, NEW c \in Conns,
           Arrive(c) \/ Refuse(c) \/ Admit(c) \/ Open(c) \/ EndDone(c)
    PROVE  RegistryInv'
<1>1. /\ UNCHANGED <<registry, req, eviction>>
      /\ \A d \in Conns \ {c} : conn'[d] = conn[d]
      /\ conn[c] \in {"new", "checking", "registered"} \/ conn'[c] = "gone"
      /\ cancelled' \subseteq cancelled \cup {c}
  BY DEF Arrive, Refuse, Admit, Open, EndDone, Goto, ConnsOK
<1> USE DEF registry
<1>2. IndexOK'
  BY <1>1 DEF RegistryInv, IndexOK
<1>3. HandlersOK'
  BY <1>1, SlotConn DEF RegistryInv, HandlersOK, ReqsOK
<1>4. TakenOK'
  <2> SUFFICES ASSUME NEW k \in Takings, taken[k].at = "listed"
               PROVE  conn'[k[2][1]] = "ending"
    BY <1>1 DEF RegistryInv, TakenOK
  <2>1. k[1] = "loop" /\ conn[k[2][1]] = "ending" /\ k[2] \in Slots /\ k = <<"loop", k[2]>>
    BY TakingOf DEF RegistryInv, TakenOK
  <2>2. CASE k[2][1] # c
    BY <1>1, <2>1, <2>2, SlotConn
  <2>3. CASE k[2][1] = c
    <3>1. EndDone(c)
      BY <2>1, <2>3 DEF Arrive, Refuse, Admit, Open
    <3>2. k[2] \in SlotsOf(c)
      BY <2>1, <2>3 DEF SlotsOf, Slots
    <3>3. Busy(c)
      BY <2>1, <3>2 DEF Busy
    <3> QED
      BY <3>1, <3>3 DEF EndDone
  <2> QED
    BY <2>2, <2>3
<1>5. EntriesOK'
  BY <1>1 DEF RegistryInv, EntriesOK
<1> QED
  BY <1>2, <1>3, <1>4, <1>5 DEF RegistryInv

\* A subscription is taken out by CLOSE or by an eviction.
LEMMA TakeOutKeeps ==
    ASSUME RegistryInv, ReqsOK, NEW s \in Slots, NEW who \in {"loop", "evictor"},
           subs[s] # NoReq, TakeOut(who, s),
           UNCHANGED <<conn, cancelled, hidden, req>>,
           eviction' \in [todo : SUBSET Slots, count : 0..MaxEvictions]
    PROVE  RegistryInv'
<1> DEFINE k == <<who, s>>
           t == TopicOf(s)
           p == IF LeftEmpty(s, t) THEN "emptied" ELSE "release"
<1>1. /\ subs' = [subs EXCEPT ![s] = NoReq]
      /\ index' = [index EXCEPT ![t] = @ \ {s}]
      /\ taken' = [taken EXCEPT ![k] = [at |-> p, topic |-> t]]
  BY DEF TakeOut, Unlist, Take
<1>2. t \in Topics /\ k \in Takings
  BY EntryTopic, TakingOf DEF RegistryInv
<1>3. p \in {"emptied", "release"}
  OBVIOUS
<1> HIDE DEF k, t, p
<1>4. IndexOK'
  BY <1>1, <1>2, <1>3 DEF RegistryInv, IndexOK
<1>5. HandlersOK'
  BY DEF RegistryInv, HandlersOK
<1>6. TakenOK'
  BY <1>1, <1>2, <1>3 DEF RegistryInv, TakenOK, IndexOK
<1>7. EntriesOK'
  BY <1>1 DEF RegistryInv, EntriesOK, ReqsOK
<1> QED
  BY <1>4, <1>5, <1>6, <1>7 DEF RegistryInv

\* The key of an emptied entry goes.
LEMMA DropType ==
    ASSUME ReqsOK, IndexOK, EntriesOK, NEW t \in Topics, Drop(t)
    PROVE  index' \in [Topics -> SUBSET Slots] /\ hidden' \subseteq Reqs
<1>1. index' \in [Topics -> SUBSET Slots]
  BY DEF Drop, IndexOK
<1>2. ASSUME NEW s \in index[t], TopicOf(s) = t PROVE subs[s] \in Reqs
  <2>1. s \in Slots /\ subs[s] # NoReq
    BY <1>2, NoTopicAssumption DEF IndexOK, TopicOf
  <2> QED
    BY <2>1, EntryTopic
<1> QED
  BY <1>1, <1>2 DEF Drop, IndexOK

LEMMA DropEmptiedKeeps ==
    ASSUME RegistryInv, ReqsOK, NEW k \in Takings, DropEmptied(k)
    PROVE  RegistryInv'
<1>1. /\ taken[k].at = "emptied" /\ taken[k].topic \in Topics /\ Drop(taken[k].topic)
      /\ taken' = [taken EXCEPT ![k] = [at |-> "release", topic |-> taken[k].topic]]
      /\ UNCHANGED <<conn, cancelled, subs, req, eviction>>
  BY DEF DropEmptied, Take, RegistryInv, TakenOK, sockets
<1>2. index' \in [Topics -> SUBSET Slots] /\ hidden' \subseteq Reqs
  BY <1>1, DropType DEF RegistryInv
<1>3. IndexOK'
  BY <1>1, <1>2 DEF RegistryInv, IndexOK
<1>4. TakenOK'
  BY <1>1 DEF RegistryInv, IndexOK, TakenOK
<1> QED
  BY <1>1, <1>3, <1>4 DEF RegistryInv, HandlersOK, EntriesOK

LEMMA ReleaseTakenKeeps ==
    ASSUME RegistryInv, NEW k \in Takings, ReleaseTaken(k)
    PROVE  RegistryInv'
<1>1. taken' = [taken EXCEPT ![k] = Untaken]
      /\ UNCHANGED <<conn, cancelled, subs, index, hidden, req, eviction>>
  BY DEF ReleaseTaken, sockets
<1> QED
  BY <1>1 DEF RegistryInv, IndexOK, TakenOK, Untaken, HandlersOK, EntriesOK

\* The cleanup takes all subscriptions of its connection.
LEMMA EndConnKeeps ==
    ASSUME RegistryInv, ConnsOK, ReqsOK, NEW c \in Conns, EndConn(c)
    PROVE  RegistryInv'
<1>1. /\ conn[c] = "open" /\ conn' = [conn EXCEPT ![c] = "ending"]
      /\ cancelled' = cancelled \cup {c}
      /\ subs' = [s \in Slots |-> IF s[1] = c THEN NoReq ELSE subs[s]]
      /\ taken' = [k \in Takings |->
                      IF k[1] = "loop" /\ k[2][1] = c /\ subs[k[2]] # NoReq
                        THEN [at |-> "listed", topic |-> TopicOf(k[2])] ELSE taken[k]]
      /\ UNCHANGED <<index, hidden, req, eviction>>
  BY DEF EndConn, Goto
<1>2. \A k \in Takings : subs[k[2]] # NoReq => TopicOf(k[2]) \in Topics
  BY TakingOf, EntryTopic DEF RegistryInv
<1>3. \A d \in Conns : conn'[d] = IF d = c THEN "ending" ELSE conn[d]
  BY <1>1 DEF ConnsOK
<1>4. \A k \in Takings : taken'[k] = IF k[1] = "loop" /\ k[2][1] = c /\ subs[k[2]] # NoReq
                                       THEN [at |-> "listed", topic |-> TopicOf(k[2])] ELSE taken[k]
  BY <1>1
<1>5. taken' \in [Takings -> [at : {"none", "listed", "emptied", "release"},
                              topic : Topics \cup {NoTopic}]]
  <2>1. ASSUME NEW k \in Takings
        PROVE  taken'[k] \in [at : {"none", "listed", "emptied", "release"}, topic : Topics \cup {NoTopic}]
    <3>1. taken[k] \in [at : {"none", "listed", "emptied", "release"}, topic : Topics \cup {NoTopic}]
      BY DEF RegistryInv, IndexOK
    <3>2. CASE k[1] = "loop" /\ k[2][1] = c /\ subs[k[2]] # NoReq
      <4> DEFINE t == TopicOf(k[2])
      <4>1. t \in Topics
        BY <1>2, <3>2
      <4>2. taken'[k] = [at |-> "listed", topic |-> t]
        BY <1>4, <3>2
      <4> HIDE DEF t
      <4> QED
        BY <4>1, <4>2
    <3> QED
      BY <1>4, <3>1, <3>2
  <2> QED
    BY <1>1, <2>1
<1>6. IndexOK'
  BY <1>1, <1>5 DEF RegistryInv, IndexOK
<1>7. HandlersOK'
  BY <1>1, <1>3, SlotConn DEF RegistryInv, HandlersOK, ReqsOK
<1>8. TakenOK'
  <2>1. ASSUME NEW k \in Takings
        PROVE  /\ taken'[k].at # "none" => taken'[k].topic \in Topics
               /\ taken'[k].at = "listed" => k[1] = "loop" /\ conn'[k[2][1]] = "ending"
    <3>1. k[2][1] \in Conns
      BY TakingOf, SlotConn
    <3>2. CASE k[1] = "loop" /\ k[2][1] = c /\ subs[k[2]] # NoReq
      <4>1. taken'[k] = [at |-> "listed", topic |-> TopicOf(k[2])]
        BY <1>4, <3>2
      <4> QED
        BY <1>2, <1>3, <3>1, <3>2, <4>1
    <3>3. CASE ~(k[1] = "loop" /\ k[2][1] = c /\ subs[k[2]] # NoReq)
      <4>1. taken'[k] = taken[k]
        BY <1>4, <3>3
      <4> QED
        BY <1>3, <3>1, <4>1 DEF RegistryInv, TakenOK
    <3> QED
      BY <3>2, <3>3
  <2> QED
    BY <2>1 DEF TakenOK
<1>9. EntriesOK'
  BY <1>1 DEF RegistryInv, EntriesOK
<1> QED
  BY <1>6, <1>7, <1>8, <1>9 DEF RegistryInv

LEMMA EndUnlistKeeps ==
    ASSUME RegistryInv, NEW s \in Slots, EndUnlist(s)
    PROVE  RegistryInv'
<1> DEFINE k == <<"loop", s>>
           t == taken[k].topic
           p == IF LeftEmpty(s, t) THEN "emptied" ELSE "release"
<1>1. /\ taken[k].at = "listed"
      /\ index' = [index EXCEPT ![t] = @ \ {s}]
      /\ taken' = [taken EXCEPT ![k] = [at |-> p, topic |-> t]]
      /\ UNCHANGED <<conn, cancelled, subs, hidden, req, eviction>>
  BY DEF EndUnlist, Unlist, Take, sockets
<1>2. k \in Takings
  BY TakingOf
<1>3. t \in Topics
  BY <1>1, <1>2 DEF RegistryInv, TakenOK
<1>4. p \in {"emptied", "release"}
  OBVIOUS
<1> HIDE DEF k, t, p
<1>5. IndexOK'
  BY <1>1, <1>2, <1>3, <1>4 DEF RegistryInv, IndexOK
<1>6. TakenOK'
  BY <1>1, <1>2, <1>3, <1>4 DEF RegistryInv, TakenOK, IndexOK
<1> QED
  BY <1>1, <1>5, <1>6 DEF RegistryInv, HandlersOK, EntriesOK

\* An eviction.
LEMMA EvictionKeeps ==
    ASSUME RegistryInv, ReqsOK, Evictor
    PROVE  RegistryInv'
<1>1. ASSUME NEW c \in Conns, NEW t \in Topics, Evict(c, t) PROVE RegistryInv'
  <2> DEFINE ids == {s \in SlotsOf(c) : TopicOf(s) = t}
  <2>1. /\ eviction' = [todo |-> ids, count |-> eviction.count + 1]
        /\ eviction.count < MaxEvictions
        /\ UNCHANGED <<conn, cancelled, registry, req>>
    BY <1>1 DEF Evict, sockets
  <2>2. ids \in SUBSET Slots
    BY SlotOf
  <2>3. eviction.count + 1 \in 0..MaxEvictions
    BY <2>1, PodAssumption DEF RegistryInv, IndexOK
  <2> HIDE DEF ids
  <2> QED
    BY <2>1, <2>2, <2>3 DEF RegistryInv, IndexOK, HandlersOK, TakenOK, EntriesOK, registry
<1>2. ASSUME NEW s \in Slots, EvictRemove(s) PROVE RegistryInv'
  <2>1. /\ UNCHANGED <<conn, cancelled, hidden, req>>
        /\ eviction' \in [todo : SUBSET Slots, count : 0..MaxEvictions]
    BY <1>2 DEF EvictRemove, sockets, RegistryInv, IndexOK
  <2>2. CASE subs[s] = NoReq
    <3>1. UNCHANGED <<subs, index, taken>>
      BY <1>2, <2>2 DEF EvictRemove
    <3> QED
      BY <2>1, <3>1 DEF RegistryInv, IndexOK, HandlersOK, TakenOK, EntriesOK
  <2>3. CASE subs[s] # NoReq
    <3>1. TakeOut("evictor", s)
      BY <1>2, <2>3 DEF EvictRemove
    <3> QED
      BY <2>1, <2>3, <3>1, TakeOutKeeps
  <2> QED
    BY <2>2, <2>3
<1> QED
  BY <1>1, <1>2 DEF Evictor

\* CLOSE.
LEMMA CloseKeeps ==
    ASSUME RegistryInv, ReqsOK, NEW s \in Slots, CloseRemove(s)
    PROVE  RegistryInv'
<1>1. /\ subs[s] # NoReq /\ TakeOut("loop", s)
      /\ UNCHANGED <<conn, cancelled, hidden, req>>
      /\ eviction' \in [todo : SUBSET Slots, count : 0..MaxEvictions]
  BY DEF CloseRemove, sockets, RegistryInv, IndexOK
<1> QED
  BY <1>1, TakeOutKeeps

\* A step of handler r alone: its subscription and its topic stay.
Moves(r, from, to) ==
    /\ req[r].at \in from /\ req'[r].at \in to
    /\ req'[r].sub = req[r].sub /\ req'[r].topic = req[r].topic
    /\ \A q \in Reqs \ {r} : req'[q] = req[q]

Settling == {"release", "retain", "send", "query", "done", "failed"}

\* What a step of a handler leaves alone.
LEMMA HandlerOnly ==
    ASSUME ReqsOK, NEW r \in Reqs, ReqTask(r) \/ ReqQueryFails(r)
    PROVE  /\ req[r].at # "idle" /\ req[r].sub \in Slots /\ req[r].topic \in Topics
           /\ UNCHANGED <<conn, cancelled, taken, eviction>>
<1>1. CASE ReqQueryFails(r)
  BY <1>1 DEF ReqQueryFails, sockets, registry, ReqsOK
<1>2. CASE ReqTask(r)
  <2>1. req[r].at # "idle" /\ UNCHANGED <<conn, cancelled, taken, eviction>>
    BY <1>2, PageOfTask DEF ReqRemove, ReqDrop, ReqInsert, ReqPush, ReqRelease, ReqRetain, ReqSend,
                            Page, sockets, registry
  <2> QED
    BY <2>1 DEF ReqsOK
<1> QED
  BY <1>1, <1>2

\* ... and how it moves on.
LEMMA HandlerMoves ==
    ASSUME ReqsOK, NEW r \in Reqs
    PROVE  /\ ReqRemove(r) /\ subs[req[r].sub] = NoReq =>
                Moves(r, {"remove"}, {"insert"}) /\ req'[r].old = req[r].old /\ UNCHANGED <<subs, index, hidden>>
           /\ ReqRemove(r) /\ subs[req[r].sub] # NoReq =>
                /\ Moves(r, {"remove"}, {"emptied", "insert"}) /\ req'[r].old = TopicOf(req[r].sub)
                /\ subs' = [subs EXCEPT ![req[r].sub] = NoReq] /\ hidden' = hidden
                /\ index' = [index EXCEPT ![TopicOf(req[r].sub)] = @ \ {req[r].sub}]
           /\ ReqDrop(r) =>
                Moves(r, {"emptied"}, {"insert"}) /\ req'[r].old = req[r].old /\ subs' = subs
           /\ ReqInsert(r) =>
                /\ Moves(r, {"insert"}, {"push"}) /\ req'[r].old = req[r].old
                /\ subs' = [subs EXCEPT ![req[r].sub] = r] /\ UNCHANGED <<index, hidden>>
           /\ ReqPush(r) =>
                /\ Moves(r, {"push"}, {"release", "retain"}) /\ req'[r].old = req[r].old
                /\ req'[r].at = "release" => req[r].old # NoTopic
                /\ req'[r].early = Matched
                /\ index' = [index EXCEPT ![req[r].topic] = @ \cup {req[r].sub}]
                /\ UNCHANGED <<subs, hidden>>
           /\ ReqRelease(r) =>
                Moves(r, {"release"}, {"retain"}) /\ UNCHANGED <<subs, index, hidden>>
           /\ ReqRetain(r) \/ ReqSend(r) =>
                Moves(r, {"retain", "send"}, {"send", "query"}) /\ UNCHANGED <<subs, index, hidden>>
           /\ (\E behind \in SUBSET Events : Page(r, behind)) \/ ReqQueryFails(r) =>
                Moves(r, {"query"}, {"done", "failed"}) /\ UNCHANGED <<subs, index, hidden>>
<1>a. req \in [Reqs -> ReqType] /\ subs \in [Slots -> Reqs \cup {NoReq}]
  BY DEF ReqsOK
<1>1. ASSUME ReqRemove(r), subs[req[r].sub] = NoReq
      PROVE  Moves(r, {"remove"}, {"insert"}) /\ req'[r].old = req[r].old /\ UNCHANGED <<subs, index, hidden>>
  BY <1>a, <1>1 DEF ReqRemove, Step, Moves, ReqType
<1>2. ASSUME ReqRemove(r), subs[req[r].sub] # NoReq
      PROVE  /\ Moves(r, {"remove"}, {"emptied", "insert"}) /\ req'[r].old = TopicOf(req[r].sub)
             /\ subs' = [subs EXCEPT ![req[r].sub] = NoReq] /\ hidden' = hidden
             /\ index' = [index EXCEPT ![TopicOf(req[r].sub)] = @ \ {req[r].sub}]
  <2>1. PICK p \in {"emptied", "insert"} : req' = [req EXCEPT ![r].at = p, ![r].old = TopicOf(req[r].sub)]
    BY <1>2 DEF ReqRemove
  <2>2. req[r].at = "remove"
    BY <1>2 DEF ReqRemove
  <2>3. Moves(r, {"remove"}, {"emptied", "insert"}) /\ req'[r].old = TopicOf(req[r].sub)
    BY <1>a, <2>1, <2>2 DEF Moves, ReqType
  <2> QED
    BY <1>2, <2>3 DEF ReqRemove, Unlist
<1>3. ASSUME ReqDrop(r)
      PROVE  Moves(r, {"emptied"}, {"insert"}) /\ req'[r].old = req[r].old /\ subs' = subs
  BY <1>a, <1>3 DEF ReqDrop, Step, Moves, ReqType
<1>4. ASSUME ReqInsert(r)
      PROVE  /\ Moves(r, {"insert"}, {"push"}) /\ req'[r].old = req[r].old
             /\ subs' = [subs EXCEPT ![req[r].sub] = r] /\ UNCHANGED <<index, hidden>>
  BY <1>a, <1>4 DEF ReqInsert, Step, Moves, ReqType
<1>5. ASSUME ReqPush(r)
      PROVE  /\ Moves(r, {"push"}, {"release", "retain"}) /\ req'[r].old = req[r].old
             /\ req'[r].at = "release" => req[r].old # NoTopic
             /\ req'[r].early = Matched
             /\ index' = [index EXCEPT ![req[r].topic] = @ \cup {req[r].sub}]
             /\ UNCHANGED <<subs, hidden>>
  <2>1. PICK p \in {"release", "retain"} : /\ req' = [req EXCEPT ![r].at = p, ![r].early = Matched]
                                           /\ p = "release" => req[r].old # NoTopic
    BY <1>5 DEF ReqPush, Listed
  <2>2. /\ Moves(r, {"push"}, {"release", "retain"}) /\ req'[r].old = req[r].old
        /\ req'[r].at = "release" => req[r].old # NoTopic
        /\ req'[r].early = Matched
    BY <1>a, <1>5, <2>1 DEF Moves, ReqType, ReqPush
  <2> QED
    BY <1>5, <2>2 DEF ReqPush
<1>6. ASSUME ReqRelease(r)
      PROVE  Moves(r, {"release"}, {"retain"}) /\ UNCHANGED <<subs, index, hidden>>
  BY <1>a, <1>6 DEF ReqRelease, Moves, ReqType, registry
<1>7. ASSUME ReqRetain(r) \/ ReqSend(r)
      PROVE  Moves(r, {"retain", "send"}, {"send", "query"}) /\ UNCHANGED <<subs, index, hidden>>
  BY <1>a, <1>7 DEF ReqRetain, ReqSend, Step, Moves, ReqType, registry
<1>8. ASSUME (\E behind \in SUBSET Events : Page(r, behind)) \/ ReqQueryFails(r)
      PROVE  Moves(r, {"query"}, {"done", "failed"}) /\ UNCHANGED <<subs, index, hidden>>
  <2>1. ASSUME NEW behind \in SUBSET Events, Page(r, behind)
        PROVE  Moves(r, {"query"}, {"done"}) /\ UNCHANGED <<subs, index, hidden>>
    <3> DEFINE seen == Stored(req[r].topic) \ behind
    <3>1. /\ req' = [req EXCEPT ![r].at = "done", ![r].behind = behind, ![r].seen = seen]
          /\ req[r].at = "query" /\ UNCHANGED <<subs, index, hidden>>
      BY <2>1 DEF Page, registry
    <3> HIDE DEF seen
    <3> QED
      BY <1>a, <3>1 DEF Moves, ReqType
  <2>2. ASSUME ReqQueryFails(r)
        PROVE  Moves(r, {"query"}, {"failed"}) /\ UNCHANGED <<subs, index, hidden>>
    BY <1>a, <2>2 DEF ReqQueryFails, Step, Moves, ReqType, registry
  <2> QED
    BY <1>8, <2>1, <2>2 DEF Moves
<1> QED
  BY <1>1, <1>2, <1>3, <1>4, <1>5, <1>6, <1>7, <1>8

LEMMA HandlerKeeps ==
    ASSUME RegistryInv, ReqsOK, NEW r \in Reqs, ReqTask(r) \/ ReqQueryFails(r)
    PROVE  RegistryInv'
<1>0. /\ req[r].at # "idle" /\ req[r].sub \in Slots /\ req[r].topic \in Topics
      /\ UNCHANGED <<conn, cancelled, taken, eviction>>
  BY HandlerOnly
<1>a. TakenOK'
  BY <1>0 DEF RegistryInv, TakenOK
<1>b. ASSUME index' \in [Topics -> SUBSET Slots], hidden' \subseteq Reqs PROVE IndexOK'
  BY <1>0, <1>b DEF RegistryInv, IndexOK
<1>c. index \in [Topics -> SUBSET Slots] /\ hidden \subseteq Reqs
      /\ subs \in [Slots -> Reqs \cup {NoReq}]
  BY DEF RegistryInv, IndexOK, ReqsOK
<1>1. CASE ReqRemove(r)
  <2>1. CASE subs[req[r].sub] = NoReq
    <3>1. /\ Moves(r, {"remove"}, {"insert"}) /\ UNCHANGED <<subs, index, hidden>>
      BY <1>1, <2>1, HandlerMoves
    <3>2. IndexOK'
      BY <1>b, <1>c, <3>1
    <3>3. HandlersOK' /\ EntriesOK'
      BY <1>0, <1>c, <3>1 DEF Moves, RegistryInv, HandlersOK, EntriesOK
    <3> QED
      BY <1>a, <3>2, <3>3 DEF RegistryInv
  <2>2. CASE subs[req[r].sub] # NoReq
    <3>0. TopicOf(req[r].sub) \in Topics
      BY <1>0, <2>2, EntryTopic DEF RegistryInv
    <3>1. /\ Moves(r, {"remove"}, {"emptied", "insert"}) /\ req'[r].old \in Topics
          /\ subs' = [subs EXCEPT ![req[r].sub] = NoReq] /\ hidden' = hidden
          /\ index' \in [Topics -> SUBSET Slots]
      BY <1>1, <1>c, <2>2, <3>0, HandlerMoves
    <3>2. IndexOK'
      BY <1>b, <1>c, <3>1
    <3>3. HandlersOK' /\ EntriesOK'
      BY <1>0, <1>c, <3>1 DEF Moves, RegistryInv, HandlersOK, EntriesOK
    <3> QED
      BY <1>a, <3>2, <3>3 DEF RegistryInv
  <2> QED
    BY <2>1, <2>2
<1>2. CASE ReqDrop(r)
  <2>0. req[r].old \in Topics /\ Drop(req[r].old)
    BY <1>2 DEF ReqDrop, RegistryInv, HandlersOK
  <2>1. /\ Moves(r, {"emptied"}, {"insert"}) /\ UNCHANGED subs
    BY <1>2, HandlerMoves
  <2>2. IndexOK'
    BY <1>b, <2>0, DropType DEF RegistryInv
  <2>3. HandlersOK' /\ EntriesOK'
    BY <1>0, <1>c, <2>1 DEF Moves, RegistryInv, HandlersOK, EntriesOK
  <2> QED
    BY <1>a, <2>2, <2>3 DEF RegistryInv
<1>3. CASE ReqInsert(r)
  <2>1. /\ Moves(r, {"insert"}, {"push"}) /\ UNCHANGED <<index, hidden>>
        /\ subs' = [subs EXCEPT ![req[r].sub] = r]
    BY <1>3, HandlerMoves
  <2>2. IndexOK'
    BY <1>b, <1>c, <2>1
  <2>3. HandlersOK' /\ EntriesOK'
    BY <1>0, <1>c, <2>1 DEF Moves, RegistryInv, HandlersOK, EntriesOK
  <2> QED
    BY <1>a, <2>2, <2>3 DEF RegistryInv
<1>4. CASE ReqPush(r)
  <2>1. /\ Moves(r, {"push"}, {"retain", "release"}) /\ UNCHANGED <<subs, hidden>>
        /\ req'[r].at = "release" => req'[r].old \in Topics
        /\ index' \in [Topics -> SUBSET Slots]
    <3>1. req[r].old \in Topics \cup {NoTopic}
      BY DEF ReqsOK, ReqType
    <3> QED
      BY <1>0, <1>4, <1>c, <3>1, HandlerMoves DEF Moves
  <2>2. IndexOK'
    BY <1>b, <1>c, <2>1
  <2>3. HandlersOK' /\ EntriesOK'
    BY <1>0, <1>c, <2>1 DEF Moves, RegistryInv, HandlersOK, EntriesOK
  <2> QED
    BY <1>a, <2>2, <2>3 DEF RegistryInv
<1>5. CASE \/ ReqRelease(r) \/ ReqRetain(r) \/ ReqSend(r)
           \/ (\E behind \in SUBSET Events : Page(r, behind)) \/ ReqQueryFails(r)
  <2>1. /\ Moves(r, Settling, Settling \ {"release"}) /\ UNCHANGED <<subs, index, hidden>>
    BY <1>5, HandlerMoves DEF Moves, Settling
  <2>2. IndexOK'
    BY <1>b, <1>c, <2>1
  <2>3. HandlersOK' /\ EntriesOK'
    BY <1>0, <1>c, <2>1 DEF Moves, RegistryInv, HandlersOK, EntriesOK, Settling
  <2> QED
    BY <1>a, <2>2, <2>3 DEF RegistryInv
<1> QED
  BY <1>1, <1>2, <1>3, <1>4, <1>5, PageOfTask

\* A handler that is spawned.
LEMMA SpawnKeeps ==
    ASSUME RegistryInv, ReqsOK, NEW r \in Reqs, NEW s \in Slots, NEW t \in Topics, Req(r, s, t)
    PROVE  RegistryInv'
<1>1. /\ req[r].at = "idle" /\ conn[s[1]] = "open"
      /\ req'[r].at = "remove" /\ req'[r].sub = s /\ req'[r].old = NoTopic
      /\ \A q \in Reqs \ {r} : req'[q] = req[q]
      /\ UNCHANGED <<conn, cancelled, registry, eviction>>
  BY DEF Req, ReqsOK, ReqType, NewReq, sockets
<1>2. IndexOK' /\ TakenOK'
  BY <1>1 DEF RegistryInv, IndexOK, TakenOK, registry
<1>3. HandlersOK'
  BY <1>1 DEF RegistryInv, HandlersOK
<1>4. EntriesOK'
  BY <1>1 DEF RegistryInv, EntriesOK, ReqsOK, registry
<1> QED
  BY <1>2, <1>3, <1>4 DEF RegistryInv

\* Every step keeps the invariant of the registry.
LEMMA RegistryStep == RegistryInv /\ ConnsOK /\ ReqsOK /\ [Next]_vars => RegistryInv'
<1> SUFFICES ASSUME RegistryInv, ConnsOK, ReqsOK, [Next]_vars
             PROVE  RegistryInv'
  OBVIOUS
<1>1. CASE UNCHANGED vars
  BY <1>1, RegistryKept DEF vars, sockets
<1>2. CASE Subscriber \/ Redis \/ \E t \in Topics : Debounce(t)
  BY <1>2, RegistryKept DEF Subscriber, Redis, Debounce, sockets
<1>3. ASSUME NEW c \in Conns, Client(c) \/ ConnTask(c) PROVE RegistryInv'
  BY <1>3, ConnMoves, CloseKeeps, EndConnKeeps, EndUnlistKeeps, SpawnKeeps, SlotOf DEF Client, ConnTask
<1>4. ASSUME NEW w \in Sweeps, FlagSweep(w) \/ Sweep(w) PROVE RegistryInv'
  <2>1. UNCHANGED <<conn, registry, req, eviction>> /\ cancelled' \subseteq Conns
    BY <1>4 DEF FlagSweep, Sweep, RegistryInv, IndexOK
  <2> QED
    BY <2>1 DEF RegistryInv, IndexOK, HandlersOK, TakenOK, EntriesOK, registry
<1>5. CASE \E r \in Reqs : ReqTask(r) \/ ReqQueryFails(r)
  BY <1>5, HandlerKeeps
<1>6. CASE TakenStep \/ Evictor
  BY <1>6, DropEmptiedKeeps, ReleaseTakenKeeps, EvictionKeeps DEF TakenStep
<1>7. CASE \E e \in Events : Dispatching(e) \/ PublishFails(e) \/ PublishUnanswered(e)
  BY <1>7, RegistryKept DEF Dispatching, Store, PublishElsewhere, Publish, PublishAnswered,
                            PublishFails, PublishUnanswered, sockets
<1>8. CASE Consume \/ \E f \in Fanouts : Send(f)
  BY <1>8, RegistryKept DEF Consume, Send, sockets
<1> QED
  BY <1>1, <1>2, <1>3, <1>4, <1>5, <1>6, <1>7, <1>8 DEF Next, Failing

-----------------------------------------------------------------------------
(***************************************************************************)
(* Counting                                                                *)
(***************************************************************************)

\* A set that loses the elements of D for good, or gains at most those of U.
LEMMA CardLess ==
    ASSUME NEW S, NEW T, NEW D, IsFiniteSet(S), D \subseteq S, T \subseteq S \ D
    PROVE  /\ IsFiniteSet(T) /\ IsFiniteSet(D)
           /\ Cardinality(T) \in Nat /\ Cardinality(S) \in Nat /\ Cardinality(D) \in Nat
           /\ Cardinality(T) + Cardinality(D) <= Cardinality(S)
<1>1. IsFiniteSet(S \ D) /\ Cardinality(S \ D) = Cardinality(S) - Cardinality(S \cap D)
  BY FS_Difference
<1>2. Cardinality(S \cap D) = Cardinality(D)
  <2>1. S \cap D = D
    OBVIOUS
  <2> QED
    BY <2>1
<1>3. IsFiniteSet(D) /\ IsFiniteSet(T) /\ Cardinality(T) <= Cardinality(S \ D)
  BY <1>1, FS_Subset
<1>4. Cardinality(T) \in Nat /\ Cardinality(S) \in Nat /\ Cardinality(D) \in Nat
  BY <1>3, FS_CardinalityType
<1> QED
  BY <1>1, <1>2, <1>3, <1>4

LEMMA CardMore ==
    ASSUME NEW S, NEW T, NEW U, IsFiniteSet(S), IsFiniteSet(U), T \subseteq S \cup U
    PROVE  /\ IsFiniteSet(T)
           /\ Cardinality(T) \in Nat /\ Cardinality(S) \in Nat /\ Cardinality(U) \in Nat
           /\ Cardinality(T) <= Cardinality(S) + Cardinality(U)
<1>1. /\ IsFiniteSet(S \cup U)
      /\ Cardinality(S \cup U) = Cardinality(S) + Cardinality(U) - Cardinality(S \cap U)
  BY FS_Union
<1>2. IsFiniteSet(T) /\ Cardinality(T) <= Cardinality(S \cup U)
  BY <1>1, FS_Subset
<1>3. IsFiniteSet(S \cap U)
  BY FS_Subset
<1>4. /\ Cardinality(T) \in Nat /\ Cardinality(S) \in Nat /\ Cardinality(U) \in Nat
      /\ Cardinality(S \cap U) \in Nat
  BY <1>2, <1>3, FS_CardinalityType
<1> QED
  BY <1>1, <1>2, <1>4

LEMMA CardOne == \A x : IsFiniteSet({x}) /\ Cardinality({x}) = 1
BY FS_Singleton

\* As many takings of one task as it takes subscriptions.
LEMMA CardTakings ==
    ASSUME NEW who, NEW D, IsFiniteSet(D)
    PROVE  IsFiniteSet({who} \X D) /\ Cardinality({who} \X D) = Cardinality(D)
<1>1. IsFiniteSet({who}) /\ Cardinality({who}) = 1
  BY CardOne
<1>2. IsFiniteSet({who} \X D) /\ Cardinality({who} \X D) = Cardinality({who}) * Cardinality(D)
  BY <1>1, FS_Product
<1>3. Cardinality(D) \in Nat
  BY FS_CardinalityType
<1> QED
  BY <1>1, <1>2, <1>3

\* The parts of ReleasesDue: handlers, and what was taken out.
Replacing(t) ==
    {r \in Reqs : req[r].at \in {"emptied", "insert", "push", "release"} /\ req[r].old = t}

Leaving(t) == {k \in Takings : taken[k].at # "none" /\ taken[k].topic = t}

Counted(t) ==
    desired[t] + Cardinality(RetainsDue(t))
        >= Cardinality(Registered(t)) + (Cardinality(Replacing(t)) + Cardinality(Leaving(t)))

LEMMA CountedParts ==
    /\ InterestCounted <=> \A t \in Topics : Counted(t)
    /\ InterestCounted' <=> \A t \in Topics : Counted(t)'
BY DEF InterestCounted, ReleasesDue, Counted, Replacing, Leaving

\* What is counted is finite.
Finite(t) ==
    /\ IsFiniteSet(RetainsDue(t)) /\ IsFiniteSet(Registered(t))
    /\ IsFiniteSet(Replacing(t)) /\ IsFiniteSet(Leaving(t))

LEMMA CountsFinite == \A t : Finite(t) /\ Finite(t)'
<1> SUFFICES ASSUME NEW t PROVE Finite(t) /\ Finite(t)'
  OBVIOUS
<1>1. IsFiniteSet(Reqs) /\ IsFiniteSet(Slots)
  <2>1. IsFiniteSet(Reqs)
    BY PodAssumption, FS_Interval DEF Reqs
  <2>2. IsFiniteSet(Conns) /\ IsFiniteSet(SubIds)
    BY PodAssumption
  <2>3. IsFiniteSet(Conns \X SubIds)
    BY <2>2, FS_Product
  <2> QED
    BY <2>1, <2>3 DEF Slots
<1>2. IsFiniteSet(Takings)
  <2>1. IsFiniteSet({"loop"}) /\ IsFiniteSet({"evictor"})
    BY CardOne
  <2>2. IsFiniteSet({"loop"} \cup {"evictor"})
    BY <2>1, FS_Union
  <2>3. {"loop", "evictor"} = {"loop"} \cup {"evictor"}
    OBVIOUS
  <2> QED
    BY <1>1, <2>2, <2>3, FS_Product DEF Takings
<1>3. /\ RetainsDue(t) \in SUBSET Reqs /\ RetainsDue(t)' \in SUBSET Reqs
      /\ Replacing(t) \in SUBSET Reqs /\ Replacing(t)' \in SUBSET Reqs
      /\ Registered(t) \in SUBSET Slots /\ Registered(t)' \in SUBSET Slots
      /\ Leaving(t) \in SUBSET Takings /\ Leaving(t)' \in SUBSET Takings
  BY DEF RetainsDue, Replacing, Registered, Leaving
<1> QED
  BY <1>1, <1>2, <1>3, FS_Subset DEF Finite

\* Cardinalities of what is counted, before and after a step.
LEMMA CountsNat ==
    ASSUME NEW t
    PROVE  /\ Cardinality(RetainsDue(t)) \in Nat /\ Cardinality(RetainsDue(t))' \in Nat
           /\ Cardinality(Registered(t)) \in Nat /\ Cardinality(Registered(t))' \in Nat
           /\ Cardinality(Replacing(t)) \in Nat /\ Cardinality(Replacing(t))' \in Nat
           /\ Cardinality(Leaving(t)) \in Nat /\ Cardinality(Leaving(t))' \in Nat
<1>1. Finite(t) /\ Finite(t)'
  BY CountsFinite
<1>2. \A S : IsFiniteSet(S) => Cardinality(S) \in Nat
  BY FS_CardinalityType
<1> QED
  BY <1>1, <1>2 DEF Finite

\* A part that does not grow.
LEMMA CardMonotone ==
    ASSUME NEW t
    PROVE  /\ RetainsDue(t) \subseteq RetainsDue(t)'
                => Cardinality(RetainsDue(t)) <= Cardinality(RetainsDue(t))'
           /\ Registered(t)' \subseteq Registered(t)
                => Cardinality(Registered(t))' <= Cardinality(Registered(t))
           /\ Replacing(t)' \subseteq Replacing(t)
                => Cardinality(Replacing(t))' <= Cardinality(Replacing(t))
           /\ Leaving(t)' \subseteq Leaving(t)
                => Cardinality(Leaving(t))' <= Cardinality(Leaving(t))
<1>1. Finite(t) /\ Finite(t)'
  BY CountsFinite
<1>2. ASSUME NEW S, NEW T, IsFiniteSet(S), T \subseteq S PROVE Cardinality(T) <= Cardinality(S)
  BY <1>2, FS_Subset
<1> QED
  BY <1>1, <1>2 DEF Finite

\* Nothing is registered or owed anew, and nothing retained is given back.
Steady(t) ==
    /\ desired'[t] >= desired[t]
    /\ RetainsDue(t) \subseteq RetainsDue(t)'
    /\ Registered(t)' \subseteq Registered(t)
    /\ Replacing(t)' \subseteq Replacing(t)
    /\ Leaving(t)' \subseteq Leaving(t)

LEMMA SteadyKeeps ==
    ASSUME NEW t \in Topics, desired \in [Topics -> Nat], desired' \in [Topics -> Nat],
           Counted(t), Steady(t)
    PROVE  Counted(t)'
BY CountsNat, CardMonotone DEF Counted, Steady

\* The entries of D go, and as many releases are owed for them.
Unregisters(t, D, U) ==
    /\ desired'[t] >= desired[t]
    /\ RetainsDue(t) \subseteq RetainsDue(t)'
    /\ D \subseteq Registered(t) /\ Registered(t)' \subseteq Registered(t) \ D
    /\ \/ Replacing(t)' \subseteq Replacing(t) \cup U /\ Leaving(t)' \subseteq Leaving(t)
       \/ Leaving(t)' \subseteq Leaving(t) \cup U /\ Replacing(t)' \subseteq Replacing(t)

LEMMA UnregistersKeeps ==
    ASSUME NEW t \in Topics, NEW D, NEW U, IsFiniteSet(U), Cardinality(U) = Cardinality(D),
           desired \in [Topics -> Nat], desired' \in [Topics -> Nat],
           Counted(t), Unregisters(t, D, U)
    PROVE  Counted(t)'
<1>1. Finite(t) /\ Finite(t)'
  BY CountsFinite
<1>2. /\ Cardinality(Registered(t))' + Cardinality(D) <= Cardinality(Registered(t))
      /\ Cardinality(D) \in Nat
  BY <1>1, CardLess DEF Unregisters, Finite
<1>3. Cardinality(RetainsDue(t)) <= Cardinality(RetainsDue(t))'
  BY CardMonotone DEF Unregisters
<1>4. ASSUME Replacing(t)' \subseteq Replacing(t) \cup U
      PROVE  Cardinality(Replacing(t))' <= Cardinality(Replacing(t)) + Cardinality(U)
  BY <1>1, <1>4, CardMore DEF Finite
<1>5. ASSUME Leaving(t)' \subseteq Leaving(t) \cup U
      PROVE  Cardinality(Leaving(t))' <= Cardinality(Leaving(t)) + Cardinality(U)
  BY <1>1, <1>5, CardMore DEF Finite
<1>6. Cardinality(Replacing(t))' + Cardinality(Leaving(t))'
        <= Cardinality(Replacing(t)) + Cardinality(Leaving(t)) + Cardinality(D)
  <2>1. CASE Replacing(t)' \subseteq Replacing(t) \cup U /\ Leaving(t)' \subseteq Leaving(t)
    BY <1>2, <2>1, <1>4, CardMonotone, CountsNat
  <2>2. CASE Leaving(t)' \subseteq Leaving(t) \cup U /\ Replacing(t)' \subseteq Replacing(t)
    BY <1>2, <2>2, <1>5, CardMonotone, CountsNat
  <2> QED
    BY <2>1, <2>2 DEF Unregisters
<1> QED
  BY <1>2, <1>3, <1>6, CountsNat DEF Counted, Unregisters

\* A release that was owed for t is done.
Settles(t) ==
    /\ desired'[t] + 1 >= desired[t]
    /\ RetainsDue(t) \subseteq RetainsDue(t)'
    /\ Registered(t)' \subseteq Registered(t)
    /\ \/ /\ \E r \in Replacing(t) : Replacing(t)' \subseteq Replacing(t) \ {r}
          /\ Leaving(t)' \subseteq Leaving(t)
       \/ /\ \E k \in Leaving(t) : Leaving(t)' \subseteq Leaving(t) \ {k}
          /\ Replacing(t)' \subseteq Replacing(t)

LEMMA SettlesKeeps ==
    ASSUME NEW t \in Topics, desired \in [Topics -> Nat], desired' \in [Topics -> Nat],
           Counted(t), Settles(t)
    PROVE  Counted(t)'
<1>1. Finite(t) /\ Finite(t)'
  BY CountsFinite
<1>3. Cardinality(RetainsDue(t)) <= Cardinality(RetainsDue(t))'
      /\ Cardinality(Registered(t))' <= Cardinality(Registered(t))
  BY CardMonotone DEF Settles
<1>4. ASSUME NEW r \in Replacing(t), Replacing(t)' \subseteq Replacing(t) \ {r}
      PROVE  Cardinality(Replacing(t))' + 1 <= Cardinality(Replacing(t))
  <2>1. {r} \subseteq Replacing(t)
    OBVIOUS
  <2> QED
    BY <1>1, <1>4, <2>1, CardLess, CardOne DEF Finite
<1>5. ASSUME NEW k \in Leaving(t), Leaving(t)' \subseteq Leaving(t) \ {k}
      PROVE  Cardinality(Leaving(t))' + 1 <= Cardinality(Leaving(t))
  <2>1. {k} \subseteq Leaving(t)
    OBVIOUS
  <2> QED
    BY <1>1, <1>5, <2>1, CardLess, CardOne DEF Finite
<1>6. Cardinality(Replacing(t))' + Cardinality(Leaving(t))' + 1
        <= Cardinality(Replacing(t)) + Cardinality(Leaving(t))
  BY <1>4, <1>5, CardMonotone, CountsNat DEF Settles
<1> QED
  BY <1>3, <1>6, CountsNat DEF Counted, Settles

\* An entry is inserted, and its retain is due.
Registers(t, r, s) ==
    /\ desired'[t] >= desired[t]
    /\ r \in RetainsDue(t)' /\ RetainsDue(t) \subseteq RetainsDue(t)' \ {r}
    /\ Registered(t)' \subseteq Registered(t) \cup {s}
    /\ Replacing(t)' \subseteq Replacing(t)
    /\ Leaving(t)' \subseteq Leaving(t)

LEMMA RegistersKeeps ==
    ASSUME NEW t \in Topics, desired \in [Topics -> Nat], desired' \in [Topics -> Nat],
           NEW r, NEW s, Counted(t), Registers(t, r, s)
    PROVE  Counted(t)'
<1>1. Finite(t) /\ Finite(t)'
  BY CountsFinite
<1>2. Cardinality(RetainsDue(t)) + 1 <= Cardinality(RetainsDue(t))'
  <2>1. {r} \subseteq RetainsDue(t)'
    BY DEF Registers
  <2> QED
    BY <1>1, <2>1, CardLess, CardOne DEF Registers, Finite
<1>3. Cardinality(Registered(t))' <= Cardinality(Registered(t)) + 1
  BY <1>1, CardMore, CardOne DEF Registers, Finite
<1> QED
  BY <1>2, <1>3, CardMonotone, CountsNat DEF Counted, Registers

\* A retain that was due is done.
Retains(t, r) ==
    /\ desired'[t] >= desired[t] + 1
    /\ RetainsDue(t) \subseteq RetainsDue(t)' \cup {r}
    /\ Registered(t)' \subseteq Registered(t)
    /\ Replacing(t)' \subseteq Replacing(t)
    /\ Leaving(t)' \subseteq Leaving(t)

LEMMA RetainsKeeps ==
    ASSUME NEW t \in Topics, desired \in [Topics -> Nat], desired' \in [Topics -> Nat],
           NEW r, Counted(t), Retains(t, r)
    PROVE  Counted(t)'
<1>1. Finite(t) /\ Finite(t)'
  BY CountsFinite
<1>2. Cardinality(RetainsDue(t)) <= Cardinality(RetainsDue(t))' + 1
  BY <1>1, CardMore, CardOne DEF Retains, Finite
<1> QED
  BY <1>2, CardMonotone, CountsNat DEF Counted, Retains

\* Entries whose handlers keep their topics are registered as before.
LEMMA RegisteredKept ==
    ASSUME NEW t \in Topics, ReqsOK, subs' = subs,
           \A q \in Reqs : (\E s \in Slots : subs[s] = q) => req'[q].topic = req[q].topic
    PROVE  Registered(t)' = Registered(t)
<1>1. \A s \in Slots : subs[s] # NoReq => subs[s] \in Reqs
  BY DEF ReqsOK
<1>2. \A s \in Slots : TopicOf(s)' = TopicOf(s)
  BY <1>1 DEF TopicOf
<1> QED
  BY <1>2 DEF Registered

\* Entries other than those of D are registered as before when these are taken out.
LEMMA RegisteredLess ==
    ASSUME NEW t \in Topics, NEW D, ReqsOK,
           \A s \in Slots : subs'[s] = IF s \in D THEN NoReq ELSE subs[s],
           \A q \in Reqs : req'[q].topic = req[q].topic
    PROVE  Registered(t)' \subseteq Registered(t) \ D
<1>1. \A s \in Slots : subs[s] # NoReq => subs[s] \in Reqs
  BY DEF ReqsOK
<1>2. \A s \in Slots : s \notin D => subs'[s] = subs[s] /\ TopicOf(s)' = TopicOf(s)
  BY <1>1 DEF TopicOf
<1> QED
  BY <1>2 DEF Registered

\* What a step has to go by.
CountInv == InterestCounted /\ RegistryInv /\ ReqsOK
            /\ desired \in [Topics -> Nat] /\ desired' \in [Topics -> Nat]

\* Steps that do not touch what is counted.
LEMMA UncountedKeeps ==
    ASSUME CountInv, UNCHANGED <<desired, subs, req>>,
           \A k \in Takings : /\ taken'[k].at # "none" => taken[k].at # "none"
                              /\ taken'[k].topic = taken[k].topic
    PROVE  InterestCounted'
<1> SUFFICES ASSUME NEW t \in Topics PROVE Counted(t)'
  BY CountedParts
<1>1. Registered(t)' = Registered(t)
  BY RegisteredKept DEF CountInv
<1>2. Steady(t)
  BY <1>1 DEF Steady, RetainsDue, Replacing, Leaving, CountInv
<1> QED
  BY <1>2, SteadyKeeps, CountedParts DEF CountInv

\* A task takes the subscriptions of D out and owes a release for each.
LEMMA TakenCounted ==
    ASSUME CountInv, NEW who, NEW D, D \subseteq Slots,
           UNCHANGED <<desired, req>>,
           \A s \in D : subs[s] # NoReq,
           \A s \in Slots : subs'[s] = IF s \in D THEN NoReq ELSE subs[s],
           \A k \in Takings : \/ taken'[k] = taken[k]
                              \/ k[1] = who /\ k[2] \in D /\ taken'[k].topic = TopicOf(k[2])
    PROVE  InterestCounted'
<1> SUFFICES ASSUME NEW t \in Topics PROVE Counted(t)'
  BY CountedParts
<1> DEFINE Dt == {s \in D : TopicOf(s) = t}
<1>1. Registered(t)' \subseteq Registered(t) \ Dt
  BY RegisteredLess DEF CountInv
<1>2. Dt \subseteq Registered(t)
  BY DEF Registered
<1>3. Leaving(t)' \subseteq Leaving(t) \cup ({who} \X Dt)
  <2> SUFFICES ASSUME NEW k \in Takings, taken'[k].at # "none", taken'[k].topic = t, taken'[k] # taken[k]
               PROVE  k \in {who} \X Dt
    BY DEF Leaving
  <2>1. k[1] = who /\ k[2] \in D /\ TopicOf(k[2]) = t
    OBVIOUS
  <2>2. k = <<k[1], k[2]>>
    BY TakingOf
  <2> QED
    BY <2>1, <2>2
<1>4. Replacing(t)' = Replacing(t) /\ RetainsDue(t)' = RetainsDue(t)
  BY DEF Replacing, RetainsDue
<1>5. IsFiniteSet(Dt)
  BY <1>2, CountsFinite, FS_Subset DEF Finite
<1>6. IsFiniteSet({who} \X Dt) /\ Cardinality({who} \X Dt) = Cardinality(Dt)
  BY <1>5, CardTakings
<1> HIDE DEF Dt
<1>7. Unregisters(t, Dt, {who} \X Dt)
  BY <1>1, <1>2, <1>3, <1>4 DEF Unregisters, CountInv
<1> QED
  BY <1>6, <1>7, UnregistersKeeps, CountedParts DEF CountInv

\* CLOSE and evictions take one subscription, ...
LEMMA TakeOutCounted ==
    ASSUME CountInv, NEW s \in Slots, NEW who, subs[s] # NoReq, TakeOut(who, s),
           UNCHANGED <<desired, req>>
    PROVE  InterestCounted'
<1> DEFINE D == {s}
<1>1. \A x \in Slots : subs'[x] = IF x \in D THEN NoReq ELSE subs[x]
  BY DEF TakeOut, CountInv, ReqsOK
<1>2. \A k \in Takings : \/ taken'[k] = taken[k]
                         \/ k[1] = who /\ k[2] \in D /\ taken'[k].topic = TopicOf(k[2])
  BY DEF TakeOut, Take, CountInv, RegistryInv, IndexOK
<1>3. D \subseteq Slots /\ \A x \in D : subs[x] # NoReq
  OBVIOUS
<1> HIDE DEF D
<1> QED
  BY <1>1, <1>2, <1>3, TakenCounted

\* ... the cleanup all those of its connection.
LEMMA EndConnCounted ==
    ASSUME CountInv, NEW c \in Conns, EndConn(c)
    PROVE  InterestCounted'
<1> DEFINE D == {s \in Slots : s[1] = c /\ subs[s] # NoReq}
<1>1. /\ UNCHANGED <<desired, req>>
      /\ \A s \in Slots : subs'[s] = IF s \in D THEN NoReq ELSE subs[s]
  BY DEF EndConn, pubsub, interest
<1>2. ASSUME NEW k \in Takings, taken'[k] # taken[k]
      PROVE  k[1] = "loop" /\ k[2] \in D /\ taken'[k].topic = TopicOf(k[2])
  <2>1. k[2] \in Slots
    BY TakingOf
  <2>2. taken'[k] = IF k[1] = "loop" /\ k[2][1] = c /\ subs[k[2]] # NoReq
                      THEN [at |-> "listed", topic |-> TopicOf(k[2])] ELSE taken[k]
    BY DEF EndConn
  <2> QED
    BY <1>2, <2>1, <2>2
<1>3. D \subseteq Slots /\ \A s \in D : subs[s] # NoReq
  OBVIOUS
<1> HIDE DEF D
<1> QED
  BY <1>1, <1>2, <1>3, TakenCounted

\* What was taken out is dropped from the index.
LEMMA UnlistedCounted ==
    ASSUME CountInv, NEW k \in Takings, taken[k].at # "none", UNCHANGED <<desired, subs, req>>,
           NEW p, Take(k, p, taken[k].topic)
    PROVE  InterestCounted'
<1>1. \A x \in Takings : /\ taken'[x].at # "none" => taken[x].at # "none"
                         /\ taken'[x].topic = taken[x].topic
  BY DEF Take, CountInv, RegistryInv, IndexOK
<1> QED
  BY <1>1, UncountedKeeps

\* A release counts down by at most one, its own topic only.
LEMMA ReleaseCounts ==
    ASSUME desired \in [Topics -> Nat], NEW STATE s, s \in Topics, Release(s), NEW t \in Topics
    PROVE  desired'[t] + 1 >= desired[t] /\ (t # s => desired'[t] = desired[t])
BY DEF Release

\* ... and its topic is released.
LEMMA ReleaseTakenCounted ==
    ASSUME CountInv, NEW k \in Takings, ReleaseTaken(k)
    PROVE  InterestCounted'
<1> SUFFICES ASSUME NEW t \in Topics PROVE Counted(t)'
  BY CountedParts
<1>1. /\ taken[k].at # "none" /\ taken[k].topic \in Topics
      /\ Release(taken[k].topic) /\ UNCHANGED <<req, subs>>
      /\ \A x \in Takings \ {k} : taken'[x] = taken[x]
      /\ taken'[k].at = "none"
  BY DEF CountInv, ReleaseTaken, Untaken, RegistryInv, IndexOK, TakenOK
<1>2. Leaving(t)' \subseteq Leaving(t) \ {k}
  BY <1>1 DEF Leaving
<1>3. Registered(t)' = Registered(t)
  BY <1>1, RegisteredKept DEF CountInv
<1>4. CASE taken[k].topic = t
  <2>1. k \in Leaving(t)
    BY <1>1, <1>4 DEF Leaving
  <2>2. desired'[t] + 1 >= desired[t]
    BY <1>1, ReleaseCounts DEF CountInv
  <2>3. Settles(t)
    BY <1>1, <1>2, <1>3, <2>1, <2>2 DEF Settles, RetainsDue, Replacing
  <2> QED
    BY <2>3, SettlesKeeps, CountedParts DEF CountInv
<1>5. CASE taken[k].topic # t
  <2>1. desired'[t] = desired[t]
    BY <1>1, <1>5, ReleaseCounts DEF CountInv
  <2>2. Steady(t)
    BY <1>1, <1>2, <1>3, <2>1 DEF Steady, RetainsDue, Replacing, CountInv
  <2> QED
    BY <2>2, SteadyKeeps, CountedParts DEF CountInv
<1> QED
  BY <1>4, <1>5

\* The handler of a REQ.
LEMMA HandlerCounted ==
    ASSUME CountInv, NEW r \in Reqs, ReqTask(r) \/ ReqQueryFails(r)
    PROVE  InterestCounted'
<1> SUFFICES ASSUME NEW t \in Topics PROVE Counted(t)'
  BY CountedParts
<1> DEFINE c == req[r].sub
<1>0. /\ c \in Slots /\ req[r].topic \in Topics /\ taken' = taken
      /\ subs \in [Slots -> Reqs \cup {NoReq}]
  BY HandlerOnly DEF CountInv, ReqsOK
<1>a. Leaving(t)' \subseteq Leaving(t)
  BY <1>0 DEF Leaving
<1>b. ASSUME UNCHANGED <<desired, subs>>, \A q \in Reqs : req'[q].topic = req[q].topic,
             RetainsDue(t) \subseteq RetainsDue(t)', Replacing(t)' \subseteq Replacing(t)
      PROVE  Counted(t)'
  <2>1. Registered(t)' = Registered(t)
    BY <1>b, RegisteredKept DEF CountInv
  <2>2. Steady(t)
    BY <1>a, <1>b, <2>1 DEF Steady, CountInv
  <2> QED
    BY <2>2, SteadyKeeps, CountedParts DEF CountInv
<1>1. CASE ReqRemove(r) /\ subs[c] = NoReq
  <2>1. /\ Moves(r, {"remove"}, {"insert"}) /\ req'[r].old = req[r].old
        /\ UNCHANGED <<desired, subs>>
    BY <1>1, HandlerMoves DEF CountInv, ReqRemove, pubsub, interest
  <2>2. req[r].old = NoTopic
    BY <2>1 DEF Moves, CountInv, RegistryInv, HandlersOK
  <2> QED
    BY <1>b, <2>1, <2>2, NoTopicAssumption DEF Moves, RetainsDue, Replacing
<1>2. CASE ReqRemove(r) /\ subs[c] # NoReq
  <2>1. /\ Moves(r, {"remove"}, {"emptied", "insert"}) /\ req'[r].old = TopicOf(c)
        /\ UNCHANGED desired /\ subs' = [subs EXCEPT ![c] = NoReq]
    BY <1>2, HandlerMoves DEF CountInv, ReqRemove, pubsub, interest
  <2>2. Registered(t)' \subseteq Registered(t) \ {c}
    <3> DEFINE D == {c}
    <3>1. \A s \in Slots : subs'[s] = IF s \in D THEN NoReq ELSE subs[s]
      BY <1>0, <2>1
    <3>2. \A q \in Reqs : req'[q].topic = req[q].topic
      BY <2>1 DEF Moves
    <3>3. ReqsOK
      BY DEF CountInv
    <3> HIDE DEF D
    <3>4. Registered(t)' \subseteq Registered(t) \ D
      BY <3>1, <3>2, <3>3, RegisteredLess
    <3> QED
      BY <3>4 DEF D
  <2>3. RetainsDue(t) \subseteq RetainsDue(t)' /\ Replacing(t)' \subseteq Replacing(t) \cup {r}
    BY <2>1 DEF Moves, RetainsDue, Replacing
  <2>4. CASE TopicOf(c) = t
    <3>1. {c} \subseteq Registered(t)
      BY <1>0, <1>2, <2>4 DEF Registered
    <3>2. Unregisters(t, {c}, {r})
      BY <1>a, <2>1, <2>2, <2>3, <3>1 DEF Unregisters, CountInv
    <3>3. IsFiniteSet({r}) /\ Cardinality({r}) = Cardinality({c})
      BY CardOne
    <3> QED
      BY <3>2, <3>3, UnregistersKeeps, CountedParts DEF CountInv
  <2>5. CASE TopicOf(c) # t
    <3>1. Replacing(t)' \subseteq Replacing(t)
      BY <2>1, <2>5 DEF Moves, Replacing
    <3>2. Steady(t)
      BY <1>a, <2>1, <2>2, <2>3, <3>1 DEF Steady, CountInv
    <3> QED
      BY <3>2, SteadyKeeps, CountedParts DEF CountInv
  <2> QED
    BY <2>4, <2>5
<1>3. CASE ReqDrop(r)
  <2>1. /\ Moves(r, {"emptied"}, {"insert"}) /\ req'[r].old = req[r].old
        /\ UNCHANGED <<desired, subs>>
    BY <1>3, HandlerMoves DEF CountInv, ReqDrop, pubsub, interest
  <2> QED
    BY <1>b, <2>1 DEF Moves, RetainsDue, Replacing
<1>4. CASE ReqInsert(r)
  <2>1. /\ Moves(r, {"insert"}, {"push"}) /\ req'[r].old = req[r].old
        /\ UNCHANGED desired /\ subs' = [subs EXCEPT ![c] = r]
    BY <1>4, HandlerMoves DEF CountInv, ReqInsert, pubsub, interest
  <2>2. Replacing(t)' \subseteq Replacing(t)
    BY <2>1 DEF Moves, Replacing
  <2>3. \A d \in Slots \ {c} : TopicOf(d)' = TopicOf(d) /\ subs'[d] = subs[d]
    BY <1>0, <2>1 DEF Moves, TopicOf
  <2>4. \A d \in Slots : d = c => TopicOf(d)' = req[r].topic
    BY <1>0, <2>1, PodAssumption DEF Moves, TopicOf, Reqs, NoReq
  <2>5. CASE req[r].topic = t
    <3>1. r \in RetainsDue(t)' /\ RetainsDue(t) \subseteq RetainsDue(t)' \ {r}
      BY <2>1, <2>5 DEF Moves, RetainsDue
    <3>2. Registered(t)' \subseteq Registered(t) \cup {c}
      BY <2>3 DEF Registered
    <3>3. Registers(t, r, c)
      BY <1>a, <2>1, <2>2, <3>1, <3>2 DEF Registers, CountInv
    <3> QED
      BY <3>3, RegistersKeeps, CountedParts DEF CountInv
  <2>6. CASE req[r].topic # t
    <3>1. RetainsDue(t) \subseteq RetainsDue(t)'
      BY <2>1 DEF Moves, RetainsDue
    <3>2. Registered(t)' \subseteq Registered(t)
      <4> SUFFICES ASSUME NEW d \in Slots, subs'[d] # NoReq, TopicOf(d)' = t
                   PROVE  subs[d] # NoReq /\ TopicOf(d) = t
        BY DEF Registered
      <4>1. d # c
        BY <2>4, <2>6
      <4> QED
        BY <2>3, <4>1
    <3>3. Steady(t)
      BY <1>a, <2>1, <2>2, <3>1, <3>2 DEF Steady, CountInv
    <3> QED
      BY <3>3, SteadyKeeps, CountedParts DEF CountInv
  <2> QED
    BY <2>5, <2>6
<1>5. CASE ReqPush(r)
  <2>1. /\ Moves(r, {"push"}, {"release", "retain"}) /\ req'[r].old = req[r].old
        /\ UNCHANGED <<desired, subs>>
    BY <1>5, HandlerMoves DEF CountInv, ReqPush, pubsub, interest
  <2> QED
    BY <1>b, <2>1 DEF Moves, RetainsDue, Replacing
<1>6. CASE ReqRelease(r)
  <2> DEFINE s == req[r].old
  <2>1. /\ Moves(r, {"release"}, {"retain"}) /\ Release(s) /\ UNCHANGED subs
    BY <1>6, HandlerMoves DEF CountInv, ReqRelease
  <2>a. s \in Topics
    BY <2>1 DEF Moves, CountInv, RegistryInv, HandlersOK
  <2>2. RetainsDue(t) \subseteq RetainsDue(t)' /\ Replacing(t)' \subseteq Replacing(t) \ {r}
    BY <2>1 DEF Moves, RetainsDue, Replacing
  <2>3. Registered(t)' = Registered(t)
    BY <2>1, RegisteredKept DEF CountInv, Moves
  <2>4. desired'[t] + 1 >= desired[t] /\ (t # s => desired'[t] = desired[t])
    BY <2>1, <2>a, ReleaseCounts DEF CountInv
  <2>5. CASE s = t
    <3>1. r \in Replacing(t)
      BY <2>1, <2>5 DEF Moves, Replacing
    <3>2. Settles(t)
      BY <1>a, <2>2, <2>3, <2>4, <3>1 DEF Settles
    <3> QED
      BY <3>2, SettlesKeeps, CountedParts DEF CountInv
  <2>6. CASE s # t
    <3>1. Steady(t)
      BY <1>a, <2>2, <2>3, <2>4, <2>6 DEF Steady, CountInv
    <3> QED
      BY <3>1, SteadyKeeps, CountedParts DEF CountInv
  <2> QED
    BY <2>5, <2>6
<1>7. CASE ReqRetain(r)
  <2>1. /\ Moves(r, {"retain", "send"}, {"send", "query"}) /\ req[r].at = "retain" /\ UNCHANGED subs
        /\ desired' = [desired EXCEPT ![req[r].topic] = @ + 1]
    BY <1>7, HandlerMoves DEF CountInv, ReqRetain, Retain
  <2>2. RetainsDue(t) \subseteq RetainsDue(t)' \cup {r} /\ Replacing(t)' \subseteq Replacing(t)
    BY <2>1 DEF Moves, RetainsDue, Replacing
  <2>3. Registered(t)' = Registered(t)
    BY <2>1, RegisteredKept DEF CountInv, Moves
  <2>4. CASE req[r].topic = t
    <3>1. Retains(t, r)
      BY <1>0, <1>a, <2>1, <2>2, <2>3, <2>4 DEF Retains, CountInv
    <3> QED
      BY <3>1, RetainsKeeps, CountedParts DEF CountInv
  <2>5. CASE req[r].topic # t
    <3>1. RetainsDue(t) \subseteq RetainsDue(t)'
      BY <2>1, <2>5 DEF Moves, RetainsDue
    <3>2. Steady(t)
      BY <1>0, <1>a, <2>1, <2>2, <2>3, <2>5, <3>1 DEF Steady, CountInv
    <3> QED
      BY <3>2, SteadyKeeps, CountedParts DEF CountInv
  <2> QED
    BY <2>4, <2>5
<1>8. CASE \/ ReqSend(r) \/ (\E behind \in SUBSET Events : Page(r, behind))
           \/ ReqQueryFails(r)
  <2>1. /\ Moves(r, {"send", "query", "retain"}, {"send", "query", "done", "failed"})
        /\ req[r].at # "retain" /\ UNCHANGED <<desired, subs>>
    BY <1>8, HandlerMoves DEF CountInv, Moves, ReqSend, SendSubscribe, Page, ReqQueryFails, pubsub, interest
  <2> QED
    BY <1>b, <2>1 DEF Moves, RetainsDue, Replacing
<1> QED
  BY <1>1, <1>2, <1>3, <1>4, <1>5, <1>6, <1>7, <1>8, PageOfTask

\* A handler that is spawned has no entry yet.
LEMMA SpawnCounted ==
    ASSUME CountInv, NEW r \in Reqs, NEW s \in Slots, NEW x \in Topics, Req(r, s, x)
    PROVE  InterestCounted'
<1> SUFFICES ASSUME NEW t \in Topics PROVE Counted(t)'
  BY CountedParts
<1>1. /\ req[r].at = "idle" /\ req'[r].at = "remove"
      /\ \A q \in Reqs \ {r} : req'[q] = req[q]
      /\ UNCHANGED <<desired, subs, taken>>
  BY DEF Req, CountInv, ReqsOK, ReqType, NewReq, registry, pubsub, interest
<1>2. \A y \in Slots : subs[y] # r
  BY <1>1, PodAssumption DEF CountInv, RegistryInv, EntriesOK, Reqs, NoReq
<1>3. Registered(t)' = Registered(t)
  BY <1>1, <1>2, RegisteredKept DEF CountInv
<1>4. Steady(t)
  BY <1>1, <1>3 DEF Steady, RetainsDue, Replacing, Leaving, CountInv
<1> QED
  BY <1>4, SteadyKeeps, CountedParts DEF CountInv

\* Every step keeps the counts.
LEMMA CountStep == CountInv /\ [Next]_vars => InterestCounted'
<1> SUFFICES ASSUME CountInv, [Next]_vars
             PROVE  InterestCounted'
  OBVIOUS
<1>b. ASSUME UNCHANGED <<desired, registry, req>> PROVE InterestCounted'
  BY <1>b, UncountedKeeps DEF registry
<1>1. CASE UNCHANGED vars
  BY <1>1, <1>b DEF vars, interest
<1>2. CASE Subscriber \/ Redis \/ \E t \in Topics : Debounce(t)
  BY <1>2, <1>b DEF Subscriber, SubscriberStep, Connect, SubscribeSnapshot, TakeOrder, Unsubscribe,
                    Redis, Outage, Debounce, DebounceEnds, interest
<1>3. ASSUME NEW c \in Conns, Client(c) \/ ConnTask(c) PROVE InterestCounted'
  <2>1. CASE Arrive(c) \/ Refuse(c) \/ Admit(c) \/ Open(c) \/ EndDone(c)
    BY <2>1, <1>b DEF Arrive, Refuse, Admit, Open, EndDone, pubsub, interest
  <2>2. ASSUME NEW s \in Slots, CloseRemove(s) PROVE InterestCounted'
    BY <2>2, TakeOutCounted DEF CloseRemove, pubsub, interest
  <2>3. ASSUME NEW s \in Slots, EndUnlist(s) PROVE InterestCounted'
    BY <2>3, UnlistedCounted, TakingOf DEF EndUnlist, pubsub, interest
  <2> QED
    BY <1>3, <2>1, <2>2, <2>3, SlotOf, EndConnCounted, SpawnCounted DEF Client, ConnTask
<1>4. CASE \E w \in Sweeps : FlagSweep(w) \/ Sweep(w)
  BY <1>4, <1>b DEF FlagSweep, Sweep, pubsub, interest
<1>5. CASE \E r \in Reqs : ReqTask(r) \/ ReqQueryFails(r)
  BY <1>5, HandlerCounted
<1>6. CASE Evictor
  <2>1. ASSUME NEW c, NEW t, Evict(c, t) PROVE InterestCounted'
    BY <2>1, <1>b DEF Evict, pubsub, interest
  <2>2. ASSUME NEW s \in Slots, EvictRemove(s) PROVE InterestCounted'
    <3>1. CASE subs[s] = NoReq
      BY <2>2, <3>1, UncountedKeeps DEF EvictRemove, pubsub, interest
    <3>2. CASE subs[s] # NoReq
      BY <2>2, <3>2, TakeOutCounted DEF EvictRemove, pubsub, interest
    <3> QED
      BY <3>1, <3>2
  <2> QED
    BY <1>6, <2>1, <2>2 DEF Evictor
<1>7. ASSUME NEW k \in Takings, DropEmptied(k) \/ ReleaseTaken(k) PROVE InterestCounted'
  <2>1. CASE DropEmptied(k)
    BY <2>1, UnlistedCounted DEF DropEmptied, pubsub, interest
  <2> QED
    BY <1>7, <2>1, ReleaseTakenCounted
<1>8. CASE \E e \in Events : Dispatching(e) \/ PublishFails(e) \/ PublishUnanswered(e)
  BY <1>8, <1>b DEF Dispatching, Store, PublishElsewhere, Publish, PublishAnswered,
                    PublishFails, PublishUnanswered, pubsub, interest
<1>9. CASE Consume \/ \E f \in Fanouts : Send(f)
  BY <1>9, <1>b DEF Consume, Send, pubsub, interest
<1> QED
  BY <1>1, <1>2, <1>3, <1>4, <1>5, <1>6, <1>7, <1>8, <1>9 DEF Next, TakenStep, Failing

LEMMA CountInit == Init => InterestCounted
<1> SUFFICES ASSUME Init PROVE InterestCounted
  OBVIOUS
<1>1. \A t \in Topics : /\ RetainsDue(t) = {} /\ Registered(t) = {} /\ Replacing(t) = {}
                        /\ Leaving(t) = {} /\ desired[t] = 0
  BY DEF Init, InitInterest, RetainsDue, Registered, Replacing, Leaving, NewReq, Untaken
<1> QED
  BY <1>1, FS_EmptySet, CountedParts DEF Counted

\* No release takes away what another subscription retained: the count of a topic is
\* never too small for its subscriptions, up to the retains and releases that are
\* still to come, however REQ, CLOSE, disconnects and evictions interleave.
THEOREM CountsSuffice == Spec => []InterestCounted
<1>1. InterestInv /\ RegistryInv /\ InterestCounted /\ InterestInv' => CountInv
  BY DEF InterestInv, InterestTypeOK, CountInv
<1>2. InterestInv => ReqsOK
  BY DEF InterestInv
<1>3. SweepInv => ConnsOK
  BY DEF SweepInv
<1> QED
  BY InterestInit, InterestStep, SweepInit, SweepStep, RegistryInit, RegistryStep, CountInit,
     CountStep, <1>1, <1>2, <1>3, PTL DEF Spec

-----------------------------------------------------------------------------
(***************************************************************************)
(* Delivery                                                                *)
(***************************************************************************)

EventType == [at : {"none", "stored", "published", "sending", "settled"},
              topic : Topics \cup {NoTopic}, here : BOOLEAN]

\* The types of what is delivered.
DeliveryOK ==
    /\ bcast \in Seq(Events)
    /\ event \in [Events -> EventType]
    /\ local \subseteq Events /\ unsure \subseteq Events
    /\ fanout \in [Fanouts -> [event : Events \cup {0}, matched : SUBSET Reqs]]
    /\ got \in [Reqs -> [Events -> Nat]]
    /\ faults \in 0..MaxFaults
    /\ \A e \in Events : event[e].at # "none" => event[e].topic \in Topics

Heard(e) == \E k \in 1..Len(bcast) : bcast[k] = e

\* Redis tells the pod of an event once, and only of an event that was published. One
\* from here is marked, unless its PUBLISH was taken to have failed.
HeardOK ==
    /\ \A j, k \in 1..Len(bcast) : bcast[j] = bcast[k] => j = k
    /\ \A e \in Events : Heard(e) =>
        /\ event[e].at \notin {"none", "stored"}
        /\ fanout[Consumer].event # e
        /\ ~event[e].here => event[e].at = "published"
        /\ event[e].here /\ e \notin unsure => e \in local

\* The consumer does not deal with an event that was marked.
ConsumedOK ==
    \A e \in Events : fanout[Consumer].event = e =>
        /\ event[e].at \notin {"none", "stored"}
        /\ event[e].here => e \in unsure
        /\ ~event[e].here => event[e].at = "published"

\* A dispatch sends its own event, in one of its phases.
DispatchOK ==
    \A e \in Events :
        /\ fanout[e].event \in {0, e}
        /\ fanout[e].event = e <=> event[e].at = "sending"
        /\ event[e].at = "sending" => event[e].here
        /\ e \in local => event[e].here /\ event[e].at \notin {"none", "stored"}

\* A fan-out has matched subscriptions of its event's topic.
MatchOK ==
    \A f \in Fanouts :
        /\ fanout[f].event = 0 => fanout[f].matched = {}
        /\ fanout[f].event # 0 => \A r \in fanout[f].matched :
               req[r].at # "idle" /\ req[r].topic = event[fanout[f].event].topic

\* Frames are sent by the step that settles their event, except for echoes of events
\* whose PUBLISH was taken to have failed.
SentOK ==
    \A r \in Reqs, e \in Events :
        /\ e \notin unsure /\ event[e].at # "settled" => got[r][e] = 0
        /\ event[e].at \in {"none", "stored"} => got[r][e] = 0
        /\ got[r][e] > 0 => req[r].at # "idle"

DeliveryInv ==
    /\ DeliveryOK /\ HeardOK /\ ConsumedOK /\ DispatchOK /\ MatchOK /\ SentOK
    /\ RoutedOnce /\ InScope

USE PodAssumption DEF Fanouts, Consumer, Events

LEMMA DeliveryInit == Init => DeliveryInv
<1> SUFFICES ASSUME Init PROVE DeliveryInv
  OBVIOUS
<1>1. DeliveryOK /\ HeardOK
  BY DEF Init, InitInterest, NoFanout, DeliveryOK, EventType, HeardOK, Heard
<1>2. ConsumedOK /\ DispatchOK /\ MatchOK
  BY DEF Init, InitInterest, NoFanout, ConsumedOK, DispatchOK, MatchOK
<1>3. SentOK /\ RoutedOnce /\ InScope
  BY DEF Init, NewReq, SentOK, RoutedOnce, InScope
<1> QED
  BY <1>1, <1>2, <1>3 DEF DeliveryInv

\* A handler that was spawned keeps its topic.
Spawned ==
    \A r \in Reqs : req[r].at # "idle" => req'[r].at # "idle" /\ req'[r].topic = req[r].topic

LEMMA SpawnedStay ==
    ASSUME ReqsOK, [Next]_vars
    PROVE  Spawned
<1>1. ASSUME UNCHANGED req PROVE Spawned
  BY <1>1 DEF Spawned
<1>2. ASSUME NEW r \in Reqs, NEW s, NEW t \in Topics, Req(r, s, t) PROVE Spawned
  BY <1>2 DEF Spawned, Req, ReqsOK
<1>3. ASSUME NEW r \in Reqs, ReqTask(r) \/ ReqQueryFails(r) PROVE Spawned
  <2>1. Moves(r, ReqPhases, ReqPhases \ {"idle"})
    BY <1>3, HandlerMoves, PageOfTask DEF Moves, ReqPhases
  <2> QED
    BY <2>1 DEF Moves, Spawned
<1>4. CASE UNCHANGED vars
  BY <1>4, <1>1 DEF vars
<1>5. CASE Subscriber \/ Redis \/ \E t \in Topics : Debounce(t)
  BY <1>5, <1>1 DEF Subscriber, Redis, Debounce
<1>6. ASSUME NEW c \in Conns, Client(c) \/ ConnTask(c) PROVE Spawned
  BY <1>6, <1>1, <1>2
     DEF Client, ConnTask, Arrive, Refuse, CloseRemove, Admit, Open, EndConn, EndUnlist, EndDone
<1>7. CASE \E w \in Sweeps : FlagSweep(w) \/ Sweep(w)
  BY <1>7, <1>1 DEF FlagSweep, Sweep
<1>8. CASE TakenStep \/ Evictor
  BY <1>8, <1>1 DEF TakenStep, DropEmptied, ReleaseTaken, Evictor, Evict, EvictRemove
<1>9. CASE \E e \in Events : Dispatching(e) \/ PublishFails(e) \/ PublishUnanswered(e)
  BY <1>9, <1>1 DEF Dispatching, Store, PublishElsewhere, Publish, PublishAnswered, PublishFails,
                    PublishUnanswered
<1>10. CASE Consume \/ \E f \in Fanouts : Send(f)
  BY <1>10, <1>1 DEF Consume, Send
<1> QED
  BY <1>3, <1>4, <1>5, <1>6, <1>7, <1>8, <1>9, <1>10 DEF Next, Failing

\* Steps that are about other things.
LEMMA UndeliveredKeeps ==
    ASSUME DeliveryInv, Spawned, UNCHANGED delivery, faults' \in 0..MaxFaults,
           UNCHANGED bcast \/ Outage
    PROVE  DeliveryInv'
<1> USE DEF delivery
<1>1. /\ bcast' \in Seq(Events) /\ \A e \in Events : Heard(e)' => Heard(e)
      /\ \A j, k \in 1..Len(bcast') : bcast'[j] = bcast'[k] => j = k
  <2>1. CASE UNCHANGED bcast
    BY <2>1 DEF DeliveryInv, DeliveryOK, HeardOK, Heard
  <2>2. CASE Outage
    <3>1. PICK n \in 0..Len(bcast) : bcast' = SubSeq(bcast, 1, n)
      BY <2>2 DEF Outage
    <3>2. /\ bcast' \in Seq(Events) /\ Len(bcast') = n
          /\ \A k \in 1..n : bcast'[k] = bcast[k]
      BY SMTT(30), <3>1, SubSeqProperties DEF DeliveryInv, DeliveryOK
    <3>3. 1..n \subseteq 1..Len(bcast)
      BY DEF DeliveryInv, DeliveryOK
    <3>4. \A j, k \in 1..n : bcast'[j] = bcast'[k] => j = k
      BY <3>2, <3>3 DEF DeliveryInv, HeardOK
    <3>5. \A e \in Events : Heard(e)' => Heard(e)
      BY <3>2, <3>3 DEF Heard
    <3> QED
      BY <3>2, <3>4, <3>5
  <2> QED
    BY <2>1, <2>2
<1>2. DeliveryOK' /\ HeardOK'
  BY <1>1 DEF DeliveryInv, DeliveryOK, HeardOK
<1>3. ConsumedOK' /\ DispatchOK'
  BY DEF DeliveryInv, ConsumedOK, DispatchOK
<1>4. MatchOK'
  BY DEF DeliveryInv, DeliveryOK, MatchOK, Spawned
<1>5. SentOK' /\ RoutedOnce'
  BY DEF DeliveryInv, DeliveryOK, SentOK, Spawned, RoutedOnce
<1>6. InScope'
  BY DEF DeliveryInv, DeliveryOK, InScope, SentOK, Spawned
<1> QED
  BY <1>2, <1>3, <1>4, <1>5, <1>6 DEF DeliveryInv
\* An event that gets on stays an event.
LEMMA AdvanceType ==
    ASSUME NEW e \in Events, NEW p \in {"published", "sending", "settled"},
           event \in [Events -> EventType], Advance(e, p)
    PROVE  /\ event' \in [Events -> EventType] /\ event'[e].at = p
           /\ event'[e].topic = event[e].topic /\ event'[e].here = event[e].here
           /\ \A d \in Events \ {e} : event'[d] = event[d]
BY DEF Advance, EventType

\* What FanOut matches.
LEMMA MatchesOK ==
    ASSUME RegistryInv, ReqsOK, NEW t \in Topics
    PROVE  /\ Matches(t) \in SUBSET Reqs
           /\ \A r \in Matches(t) : req[r].at # "idle" /\ req[r].topic = t
<1>1. ASSUME NEW s \in index[t], TopicOf(s) = t
      PROVE  subs[s] \in Reqs /\ req[subs[s]].at # "idle" /\ req[subs[s]].topic = t
  <2>1. s \in Slots /\ subs[s] # NoReq
    BY <1>1, NoTopicAssumption DEF RegistryInv, IndexOK, TopicOf
  <2> QED
    BY <1>1, <2>1, EntryTopic DEF RegistryInv, EntriesOK
<1> QED
  BY <1>1 DEF Matches

\* The step of an event that does not fan out: it is stored or published.
LEMMA StoreKeeps ==
    ASSUME DeliveryInv, NEW e \in Events, NEW t \in Topics, NEW h \in BOOLEAN, Store(e, t, h)
    PROVE  DeliveryInv'
<1>1. /\ event[e].at = "none" /\ event'[e] = [at |-> "stored", topic |-> t, here |-> h]
      /\ \A d \in Events \ {e} : event'[d] = event[d]
      /\ event' = [event EXCEPT ![e] = [at |-> "stored", topic |-> t, here |-> h]]
      /\ UNCHANGED <<bcast, req, local, fanout, got, unsure, faults>>
  BY DEF Store, DeliveryInv, DeliveryOK, pubsub, subscriber
<1>2. DeliveryOK'
  BY <1>1 DEF DeliveryInv, DeliveryOK, EventType
<1>3. HeardOK'
  BY <1>1 DEF DeliveryInv, HeardOK, Heard
<1>4. ConsumedOK' /\ DispatchOK'
  BY <1>1 DEF DeliveryInv, ConsumedOK, DispatchOK
<1>5. MatchOK'
  <2>1. \A f \in Fanouts : fanout[f].event # e
    BY <1>1 DEF DeliveryInv, ConsumedOK, DispatchOK
  <2>2. ASSUME NEW f \in Fanouts, NEW r \in fanout[f].matched
        PROVE  /\ fanout[f].event # 0 /\ req[r].at # "idle"
               /\ req[r].topic = event'[fanout[f].event].topic
    <3>1. /\ fanout[f].event # 0 /\ req[r].at # "idle"
          /\ req[r].topic = event[fanout[f].event].topic
      BY <2>2 DEF DeliveryInv, MatchOK
    <3>2. fanout[f].event \in Events \ {e}
      BY <2>1, <3>1 DEF DeliveryInv, DeliveryOK
    <3> QED
      BY <1>1, <3>1, <3>2
  <2> QED
    BY <1>1, <2>2 DEF MatchOK
<1>6. SentOK' /\ RoutedOnce' /\ InScope'
  BY <1>1 DEF DeliveryInv, DeliveryOK, SentOK, RoutedOnce, InScope
<1> QED
  BY <1>2, <1>3, <1>4, <1>5, <1>6 DEF DeliveryInv

LEMMA PublishKeeps ==
    ASSUME DeliveryInv, NEW e \in Events, PublishElsewhere(e) \/ Publish(e)
    PROVE  DeliveryInv'
<1>0. Advance(e, "published")
  BY DEF PublishElsewhere, Publish
<1>1. /\ event[e].at = "stored" /\ event'[e].at = "published"
      /\ event'[e].topic = event[e].topic /\ event'[e].here = event[e].here
      /\ \A d \in Events \ {e} : event'[d] = event[d]
      /\ event' = [event EXCEPT ![e].at = "published"]
      /\ local' = IF event[e].here THEN local \cup {e} ELSE local
      /\ bcast' = Append(bcast, e) \/ bcast' = bcast
      /\ UNCHANGED <<req, fanout, got, unsure, faults>>
  BY <1>0, AdvanceType DEF PublishElsewhere, Publish, Published, Advance, DeliveryInv, DeliveryOK
<1>2. DeliveryOK'
  <2>1. event' \in [Events -> EventType] /\ bcast' \in Seq(Events)
    <3>1. event \in [Events -> EventType] /\ bcast \in Seq(Events)
      BY DEF DeliveryInv, DeliveryOK
    <3>2. event' \in [Events -> EventType]
      BY <1>0, <3>1, AdvanceType
    <3>3. Append(bcast, e) \in Seq(Events)
      BY <3>1, AppendProperties
    <3>4. bcast' \in Seq(Events)
      BY <1>1, <3>1, <3>3
    <3> QED
      BY <3>2, <3>4
  <2> QED
    BY <1>1, <2>1 DEF DeliveryInv, DeliveryOK
<1>a. ~Heard(e) /\ fanout[Consumer].event # e /\ fanout[e].event # e
  BY <1>1 DEF DeliveryInv, HeardOK, ConsumedOK, DispatchOK
<1>b. /\ \A d \in Events : Heard(d)' => Heard(d) \/ d = e
      /\ \A j, k \in 1..Len(bcast') : bcast'[j] = bcast'[k] => j = k
  <2>1. CASE bcast' = bcast
    BY <2>1 DEF Heard, DeliveryInv, HeardOK
  <2>2. CASE bcast' = Append(bcast, e)
    <3>1. /\ Len(bcast) \in Nat /\ Len(bcast') = Len(bcast) + 1 /\ bcast'[Len(bcast) + 1] = e
          /\ \A k \in 1..Len(bcast) : bcast'[k] = bcast[k]
      BY <2>2, AppendProperties, LenProperties DEF DeliveryInv, DeliveryOK
    <3>2. \A k \in 1..Len(bcast') : k \in 1..Len(bcast) \/ k = Len(bcast) + 1
      BY <3>1
    <3> QED
      BY SMTT(30), <1>a, <3>1, <3>2 DEF Heard, DeliveryInv, HeardOK
  <2> QED
    BY <1>1, <2>1, <2>2
<1>3. HeardOK'
  BY <1>1, <1>a, <1>b DEF DeliveryInv, HeardOK, DeliveryOK
<1>4. ConsumedOK' /\ DispatchOK'
  BY <1>1, <1>a DEF DeliveryInv, DeliveryOK, ConsumedOK, DispatchOK
<1>5. MatchOK'
  BY <1>1 DEF DeliveryInv, DeliveryOK, EventType, MatchOK
<1>6. SentOK' /\ RoutedOnce' /\ InScope'
  BY <1>1 DEF DeliveryInv, DeliveryOK, EventType, SentOK, RoutedOnce, InScope
<1> QED
  BY <1>2, <1>3, <1>4, <1>5, <1>6 DEF DeliveryInv

\* A dispatch goes on to its fan-out.
LEMMA DispatchKeeps ==
    ASSUME DeliveryInv, RegistryInv, ReqsOK, NEW e \in Events,
           PublishAnswered(e) \/ PublishFails(e) \/ PublishUnanswered(e)
    PROVE  DeliveryInv'
<1> DEFINE m == Matches(event[e].topic)
<1>0. Advance(e, "sending")
  BY DEF PublishAnswered, PublishFails, PublishUnanswered
<1>1. /\ event[e].at \in {"stored", "published"} /\ event[e].here
      /\ event'[e].at = "sending"
      /\ event'[e].topic = event[e].topic /\ event'[e].here = event[e].here
      /\ \A d \in Events \ {e} : event'[d] = event[d]
      /\ event' = [event EXCEPT ![e].at = "sending"]
      /\ fanout' = [fanout EXCEPT ![e] = [event |-> e, matched |-> m]]
      /\ UNCHANGED <<bcast, req, got>>
      /\ \/ UNCHANGED <<local, unsure>>
         \/ local' = local \ {e} /\ unsure' = unsure \cup {e}
      /\ faults' \in 0..MaxFaults
  BY <1>0, AdvanceType DEF PublishAnswered, PublishFails, PublishUnanswered, Advance, FanOut,
         Fault, DeliveryInv, DeliveryOK, pubsub, subscriber
<1>a. m \in SUBSET Reqs /\ \A r \in m : req[r].at # "idle" /\ req[r].topic = event[e].topic
  BY <1>1, MatchesOK DEF DeliveryInv, DeliveryOK
<1>b. /\ fanout'[e] = [event |-> e, matched |-> m]
      /\ \A f \in Fanouts \ {e} : fanout'[f] = fanout[f]
      /\ fanout' \in [Fanouts -> [event : Events \cup {0}, matched : SUBSET Reqs]]
      /\ e # Consumer
  BY <1>1, <1>a DEF DeliveryInv, DeliveryOK
<1> HIDE DEF m
<1>2. DeliveryOK'
  <2>1. event' \in [Events -> EventType]
    BY <1>0, AdvanceType DEF DeliveryInv, DeliveryOK
  <2> QED
    BY <1>1, <1>b, <2>1 DEF DeliveryInv, DeliveryOK
<1>3. HeardOK'
  BY <1>1, <1>b DEF DeliveryInv, HeardOK, Heard, DeliveryOK, EventType
<1>4. ConsumedOK'
  BY <1>1, <1>b DEF DeliveryInv, ConsumedOK, DeliveryOK, EventType
<1>c. DispatchOK'
  BY <1>1, <1>b DEF DeliveryInv, DispatchOK, DeliveryOK, EventType
<1>5. MatchOK'
  BY <1>1, <1>a, <1>b DEF DeliveryInv, DeliveryOK, EventType, MatchOK
<1>6. SentOK' /\ RoutedOnce' /\ InScope'
  BY SMTT(30), <1>1 DEF DeliveryInv, DeliveryOK, EventType, SentOK, RoutedOnce, InScope
<1> QED
  BY <1>2, <1>3, <1>4, <1>5, <1>6, <1>c DEF DeliveryInv
\* The consumer takes the next message.
LEMMA ConsumeKeeps ==
    ASSUME DeliveryInv, RegistryInv, ReqsOK, Consume
    PROVE  DeliveryInv'
<1> DEFINE e == Head(bcast)
           m == Matches(event[e].topic)
<1>1. /\ e \in Events /\ Len(bcast) \in Nat /\ 1 \in 1..Len(bcast) /\ bcast[1] = e
      /\ bcast' \in Seq(Events) /\ Len(bcast') = Len(bcast) - 1
      /\ \A k \in 1..Len(bcast') : k + 1 \in 1..Len(bcast) /\ bcast'[k] = bcast[k + 1]
  <2>1. bcast \in Seq(Events) /\ bcast # <<>> /\ bcast' = Tail(bcast)
    BY DEF Consume, DeliveryInv, DeliveryOK
  <2>2. Len(bcast) \in Nat \ {0} /\ e = bcast[1] /\ e \in Events
    BY <2>1, HeadTailProperties, LenProperties
  <2>3. /\ bcast' \in Seq(Events) /\ Len(bcast') = Len(bcast) - 1
        /\ \A k \in 1..Len(bcast') : bcast'[k] = bcast[k + 1]
    BY <2>1, HeadTailProperties
  <2> QED
    BY SMTT(30), <2>2, <2>3
<1>2. UNCHANGED <<req, event, got, unsure, faults>> /\ fanout[Consumer] = NoFanout
  BY DEF Consume
<1>3. \/ e \in local /\ local' = local \ {e} /\ UNCHANGED fanout
      \/ /\ e \notin local /\ UNCHANGED local
         /\ fanout' = [fanout EXCEPT ![Consumer] = [event |-> e, matched |-> m]]
  BY DEF Consume, FanOut
<1>4. Heard(e)
  BY <1>1 DEF Heard
<1>5. /\ \A j, k \in 1..Len(bcast') : bcast'[j] = bcast'[k] => j = k
      /\ \A d \in Events : Heard(d)' => Heard(d) /\ d # e
  <2>1. ASSUME NEW j \in 1..Len(bcast'), NEW k \in 1..Len(bcast'), bcast'[j] = bcast'[k]
        PROVE  j = k
    <3>1. /\ j + 1 \in 1..Len(bcast) /\ k + 1 \in 1..Len(bcast) /\ j \in Int /\ k \in Int
          /\ bcast[j + 1] = bcast[k + 1]
      BY <1>1, <2>1
    <3>2. j + 1 = k + 1
      BY <3>1 DEF DeliveryInv, HeardOK
    <3> QED
      BY <3>1, <3>2
  <2>2. ASSUME NEW d \in Events, NEW k \in 1..Len(bcast'), bcast'[k] = d
        PROVE  Heard(d) /\ d # e
    <3>1. k + 1 \in 1..Len(bcast) /\ bcast[k + 1] = d /\ k + 1 # 1
      BY <1>1, <2>2
    <3>2. d # e
      BY <1>1, <3>1 DEF DeliveryInv, HeardOK
    <3> QED
      BY <3>1, <3>2 DEF Heard
  <2> QED
    BY <2>1, <2>2 DEF Heard
<1>6. /\ event[e].at \notin {"none", "stored"}
      /\ ~event[e].here => event[e].at = "published"
      /\ event[e].here /\ e \notin unsure => e \in local
  BY <1>1, <1>4 DEF DeliveryInv, HeardOK
<1>7. m \in SUBSET Reqs /\ \A r \in m : req[r].at # "idle" /\ req[r].topic = event[e].topic
  BY <1>1, <1>6, MatchesOK DEF DeliveryInv, DeliveryOK
<1> HIDE DEF e, m
<1>8. CASE e \in local /\ local' = local \ {e} /\ UNCHANGED fanout
  <2>1. DeliveryOK'
    BY <1>1, <1>2, <1>8 DEF DeliveryInv, DeliveryOK
  <2>2. HeardOK'
    BY <1>2, <1>5, <1>8 DEF DeliveryInv, HeardOK
  <2>3. ConsumedOK' /\ DispatchOK'
    BY <1>2, <1>8 DEF DeliveryInv, ConsumedOK, DispatchOK
  <2>4. MatchOK' /\ SentOK' /\ RoutedOnce' /\ InScope'
    BY <1>2, <1>8 DEF DeliveryInv, MatchOK, SentOK, RoutedOnce, InScope
  <2> QED
    BY <2>1, <2>2, <2>3, <2>4 DEF DeliveryInv
<1>9. CASE /\ e \notin local /\ UNCHANGED local
           /\ fanout' = [fanout EXCEPT ![Consumer] = [event |-> e, matched |-> m]]
  <2>1. /\ fanout'[Consumer] = [event |-> e, matched |-> m]
        /\ \A f \in Fanouts \ {Consumer} : fanout'[f] = fanout[f]
        /\ fanout' \in [Fanouts -> [event : Events \cup {0}, matched : SUBSET Reqs]]
    BY <1>1, <1>7, <1>9 DEF DeliveryInv, DeliveryOK
  <2>2. DeliveryOK'
    BY <1>1, <1>2, <1>9, <2>1 DEF DeliveryInv, DeliveryOK
  <2>3. HeardOK'
    BY <1>2, <1>5, <1>9, <2>1 DEF DeliveryInv, HeardOK
  <2>4. ConsumedOK'
    BY <1>2, <1>6, <1>9, <2>1 DEF DeliveryInv, ConsumedOK
  <2>5. DispatchOK'
    BY <1>2, <1>9, <2>1 DEF DeliveryInv, DispatchOK
  <2>6. MatchOK'
    BY SMTT(30), <1>1, <1>2, <1>7, <2>1 DEF DeliveryInv, MatchOK
  <2>7. SentOK' /\ RoutedOnce' /\ InScope'
    BY <1>2 DEF DeliveryInv, SentOK, RoutedOnce, InScope
  <2> QED
    BY <2>2, <2>3, <2>4, <2>5, <2>6, <2>7 DEF DeliveryInv
<1> QED
  BY <1>3, <1>8, <1>9

\* Whose frames a fan-out sends: the consumer's, or its own event's.
LEMMA FanoutOf ==
    ASSUME DeliveryInv, NEW f \in Fanouts, fanout[f] # NoFanout
    PROVE  fanout[f].event \in Events /\ (f = Consumer \/ f = fanout[f].event)
<1>1. fanout[f] \in [event : Events \cup {0}, matched : SUBSET Reqs]
  BY DEF DeliveryInv, DeliveryOK
<1>2. fanout[f].event # 0
  BY <1>1 DEF DeliveryInv, MatchOK, NoFanout
<1> QED
  BY <1>1, <1>2 DEF DeliveryInv, DispatchOK

\* The frames of a fan-out.
LEMMA SendFrames ==
    ASSUME DeliveryInv, NEW f \in Fanouts, Send(f)
    PROVE  DeliveryInv'
<1> DEFINE e == fanout[f].event
           sent == {r \in fanout[f].matched : Managed(req[r].sub[1])}
<1>0. e \in Events /\ (f = Consumer \/ f = e)
  BY FanoutOf DEF Send
<1>1. /\ got' = [r \in Reqs |-> IF r \in sent THEN [got[r] EXCEPT ![e] = @ + 1] ELSE got[r]]
      /\ fanout' = [fanout EXCEPT ![f] = NoFanout]
      /\ event' = IF f = e \/ ~event[e].here THEN [event EXCEPT ![e].at = "settled"] ELSE event
      /\ UNCHANGED <<bcast, req, local, unsure, faults>>
  BY DEF Send, pubsub, subscriber
<1>u. UNCHANGED <<bcast, req, local, unsure, faults>>
  BY <1>1
<1>2. /\ fanout'[f].event = 0 /\ fanout'[f].matched = {}
      /\ \A g \in Fanouts \ {f} : fanout'[g] = fanout[g]
      /\ fanout' \in [Fanouts -> [event : Events \cup {0}, matched : SUBSET Reqs]]
  BY <1>1 DEF DeliveryInv, DeliveryOK, NoFanout
<1>3. /\ \A r \in Reqs, d \in Events : got'[r][d] = IF r \in sent /\ d = e THEN got[r][d] + 1 ELSE got[r][d]
      /\ got' \in [Reqs -> [Events -> Nat]]
  <2>1. got \in [Reqs -> [Events -> Nat]]
    BY DEF DeliveryInv, DeliveryOK
  <2> HIDE DEF e, sent
  <2>2. ASSUME NEW r \in Reqs
        PROVE  /\ got'[r] \in [Events -> Nat]
               /\ \A d \in Events : got'[r][d] = IF r \in sent /\ d = e THEN got[r][d] + 1 ELSE got[r][d]
    <3>1. CASE r \in sent
      <4>1. got'[r] = [got[r] EXCEPT ![e] = @ + 1]
        BY <1>1, <3>1
      <4> QED
        BY <1>0, <2>1, <3>1, <4>1
    <3>2. CASE r \notin sent
      BY <1>1, <2>1, <3>2
    <3> QED
      BY <3>1, <3>2
  <2>3. DOMAIN got' = Reqs /\ got' = [r \in Reqs |-> got'[r]]
    BY <1>1
  <2> QED
    BY <2>2, <2>3
<1>4. /\ event' \in [Events -> EventType]
      /\ \A d \in Events : event'[d].topic = event[d].topic /\ event'[d].here = event[d].here
      /\ \A d \in Events \ {e} : event'[d].at = event[d].at
      /\ event'[e].at = IF f = e \/ ~event[e].here THEN "settled" ELSE event[e].at
  <2>1. CASE f = e \/ ~event[e].here
    <3>1. Advance(e, "settled")
      BY <1>1, <2>1 DEF Advance
    <3>2. event \in [Events -> EventType]
      BY DEF DeliveryInv, DeliveryOK
    <3> HIDE DEF e
    <3>3. /\ event' \in [Events -> EventType] /\ event'[e].at = "settled"
          /\ event'[e].topic = event[e].topic /\ event'[e].here = event[e].here
          /\ \A d \in Events \ {e} : event'[d] = event[d]
      BY <1>0, <3>1, <3>2, AdvanceType
    <3> QED
      BY <1>0, <2>1, <3>3
  <2>2. CASE ~(f = e \/ ~event[e].here)
    BY <1>1, <2>2 DEF DeliveryInv, DeliveryOK
  <2> QED
    BY <2>1, <2>2
<1>5. /\ event[e].at \notin {"none", "stored", "settled"} \/ e \in unsure
      /\ event[e].at \notin {"none", "stored"}
      /\ f = e => event[e].here /\ event[e].at = "sending"
      /\ f # e => (event[e].here => e \in unsure) /\ (~event[e].here => event[e].at = "published")
      /\ f # e => ~Heard(e)
  BY <1>0 DEF DeliveryInv, ConsumedOK, DispatchOK, HeardOK
<1>6. \A r \in sent : r \in Reqs /\ req[r].at # "idle" /\ req[r].topic = event[e].topic
  BY <1>0 DEF DeliveryInv, DeliveryOK, MatchOK
<1> HIDE DEF sent, e
<1>7. DeliveryOK'
  <2>1. \A d \in Events : event'[d].at # "none" => event'[d].topic \in Topics
    BY <1>0, <1>4, <1>5 DEF DeliveryInv, DeliveryOK
  <2> QED
    BY <1>u, <1>2, <1>3, <1>4, <2>1 DEF DeliveryInv, DeliveryOK
<1>8. HeardOK'
  <2>1. \A d \in Events : Heard(d)' <=> Heard(d)
    BY <1>u DEF Heard
  <2>2. ASSUME NEW d \in Events, Heard(d)
        PROVE  /\ event'[d].at \notin {"none", "stored"}
               /\ fanout'[Consumer].event # d
               /\ ~event'[d].here => event'[d].at = "published"
               /\ event'[d].here /\ d \notin unsure => d \in local
    BY <1>0, <1>2, <1>4, <1>5, <2>2 DEF DeliveryInv, HeardOK
  <2> QED
    BY <1>u, <2>1, <2>2 DEF DeliveryInv, HeardOK
<1>9. ConsumedOK'
  BY <1>0, <1>u, <1>2, <1>4, <1>5 DEF DeliveryInv, ConsumedOK
<1>10. DispatchOK'
  BY <1>0, <1>u, <1>2, <1>4, <1>5 DEF DeliveryInv, DispatchOK
<1>11. MatchOK'
  <2>1. ASSUME NEW g \in Fanouts, fanout'[g].event # 0, NEW r \in fanout'[g].matched
        PROVE  req'[r].at # "idle" /\ req'[r].topic = event'[fanout'[g].event].topic
    <3>1. fanout'[g] = fanout[g] /\ fanout[g].event \in Events
      BY <1>2, <2>1 DEF DeliveryInv, DeliveryOK
    <3> QED
      BY <1>u, <1>4, <2>1, <3>1 DEF DeliveryInv, MatchOK
  <2>2. ASSUME NEW g \in Fanouts, fanout'[g].event = 0
        PROVE  fanout'[g].matched = {}
    BY <1>2, <2>2 DEF DeliveryInv, MatchOK
  <2> QED
    BY <2>1, <2>2 DEF MatchOK
<1>c. got \in [Reqs -> [Events -> Nat]]
  BY DEF DeliveryInv, DeliveryOK
<1>12. SentOK'
  <2>1. ASSUME NEW r \in Reqs, NEW d \in Events
        PROVE  /\ d \notin unsure /\ event'[d].at # "settled" => got'[r][d] = 0
               /\ event'[d].at \in {"none", "stored"} => got'[r][d] = 0
               /\ got'[r][d] > 0 => req[r].at # "idle"
    <3>1. CASE r \in sent /\ d = e
      BY <1>0, <1>4, <1>5, <1>6, <3>1
    <3>2. CASE ~(r \in sent /\ d = e)
      <4>1. got'[r][d] = got[r][d]
        BY <1>3, <3>2
      <4> QED
        BY <1>0, <1>4, <1>5, <4>1 DEF DeliveryInv, SentOK
    <3> QED
      BY <3>1, <3>2
  <2> QED
    BY <1>u, <2>1 DEF SentOK
<1>13. RoutedOnce'
  BY <1>0, <1>u, <1>c, <1>3, <1>5 DEF DeliveryInv, SentOK, RoutedOnce
<1>14. InScope'
  <2>1. ASSUME NEW r \in Reqs, NEW d \in Events, got'[r][d] > 0
        PROVE  req[r].topic = event'[d].topic
    <3>1. CASE r \in sent /\ d = e
      BY <1>0, <1>4, <1>6, <3>1
    <3>2. CASE ~(r \in sent /\ d = e)
      <4>1. got'[r][d] = got[r][d]
        BY <1>3, <3>2
      <4> QED
        BY <1>4, <2>1, <4>1 DEF DeliveryInv, InScope
    <3> QED
      BY <3>1, <3>2
  <2> QED
    BY <1>u, <2>1 DEF InScope
<1> QED
  BY <1>7, <1>8, <1>9, <1>10, <1>11, <1>12, <1>13, <1>14 DEF DeliveryInv

\* Every step keeps the invariant of delivery.
LEMMA DeliveryStep == DeliveryInv /\ RegistryInv /\ ReqsOK /\ [Next]_vars => DeliveryInv'
<1> SUFFICES ASSUME DeliveryInv, RegistryInv, ReqsOK, [Next]_vars
             PROVE  DeliveryInv'
  OBVIOUS
<1>0. Spawned
  BY SpawnedStay
<1>a. ASSUME UNCHANGED <<delivery, faults>>, UNCHANGED bcast \/ Outage PROVE DeliveryInv'
  <2>1. faults' \in 0..MaxFaults
    BY <1>a DEF DeliveryInv, DeliveryOK
  <2> QED
    BY <1>0, <1>a, <2>1, UndeliveredKeeps
<1>1. CASE UNCHANGED vars
  BY <1>1, <1>a DEF vars, subscriber
<1>2. CASE Subscriber \/ Redis \/ \E t \in Topics : Debounce(t)
  BY <1>2, <1>a DEF Subscriber, SubscriberStep, Connect, SubscribeSnapshot, TakeOrder, Unsubscribe,
                    Redis, Debounce, DebounceEnds
<1>3. ASSUME NEW c \in Conns, Client(c) \/ ConnTask(c) PROVE DeliveryInv'
  BY <1>3, <1>a
     DEF Client, ConnTask, Arrive, Refuse, CloseRemove, Req, Admit, Open, EndConn, EndUnlist,
         EndDone, pubsub, subscriber
<1>4. CASE \E w \in Sweeps : FlagSweep(w) \/ Sweep(w)
  BY <1>4, <1>a DEF FlagSweep, Sweep, pubsub, subscriber
<1>5. ASSUME NEW r \in Reqs, ReqTask(r) PROVE DeliveryInv'
  BY <1>5, <1>a, PageOfTask
     DEF ReqRemove, ReqDrop, ReqInsert, ReqPush, ReqRelease, ReqRetain, ReqSend, Page, Release,
         Retain, SendSubscribe, pubsub, subscriber
<1>6. ASSUME NEW r \in Reqs, ReqQueryFails(r) PROVE DeliveryInv'
  <2>1. UNCHANGED <<delivery, bcast>> /\ faults' \in 0..MaxFaults
    BY <1>6 DEF ReqQueryFails, Fault, pubsub, subscriber, DeliveryInv, DeliveryOK
  <2> QED
    BY <1>0, <2>1, UndeliveredKeeps
<1>7. CASE TakenStep \/ Evictor
  BY <1>7, <1>a DEF TakenStep, DropEmptied, ReleaseTaken, Evictor, Evict, EvictRemove, Release,
                    pubsub, subscriber
<1>8. CASE \E e \in Events : Dispatching(e) \/ PublishFails(e) \/ PublishUnanswered(e)
  BY <1>8, StoreKeeps, PublishKeeps, DispatchKeeps DEF Dispatching
<1>9. CASE Consume \/ \E f \in Fanouts : Send(f)
  BY <1>9, ConsumeKeeps, SendFrames
<1> QED
  BY <1>1, <1>2, <1>3, <1>4, <1>5, <1>6, <1>7, <1>8, <1>9 DEF Next, Failing

\* The types of the pod's state hold for any number of connections, requests and
\* events, whatever the order of their steps.
THEOREM PodTypes == Spec => []TypeOK
<1>1. InterestInv /\ SweepInv /\ RegistryInv /\ DeliveryInv => TypeOK
  BY DEF InterestInv, ReqsOK, ReqType, SweepInv, ConnsOK, RegistryInv, IndexOK, DeliveryInv, DeliveryOK,
         EventType, TypeOK
<1>2. InterestInv /\ SweepInv => ReqsOK /\ ConnsOK
  BY DEF InterestInv, SweepInv
<1> QED
  BY InterestInit, InterestStep, SweepInit, SweepStep, RegistryInit, RegistryStep, DeliveryInit,
     DeliveryStep, <1>1, <1>2, PTL DEF Spec

\* The mark in local_event_ids does its work: an event reaches a subscription by its
\* dispatch or by Redis and never by both, except when a PUBLISH was taken to have
\* failed that did not.
THEOREM RoutedAtMostOnce == Spec => []RoutedOnce
<1>1. DeliveryInv => RoutedOnce
  BY DEF DeliveryInv
<1>2. InterestInv /\ SweepInv => ReqsOK /\ ConnsOK
  BY DEF InterestInv, SweepInv
<1> QED
  BY InterestInit, InterestStep, SweepInit, SweepStep, RegistryInit, RegistryStep, DeliveryInit,
     DeliveryStep, <1>1, <1>2, PTL DEF Spec

\* push_match looks a candidate of the index up again, so that a stale index entry
\* never sends a frame to a subscription for another topic.
THEOREM FramesInScope == Spec => []InScope
<1>1. DeliveryInv => InScope
  BY DEF DeliveryInv
<1>2. InterestInv /\ SweepInv => ReqsOK /\ ConnsOK
  BY DEF InterestInv, SweepInv
<1> QED
  BY InterestInit, InterestStep, SweepInit, SweepStep, RegistryInit, RegistryStep, DeliveryInit,
     DeliveryStep, <1>1, <1>2, PTL DEF Spec


-----------------------------------------------------------------------------
(***************************************************************************)
(* The index                                                               *)
(***************************************************************************)

\* Where OnlyDropsHide has a subscription.
Found(s) == s \in index[TopicOf(s)] \/ subs[s] \in hidden

LEMMA HideParts ==
    /\ OnlyDropsHide <=> \A s \in Slots : Served(s) => Found(s)
    /\ OnlyDropsHide' <=> \A s \in Slots : Served(s)' => Found(s)'
BY DEF OnlyDropsHide, Found

\* The entry of s is as it was, and is listed unless it was not or was dropped.
Kept(s) ==
    /\ subs'[s] = subs[s] /\ TopicOf(s)' = TopicOf(s)
    /\ s \in index[TopicOf(s)] => s \in index'[TopicOf(s)] \/ subs[s] \in hidden'

LEMMA KeptFound ==
    ASSUME OnlyDropsHide, hidden \subseteq hidden', NEW s \in Slots, Served(s), Kept(s)
    PROVE  Found(s)'
BY DEF OnlyDropsHide, Kept, Found

LEMMA HideInit == Init => OnlyDropsHide
BY SlotConn DEF Init, OnlyDropsHide, Served

\* Steps that leave the registry alone: an entry's connection was open before.
LEMMA HideKept ==
    ASSUME OnlyDropsHide, RegistryInv, ReqsOK, UNCHANGED <<subs, index, hidden, req>>,
           \A c \in Conns : conn'[c] = "open" => conn[c] \in {"open", "registered"}
    PROVE  OnlyDropsHide'
<1> SUFFICES ASSUME NEW s \in Slots, Served(s)' PROVE Found(s)'
  BY HideParts
<1>1. subs[s] # NoReq
  BY DEF Served
<1>2. conn[s[1]] \in {"open", "ending", "gone"}
  <2>1. subs[s] \in Reqs /\ req[subs[s]].sub = s /\ req[subs[s]].at # "idle"
    BY <1>1 DEF ReqsOK, RegistryInv, EntriesOK
  <2> QED
    BY <2>1 DEF RegistryInv, HandlersOK
<1>3. Served(s) /\ Kept(s)
  <2>1. conn[s[1]] = "open"
    BY <1>2, SlotConn DEF Served
  <2> QED
    BY <2>1 DEF Served, Kept, TopicOf
<1> QED
  BY <1>3, KeptFound

\* Entries are taken out, with their own listings at most.
LEMMA HideLess ==
    ASSUME OnlyDropsHide, ReqsOK, UNCHANGED hidden, NEW D,
           \A s \in Slots : subs'[s] = IF s \in D THEN NoReq ELSE subs[s],
           \A s \in Slots \ D : conn'[s[1]] = conn[s[1]],
           \A q \in Reqs : /\ req'[q].topic = req[q].topic
                           /\ req[q].at = "push" => req'[q].at = "push",
           \A s \in Slots \ D, t \in Topics : s \in index[t] => s \in index'[t],
           EntriesOK
    PROVE  OnlyDropsHide'
<1> SUFFICES ASSUME NEW s \in Slots, Served(s)' PROVE Found(s)'
  BY HideParts
<1>1. s \notin D /\ subs'[s] = subs[s] /\ subs[s] # NoReq
  BY DEF Served
<1>2. subs[s] \in Reqs /\ TopicOf(s) \in Topics
  BY <1>1, EntryTopic
<1>3. Served(s)
  BY <1>1, <1>2 DEF Served
<1>4. TopicOf(s)' = TopicOf(s)
  BY <1>1, <1>2 DEF TopicOf
<1> QED
  BY <1>1, <1>2, <1>3, <1>4, KeptFound DEF Kept

\* The drop of a key hides what is listed under it by then.
LEMMA HideDrop ==
    ASSUME OnlyDropsHide, IndexOK, ReqsOK, EntriesOK, NEW t \in Topics, Drop(t),
           UNCHANGED <<conn, subs>>,
           \A q \in Reqs : req'[q].topic = req[q].topic /\ (req'[q].at = "push" <=> req[q].at = "push")
    PROVE  OnlyDropsHide'
<1> SUFFICES ASSUME NEW s \in Slots, Served(s)' PROVE Found(s)'
  BY HideParts
<1>1. subs[s] # NoReq /\ subs[s] \in Reqs /\ TopicOf(s) \in Topics
  <2>1. subs[s] # NoReq
    BY DEF Served
  <2> QED
    BY <2>1, EntryTopic
<1>2. Served(s) /\ TopicOf(s)' = TopicOf(s) /\ req[subs[s]].at # "push"
  BY <1>1 DEF Served, TopicOf
<1>3. \A u \in Topics \ {t} : index'[u] = index[u]
  BY DEF Drop, IndexOK
<1>4. s \in index[t] /\ TopicOf(s) = t => subs[s] \in hidden'
  BY <1>2 DEF Drop
<1>5. hidden \subseteq hidden'
  BY DEF Drop
<1> QED
  BY <1>1, <1>2, <1>3, <1>4, <1>5, KeptFound DEF Kept

\* CLOSE, the cleanup and the evictions.
LEMMA HideTakeOut ==
    ASSUME OnlyDropsHide, RegistryInv, ReqsOK, NEW x \in Slots, NEW who, subs[x] # NoReq,
           TakeOut(who, x), UNCHANGED <<conn, hidden, req>>
    PROVE  OnlyDropsHide'
<1> DEFINE t == TopicOf(x)
<1>1. /\ subs' = [subs EXCEPT ![x] = NoReq] /\ index' = [index EXCEPT ![t] = @ \ {x}]
      /\ t \in Topics
  BY EntryTopic DEF TakeOut, Unlist, RegistryInv
<1> HIDE DEF t
<1>2. \A s \in Slots : subs'[s] = IF s \in {x} THEN NoReq ELSE subs[s]
  BY <1>1 DEF ReqsOK
<1>3. \A s \in Slots \ {x}, u \in Topics : s \in index[u] => s \in index'[u]
  BY <1>1 DEF RegistryInv, IndexOK
<1> QED
  BY <1>2, <1>3, HideLess DEF RegistryInv

LEMMA HideEnd ==
    ASSUME OnlyDropsHide, RegistryInv, ConnsOK, ReqsOK, NEW c \in Conns, EndConn(c)
    PROVE  OnlyDropsHide'
<1>1. /\ \A s \in Slots : subs'[s] = IF s \in SlotsOf(c) THEN NoReq ELSE subs[s]
      /\ UNCHANGED <<index, hidden, req>>
  BY DEF EndConn, SlotsOf, Slots
<1>2. \A s \in Slots \ SlotsOf(c) : conn'[s[1]] = conn[s[1]]
  BY SlotConn DEF EndConn, Goto, SlotsOf, Slots, ConnsOK
<1> QED
  BY <1>1, <1>2, HideLess DEF RegistryInv

LEMMA HideUnlist ==
    ASSUME OnlyDropsHide, RegistryInv, ReqsOK, NEW x \in Slots, EndUnlist(x)
    PROVE  OnlyDropsHide'
<1> DEFINE k == <<"loop", x>>
           t == taken[k].topic
<1>1. /\ taken[k].at = "listed" /\ index' = [index EXCEPT ![t] = @ \ {x}]
      /\ UNCHANGED <<conn, subs, hidden, req>>
  BY DEF EndUnlist, Unlist, sockets
<1>2. k \in Takings /\ k[2] = x
  BY TakingOf
<1>3. t \in Topics /\ conn[x[1]] = "ending"
  BY <1>1, <1>2 DEF RegistryInv, TakenOK
<1> HIDE DEF k, t
<1> SUFFICES ASSUME NEW s \in Slots, Served(s)' PROVE Found(s)'
  BY HideParts
<1>4. Served(s) /\ s # x
  BY <1>1, <1>3 DEF Served
<1>5. TopicOf(s)' = TopicOf(s)
  BY <1>1 DEF TopicOf
<1>6. TopicOf(s) \in Topics
  BY <1>4, EntryTopic DEF Served, RegistryInv
<1>7. \A u \in Topics : s \in index[u] => s \in index'[u]
  BY <1>1, <1>3, <1>4 DEF RegistryInv, IndexOK
<1> QED
  BY <1>1, <1>4, <1>5, <1>6, <1>7, KeptFound DEF Kept

\* The handlers of REQ.
LEMMA HideHandler ==
    ASSUME OnlyDropsHide, RegistryInv, ReqsOK, NEW r \in Reqs, ReqTask(r) \/ ReqQueryFails(r)
    PROVE  OnlyDropsHide'
<1>0. /\ req[r].at # "idle" /\ req[r].sub \in Slots /\ req[r].topic \in Topics /\ UNCHANGED conn
  BY HandlerOnly
<1>a. /\ subs \in [Slots -> Reqs \cup {NoReq}] /\ index \in [Topics -> SUBSET Slots]
  BY DEF ReqsOK, RegistryInv, IndexOK
<1> DEFINE x == req[r].sub
\* A handler that changes neither its entry nor the index, and is not about to list it.
<1>b. ASSUME UNCHANGED <<subs, index, hidden>>,
             Moves(r, ReqPhases \ {"push"}, ReqPhases)
      PROVE  OnlyDropsHide'
  <2> SUFFICES ASSUME NEW s \in Slots, Served(s)' PROVE Found(s)'
    BY HideParts
  <2>1. subs[s] # NoReq /\ subs[s] \in Reqs
    BY <1>a, <1>b DEF Served
  <2>2. Served(s) /\ Kept(s)
    BY <1>0, <1>b, <2>1 DEF Served, Kept, TopicOf, Moves
  <2> QED
    BY <1>b, <2>2, KeptFound
<1>1. CASE ReqRemove(r)
  <2>1. CASE subs[x] = NoReq
    <3>1. Moves(r, ReqPhases \ {"push"}, ReqPhases) /\ UNCHANGED <<subs, index, hidden>>
      BY <1>1, <2>1, HandlerMoves DEF Moves, ReqPhases
    <3> QED
      BY <1>b, <3>1
  <2>2. CASE subs[x] # NoReq
    <3> DEFINE t == TopicOf(x)
    <3>1. /\ Moves(r, {"remove"}, {"emptied", "insert"}) /\ hidden' = hidden
          /\ subs' = [subs EXCEPT ![x] = NoReq] /\ index' = [index EXCEPT ![t] = @ \ {x}]
      BY <1>1, <2>2, HandlerMoves
    <3>2. t \in Topics
      BY <1>0, <2>2, EntryTopic DEF RegistryInv
    <3> HIDE DEF t
    <3>3. \A s \in Slots : subs'[s] = IF s \in {x} THEN NoReq ELSE subs[s]
      BY <1>a, <3>1
    <3>4. \A s \in Slots \ {x}, u \in Topics : s \in index[u] => s \in index'[u]
      BY <1>a, <3>1, <3>2
    <3>5. \A q \in Reqs : req'[q].topic = req[q].topic /\ (req[q].at = "push" => req'[q].at = "push")
      BY <3>1 DEF Moves
    <3> HIDE DEF x
    <3> QED
      BY <1>0, <3>1, <3>3, <3>4, <3>5, HideLess DEF RegistryInv
  <2> QED
    BY <2>1, <2>2
<1>2. CASE ReqDrop(r)
  <2>1. req[r].old \in Topics /\ Drop(req[r].old)
    BY <1>2 DEF ReqDrop, RegistryInv, HandlersOK
  <2>2. Moves(r, {"emptied"}, {"insert"}) /\ subs' = subs
    BY <1>2, HandlerMoves
  <2>3. \A q \in Reqs : req'[q].topic = req[q].topic /\ (req'[q].at = "push" <=> req[q].at = "push")
    BY <2>2 DEF Moves
  <2> QED
    BY <1>0, <2>1, <2>2, <2>3, HideDrop DEF RegistryInv
<1>3. CASE ReqInsert(r)
  <2>1. /\ Moves(r, {"insert"}, {"push"}) /\ subs' = [subs EXCEPT ![x] = r]
        /\ UNCHANGED <<index, hidden>>
    BY <1>3, HandlerMoves
  <2> SUFFICES ASSUME NEW s \in Slots, Served(s)' PROVE Found(s)'
    BY HideParts
  <2>2. s # x
    BY <1>a, <2>1 DEF Served, Moves
  <2>3. subs'[s] = subs[s] /\ subs[s] # NoReq /\ subs[s] \in Reqs
    BY <1>a, <2>1, <2>2 DEF Served
  <2>4. subs[s] # r
    BY <2>1, <2>3 DEF Moves, RegistryInv, EntriesOK
  <2>5. Served(s) /\ Kept(s)
    BY <1>0, <2>1, <2>3, <2>4 DEF Served, Kept, TopicOf, Moves
  <2> QED
    BY <2>1, <2>5, KeptFound
<1>4. CASE ReqPush(r)
  <2>1. /\ Moves(r, {"push"}, {"release", "retain"}) /\ UNCHANGED <<subs, hidden>>
        /\ index' = [index EXCEPT ![req[r].topic] = @ \cup {x}]
    BY <1>4, HandlerMoves
  <2> SUFFICES ASSUME NEW s \in Slots, Served(s)' PROVE Found(s)'
    BY HideParts
  <2>2. subs'[s] = subs[s] /\ subs[s] # NoReq /\ subs[s] \in Reqs
    BY <1>a, <2>1 DEF Served
  <2>3. TopicOf(s)' = TopicOf(s) /\ TopicOf(s) = req[subs[s]].topic
    BY <2>1, <2>2 DEF Moves, TopicOf
  <2>4. CASE subs[s] = r
    <3>1. x = s
      BY <2>2, <2>4 DEF RegistryInv, EntriesOK
    <3>2. s \in index'[req[r].topic]
      BY <1>0, <1>a, <2>1, <3>1
    <3> QED
      BY <2>3, <2>4, <3>2 DEF Found
  <2>5. CASE subs[s] # r
    <3>1. Served(s)
      BY <1>0, <2>1, <2>2, <2>5 DEF Served, Moves
    <3>2. TopicOf(s) \in Topics
      BY <2>2, EntryTopic DEF RegistryInv
    <3>3. s \in index[TopicOf(s)] => s \in index'[TopicOf(s)]
      BY <1>0, <1>a, <2>1, <3>2
    <3> QED
      BY <2>1, <2>2, <2>3, <3>1, <3>3, KeptFound DEF Kept
  <2> QED
    BY <2>4, <2>5
<1>5. CASE \/ ReqRelease(r) \/ ReqRetain(r) \/ ReqSend(r)
           \/ (\E behind \in SUBSET Events : Page(r, behind)) \/ ReqQueryFails(r)
  <2>1. Moves(r, ReqPhases \ {"push"}, ReqPhases) /\ UNCHANGED <<subs, index, hidden>>
    BY <1>5, HandlerMoves DEF Moves, ReqPhases
  <2> QED
    BY <1>b, <2>1
<1> QED
  BY <1>1, <1>2, <1>3, <1>4, <1>5, PageOfTask

\* A handler that is spawned has no entry yet.
LEMMA HideSpawn ==
    ASSUME OnlyDropsHide, RegistryInv, ReqsOK, NEW r \in Reqs, NEW x \in Slots, NEW t \in Topics,
           Req(r, x, t)
    PROVE  OnlyDropsHide'
<1>1. /\ req[r].at = "idle" /\ \A q \in Reqs \ {r} : req'[q] = req[q]
      /\ UNCHANGED <<conn, subs, index, hidden>>
  BY DEF Req, ReqsOK, sockets, registry
<1> SUFFICES ASSUME NEW s \in Slots, Served(s)' PROVE Found(s)'
  BY HideParts
<1>2. subs[s] # NoReq /\ subs[s] \in Reqs
  BY <1>1 DEF Served, ReqsOK
<1>3. subs[s] # r
  BY <1>1, <1>2 DEF RegistryInv, EntriesOK
<1>4. Served(s) /\ Kept(s)
  BY <1>1, <1>2, <1>3 DEF Served, Kept, TopicOf
<1> QED
  BY <1>1, <1>4, KeptFound

LEMMA HideStep == OnlyDropsHide /\ RegistryInv /\ ConnsOK /\ ReqsOK /\ [Next]_vars => OnlyDropsHide'
<1> SUFFICES ASSUME OnlyDropsHide, RegistryInv, ConnsOK, ReqsOK, [Next]_vars
             PROVE  OnlyDropsHide'
  OBVIOUS
<1>a. ASSUME UNCHANGED <<conn, subs, index, hidden, req>> PROVE OnlyDropsHide'
  BY <1>a, HideKept
<1>1. CASE UNCHANGED vars
  BY <1>1, <1>a DEF vars, sockets, registry
<1>2. CASE Subscriber \/ Redis \/ \E t \in Topics : Debounce(t)
  BY <1>2, <1>a DEF Subscriber, Redis, Debounce, sockets, registry
<1>3. ASSUME NEW c \in Conns, Client(c) \/ ConnTask(c) PROVE OnlyDropsHide'
  <2>1. ASSUME Arrive(c) \/ Refuse(c) \/ Admit(c) \/ Open(c) \/ EndDone(c) PROVE OnlyDropsHide'
    <3>1. UNCHANGED <<subs, index, hidden, req>>
      BY <2>1 DEF Arrive, Refuse, Admit, Open, EndDone, registry
    <3>2. \A d \in Conns : conn'[d] = "open" => conn[d] \in {"open", "registered"}
      BY <2>1 DEF Arrive, Refuse, Admit, Open, EndDone, Goto, ConnsOK
    <3> QED
      BY <3>1, <3>2, HideKept
  <2>2. ASSUME NEW s \in Slots, CloseRemove(s) PROVE OnlyDropsHide'
    BY <2>2, HideTakeOut DEF CloseRemove, sockets
  <2> QED
    BY <1>3, <2>1, <2>2, SlotOf, HideEnd, HideUnlist, HideSpawn DEF Client, ConnTask
<1>4. CASE \E w \in Sweeps : FlagSweep(w) \/ Sweep(w)
  BY <1>4, <1>a DEF FlagSweep, Sweep, registry
<1>5. CASE \E r \in Reqs : ReqTask(r) \/ ReqQueryFails(r)
  BY <1>5, HideHandler
<1>6. ASSUME NEW k \in Takings, DropEmptied(k) PROVE OnlyDropsHide'
  <2>1. taken[k].topic \in Topics /\ Drop(taken[k].topic) /\ UNCHANGED <<conn, subs, req>>
    BY <1>6 DEF DropEmptied, RegistryInv, TakenOK, sockets
  <2> QED
    BY <2>1, HideDrop DEF RegistryInv
<1>7. CASE \E k \in Takings : ReleaseTaken(k)
  BY <1>7, <1>a DEF ReleaseTaken, sockets
<1>8. CASE \E c \in Conns, t \in Topics : Evict(c, t)
  BY <1>8, <1>a DEF Evict, sockets, registry
<1>9. ASSUME NEW s \in Slots, EvictRemove(s) PROVE OnlyDropsHide'
  <2>1. UNCHANGED <<conn, hidden, req>>
    BY <1>9 DEF EvictRemove, sockets
  <2>2. CASE subs[s] = NoReq
    BY <1>9, <1>a, <2>1, <2>2 DEF EvictRemove
  <2>3. CASE subs[s] # NoReq
    BY <1>9, <2>1, <2>3, HideTakeOut DEF EvictRemove
  <2> QED
    BY <2>2, <2>3
<1>10. CASE \E e \in Events : Dispatching(e) \/ PublishFails(e) \/ PublishUnanswered(e)
  BY <1>10, <1>a DEF Dispatching, Store, PublishElsewhere, Publish, PublishAnswered,
                     PublishFails, PublishUnanswered, sockets, registry
<1>11. CASE Consume \/ \E f \in Fanouts : Send(f)
  BY <1>11, <1>a DEF Consume, Send, sockets, registry
<1> QED
  BY <1>1, <1>2, <1>3, <1>4, <1>5, <1>6, <1>7, <1>8, <1>9, <1>10, <1>11
     DEF Next, Failing, TakenStep, Evictor

\* The drop of an index key that was filled again since it was found empty is the one
\* step that hides a subscription from the fan-out: whatever REQs, replacements, CLOSE,
\* evictions and ends of connections do otherwise, each complete subscription of a
\* connection that is served can be found.
THEOREM IndexHidesByDropsOnly == Spec => []OnlyDropsHide
<1>1. InterestInv /\ SweepInv => ReqsOK /\ ConnsOK
  BY DEF InterestInv, SweepInv
<1> QED
  BY InterestInit, InterestStep, SweepInit, SweepStep, RegistryInit, RegistryStep, HideInit,
     HideStep, <1>1, PTL DEF Spec

-----------------------------------------------------------------------------
(***************************************************************************)
(* Gaps                                                                    *)
(***************************************************************************)

\* The subscription of r is set up and is found by every fan-out.
Listening(r) ==
    /\ req[r].at \in Settling /\ conn[req[r].sub[1]] = "open"
    /\ subs[req[r].sub] = r /\ r \notin hidden

\* An event of its topic that was not fanned out before the subscription was listed.
Missing(r, e) ==
    /\ Listening(r) /\ e \notin req[r].early
    /\ event[e].at # "none" /\ event[e].topic = req[r].topic

\* It is matched by the fan-out that settles it, and was sent once it is settled.
GapInv ==
    \A r \in Reqs, e \in Events : Missing(r, e) =>
        /\ event[e].at = "sending" => r \in fanout[e].matched
        /\ ~event[e].here /\ fanout[Consumer].event = e => r \in fanout[Consumer].matched
        /\ event[e].at = "settled" => got[r][e] > 0

\* What was fanned out before is looked up, by the writer or by a replica.
LookedUp ==
    \A r \in Reqs : req[r].at \in Settling => \A e \in req[r].early :
        /\ event[e].at # "none"
        /\ req[r].at = "done" /\ event[e].topic = req[r].topic => e \in req[r].seen \cup req[r].behind

\* What a listing rests on stays as it was, or is lost for good.
Listings ==
    /\ \A c \in Conns : conn'[c] = "open" => conn[c] \in {"open", "registered"}
    /\ \A s \in Slots, q \in Reqs : subs'[s] = q => subs[s] = q \/ ReqInsert(q)
    /\ hidden \subseteq hidden'

LEMMA ListingsStay ==
    ASSUME ConnsOK, ReqsOK, [Next]_vars
    PROVE  Listings
<1>0. \A q \in Reqs : q # NoReq
  BY DEF Reqs, NoReq
<1>a. subs \in [Slots -> Reqs \cup {NoReq}] /\ conn \in [Conns -> ConnPhases]
  BY DEF ReqsOK, ConnsOK
<1>b. ASSUME UNCHANGED <<conn, subs>>, hidden \subseteq hidden' PROVE Listings
  BY <1>b DEF Listings
<1>c. ASSUME UNCHANGED <<conn, hidden>>, NEW x, subs' = [subs EXCEPT ![x] = NoReq] PROVE Listings
  BY <1>0, <1>a, <1>c DEF Listings
<1>1. CASE UNCHANGED vars
  BY <1>1, <1>b DEF vars, sockets, registry
<1>2. CASE Subscriber \/ Redis \/ \E t \in Topics : Debounce(t)
  BY <1>2, <1>b DEF Subscriber, Redis, Debounce, sockets, registry
<1>3. ASSUME NEW c \in Conns, Client(c) \/ ConnTask(c) PROVE Listings
  <2>1. CASE Arrive(c) \/ Refuse(c) \/ Admit(c) \/ Open(c) \/ EndDone(c)
    BY <1>a, <2>1 DEF Arrive, Refuse, Admit, Open, EndDone, Goto, registry, Listings
  <2>2. CASE EndConn(c)
    BY <1>0, <1>a, <2>2 DEF EndConn, Goto, Listings
  <2>3. ASSUME NEW s \in Slots, CloseRemove(s) PROVE Listings
    BY <1>c, <2>3 DEF CloseRemove, TakeOut, sockets
  <2>4. ASSUME NEW s \in Slots, EndUnlist(s) PROVE Listings
    BY <1>b, <2>4 DEF EndUnlist, sockets
  <2>5. ASSUME NEW s \in Slots, NEW r \in Reqs, NEW t \in Topics, Req(r, s, t) PROVE Listings
    BY <1>b, <2>5 DEF Req, sockets, registry
  <2> QED
    BY <1>3, <2>1, <2>2, <2>3, <2>4, <2>5, SlotOf DEF Client, ConnTask
<1>4. CASE \E w \in Sweeps : FlagSweep(w) \/ Sweep(w)
  BY <1>4, <1>b DEF FlagSweep, Sweep, registry
<1>5. ASSUME NEW r \in Reqs, ReqTask(r) \/ ReqQueryFails(r) PROVE Listings
  <2>1. UNCHANGED conn /\ req[r].sub \in Slots
    BY <1>5, HandlerOnly
  <2>2. CASE ReqRemove(r) /\ subs[req[r].sub] # NoReq
    BY <1>c, <2>1, <2>2, HandlerMoves
  <2>3. CASE ReqDrop(r)
    BY <1>b, <2>1, <2>3, HandlerMoves DEF ReqDrop, Drop
  <2>4. CASE ReqInsert(r)
    <3>1. subs' = [subs EXCEPT ![req[r].sub] = r] /\ UNCHANGED hidden
      BY <2>4, HandlerMoves
    <3> QED
      BY <1>a, <2>1, <2>4, <3>1 DEF Listings
  <2>5. CASE \/ ReqRemove(r) /\ subs[req[r].sub] = NoReq
             \/ ReqPush(r) \/ ReqRelease(r) \/ ReqRetain(r) \/ ReqSend(r)
             \/ (\E behind \in SUBSET Events : Page(r, behind)) \/ ReqQueryFails(r)
    <3>1. UNCHANGED <<subs, hidden>>
      BY <2>5, HandlerMoves
    <3> QED
      BY <1>b, <2>1, <3>1
  <2> QED
    BY <1>5, <2>2, <2>3, <2>4, <2>5, PageOfTask
<1>6. CASE \E k \in Takings : DropEmptied(k) \/ ReleaseTaken(k)
  BY <1>6, <1>b DEF DropEmptied, Drop, ReleaseTaken, sockets
<1>7. CASE \E c \in Conns, t \in Topics : Evict(c, t)
  BY <1>7, <1>b DEF Evict, sockets, registry
<1>8. ASSUME NEW s \in Slots, EvictRemove(s) PROVE Listings
  <2>1. CASE subs[s] = NoReq
    BY <1>8, <1>b, <2>1 DEF EvictRemove, sockets
  <2>2. CASE subs[s] # NoReq
    BY <1>8, <1>c, <2>2 DEF EvictRemove, TakeOut, sockets
  <2> QED
    BY <2>1, <2>2
<1>9. CASE \E e \in Events : Dispatching(e) \/ PublishFails(e) \/ PublishUnanswered(e)
  BY <1>9, <1>b DEF Dispatching, Store, PublishElsewhere, Publish, PublishAnswered,
                    PublishFails, PublishUnanswered, sockets, registry
<1>10. CASE Consume \/ \E f \in Fanouts : Send(f)
  BY <1>10, <1>b DEF Consume, Send, sockets, registry
<1> QED
  BY <1>1, <1>2, <1>3, <1>4, <1>5, <1>6, <1>7, <1>8, <1>9, <1>10
     DEF Next, Failing, TakenStep, Evictor

\* The handler of r as it was.
SameReq(r) ==
    /\ req[r].at \in Settling
    /\ req'[r].sub = req[r].sub /\ req'[r].topic = req[r].topic /\ req'[r].early = req[r].early
    /\ req'[r].at = "done" =>
           \/ req[r].at = "done" /\ req'[r].seen = req[r].seen /\ req'[r].behind = req[r].behind
           \/ req'[r].seen = Stored(req[r].topic) \ req'[r].behind

\* What a handler does about its listing and its page.
LEMMA HandlerSame ==
    ASSUME ReqsOK, NEW r \in Reqs, ReqTask(r) \/ ReqQueryFails(r), req'[r].at \in Settling
    PROVE  SameReq(r) \/ ReqPush(r)
<1>a. req \in [Reqs -> ReqType]
  BY DEF ReqsOK
<1>1. CASE ReqRemove(r) \/ ReqDrop(r) \/ ReqInsert(r)
  BY <1>1, HandlerMoves DEF Moves, Settling
<1>2. CASE ReqRelease(r)
  BY <1>a, <1>2 DEF ReqRelease, SameReq, Settling, ReqType
<1>3. CASE ReqRetain(r) \/ ReqSend(r) \/ ReqQueryFails(r)
  <2>1. PICK p \in {"send", "query", "failed"} : req' = [req EXCEPT ![r].at = p]
    BY <1>3 DEF ReqRetain, ReqSend, ReqQueryFails, Step
  <2>2. req[r].at \in Settling
    BY <1>3 DEF ReqRetain, ReqSend, ReqQueryFails, Settling
  <2> QED
    BY <1>a, <2>1, <2>2 DEF SameReq, ReqType
<1>4. ASSUME NEW behind \in SUBSET Events, Page(r, behind) PROVE SameReq(r)
  <2> DEFINE seen == Stored(req[r].topic) \ behind
  <2>1. req' = [req EXCEPT ![r].at = "done", ![r].behind = behind, ![r].seen = seen]
        /\ req[r].at \in Settling
    BY <1>4 DEF Page, Settling
  <2>2. seen = Stored(req[r].topic) \ behind
    OBVIOUS
  <2> HIDE DEF seen
  <2>3. /\ req'[r].sub = req[r].sub /\ req'[r].topic = req[r].topic /\ req'[r].early = req[r].early
        /\ req'[r].seen = seen /\ req'[r].behind = behind
    BY <1>a, <2>1 DEF ReqType
  <2> QED
    BY <2>1, <2>2, <2>3 DEF SameReq
<1> QED
  BY <1>1, <1>2, <1>3, <1>4, PageOfTask

LEMMA ReqsStay ==
    ASSUME ReqsOK, [Next]_vars, NEW r \in Reqs, req'[r].at \in Settling
    PROVE  SameReq(r) \/ ReqPush(r)
<1>a. ASSUME UNCHANGED req PROVE SameReq(r)
  BY <1>a DEF SameReq
<1>1. CASE UNCHANGED vars
  BY <1>1, <1>a DEF vars
<1>2. CASE Subscriber \/ Redis \/ \E t \in Topics : Debounce(t)
  BY <1>2, <1>a DEF Subscriber, Redis, Debounce
<1>3. ASSUME NEW c \in Conns, Client(c) \/ ConnTask(c) PROVE SameReq(r)
  <2>1. ASSUME NEW q \in Reqs, NEW s, NEW t \in Topics, Req(q, s, t) PROVE SameReq(r)
    BY <2>1 DEF Req, ReqsOK, ReqType, NewReq, Settling, SameReq
  <2> QED
    BY <1>3, <1>a, <2>1
       DEF Client, ConnTask, Arrive, Refuse, CloseRemove, Admit, Open, EndConn, EndUnlist, EndDone
<1>4. CASE \E w \in Sweeps : FlagSweep(w) \/ Sweep(w)
  BY <1>4, <1>a DEF FlagSweep, Sweep
<1>5. ASSUME NEW q \in Reqs, ReqTask(q) \/ ReqQueryFails(q) PROVE SameReq(r) \/ ReqPush(r)
  <2>1. CASE q = r
    BY <1>5, <2>1, HandlerSame
  <2>2. CASE q # r
    <3>1. Moves(q, ReqPhases, ReqPhases)
      BY <1>5, HandlerMoves, PageOfTask DEF Moves, ReqPhases
    <3>2. req'[r] = req[r]
      BY <2>2, <3>1 DEF Moves
    <3> QED
      BY <3>2 DEF SameReq
  <2> QED
    BY <2>1, <2>2
<1>6. CASE TakenStep \/ Evictor
  BY <1>6, <1>a DEF TakenStep, DropEmptied, ReleaseTaken, Evictor, Evict, EvictRemove
<1>7. CASE \E e \in Events : Dispatching(e) \/ PublishFails(e) \/ PublishUnanswered(e)
  BY <1>7, <1>a DEF Dispatching, Store, PublishElsewhere, Publish, PublishAnswered, PublishFails,
                    PublishUnanswered
<1>8. CASE Consume \/ \E f \in Fanouts : Send(f)
  BY <1>8, <1>a DEF Consume, Send
<1> QED
  BY <1>1, <1>2, <1>3, <1>4, <1>5, <1>6, <1>7, <1>8 DEF Next, Failing

\* A subscription begins to listen when it is listed.
LEMMA ListeningStays ==
    ASSUME ConnsOK, ReqsOK, RegistryInv, [Next]_vars, NEW r \in Reqs, Listening(r)'
    PROVE  (Listening(r) /\ SameReq(r)) \/ ReqPush(r)
<1> SUFFICES ASSUME ~ReqPush(r) PROVE Listening(r) /\ SameReq(r)
  OBVIOUS
<1>1. SameReq(r)
  BY ReqsStay DEF Listening
<1>2. Listings
  BY ListingsStay
<1>3. req[r].at # "idle" /\ req[r].sub \in Slots /\ req[r].sub[1] \in Conns
  BY <1>1, SlotConn DEF SameReq, Settling, ReqsOK
<1>4. conn[req[r].sub[1]] = "open"
  BY <1>1, <1>2, <1>3 DEF Listening, SameReq, Listings, RegistryInv, HandlersOK
<1>5. subs[req[r].sub] = r
  <2>1. ~ReqInsert(r)
    BY <1>1 DEF ReqInsert, SameReq, Settling
  <2> QED
    BY <1>1, <1>2, <1>3, <2>1 DEF Listening, SameReq, Listings
<1>6. r \notin hidden
  BY <1>2 DEF Listening, Listings
<1> QED
  BY <1>1, <1>4, <1>5, <1>6 DEF Listening, SameReq

\* An event stays stored, and keeps its topic.
LEMMA EventsStay ==
    ASSUME DeliveryInv, [Next]_vars
    PROVE  \A e \in Events : event[e].at # "none" =>
               event'[e].at # "none" /\ event'[e].topic = event[e].topic
<1> DEFINE Stay == \A e \in Events : event[e].at # "none" =>
                       event'[e].at # "none" /\ event'[e].topic = event[e].topic
<1>a. ASSUME UNCHANGED event PROVE Stay
  BY <1>a
<1>b. event \in [Events -> EventType]
  BY DEF DeliveryInv, DeliveryOK
<1>c. ASSUME NEW e \in Events, NEW p \in {"published", "sending", "settled"}, Advance(e, p) PROVE Stay
  BY <1>b, <1>c, AdvanceType
<1>1. CASE UNCHANGED vars
  BY <1>1 DEF vars, delivery
<1>2. CASE Subscriber \/ Redis \/ \E t \in Topics : Debounce(t)
  BY <1>2 DEF Subscriber, Redis, Debounce, delivery
<1>3. ASSUME NEW c \in Conns, Client(c) \/ ConnTask(c) PROVE Stay
  BY <1>3 DEF Client, ConnTask, Arrive, Refuse, CloseRemove, Req, Admit, Open, EndConn, EndUnlist,
              EndDone, delivery
<1>4. CASE \E w \in Sweeps : FlagSweep(w) \/ Sweep(w)
  BY <1>4 DEF FlagSweep, Sweep, delivery
<1>5. ASSUME NEW r \in Reqs, ReqTask(r) \/ ReqQueryFails(r) PROVE Stay
  BY <1>5, PageOfTask DEF ReqRemove, ReqDrop, ReqInsert, ReqPush, ReqRelease, ReqRetain, ReqSend,
                          Page, ReqQueryFails, delivery
<1>6. CASE TakenStep \/ Evictor
  BY <1>6 DEF TakenStep, DropEmptied, ReleaseTaken, Evictor, Evict, EvictRemove, delivery
<1>7. ASSUME NEW e \in Events, Dispatching(e) \/ PublishFails(e) \/ PublishUnanswered(e) PROVE Stay
  <2>1. ASSUME NEW t \in Topics, NEW h \in BOOLEAN, Store(e, t, h) PROVE Stay
    BY <1>b, <2>1 DEF Store
  <2> QED
    BY <1>7, <1>c, <2>1 DEF Dispatching, PublishElsewhere, Publish, PublishAnswered, PublishFails,
                            PublishUnanswered
<1>8. CASE Consume
  BY <1>8 DEF Consume
<1>9. ASSUME NEW f \in Fanouts, Send(f) PROVE Stay
  <2>1. fanout[f].event \in Events
    BY <1>9, FanoutOf DEF Send
  <2>2. Advance(fanout[f].event, "settled") \/ UNCHANGED event
    <3>1. f = fanout[f].event \/ f = Consumer
      BY <1>9, FanoutOf DEF Send
    <3> QED
      BY <1>9, <3>1 DEF Send, Advance
  <2> QED
    BY <1>c, <2>1, <2>2
<1> QED
  BY <1>1, <1>2, <1>3, <1>4, <1>5, <1>6, <1>7, <1>8, <1>9 DEF Next, Failing

LEMMA LookedUpStep ==
    LookedUp /\ DeliveryInv /\ ReqsOK /\ [Next]_vars => LookedUp'
<1> SUFFICES ASSUME LookedUp, DeliveryInv, ReqsOK, [Next]_vars,
                    NEW r \in Reqs, req'[r].at \in Settling, NEW e \in req'[r].early
             PROVE  /\ event'[e].at # "none"
                    /\ req'[r].at = "done" /\ event'[e].topic = req'[r].topic
                         => e \in req'[r].seen \cup req'[r].behind
  BY DEF LookedUp
<1>1. CASE SameReq(r)
  <2>1. e \in req[r].early /\ e \in Events
    BY <1>1 DEF SameReq, ReqsOK, ReqType
  <2>2. event[e].at # "none"
    BY <1>1, <2>1 DEF SameReq, LookedUp
  <2>3. event'[e].at # "none" /\ event'[e].topic = event[e].topic
    BY <2>1, <2>2, EventsStay
  <2>4. e \in Stored(req[r].topic) <=> event[e].topic = req[r].topic
    BY <2>1, <2>2 DEF Stored
  <2> QED
    BY <1>1, <2>1, <2>2, <2>3, <2>4 DEF SameReq, LookedUp
<1>2. CASE ReqPush(r)
  <2>1. req'[r].early = Matched /\ req'[r].at \in {"release", "retain"}
    BY <1>2, HandlerMoves DEF Moves
  <2>2. e \in Events /\ event[e].at # "none"
    BY <2>1 DEF Matched, DeliveryInv, ConsumedOK
  <2>3. event'[e].at # "none"
    BY <2>2, EventsStay
  <2> QED
    BY <2>1, <2>3
<1> QED
  BY <1>1, <1>2, ReqsStay

\* A step that leaves events alone makes nothing missing that was not.
LEMMA GapKept ==
    ASSUME GapInv, ConnsOK, ReqsOK, RegistryInv, [Next]_vars, UNCHANGED delivery
    PROVE  GapInv'
<1> SUFFICES ASSUME NEW r \in Reqs, NEW e \in Events, Missing(r, e)'
             PROVE  /\ event[e].at = "sending" => r \in fanout[e].matched
                    /\ ~event[e].here /\ fanout[Consumer].event = e => r \in fanout[Consumer].matched
                    /\ event[e].at = "settled" => got[r][e] > 0
  BY DEF GapInv, delivery
<1>1. CASE Listening(r) /\ SameReq(r)
  <2>1. Missing(r, e)
    BY <1>1 DEF Missing, SameReq, delivery
  <2> QED
    BY <2>1 DEF GapInv
<1>2. CASE ReqPush(r)
  <2>1. e \notin Matched
    BY <1>2, HandlerMoves DEF Missing
  <2> QED
    BY <2>1 DEF Matched
<1> QED
  BY <1>1, <1>2, ListeningStays DEF Missing

\* What a fan-out takes in.
LEMMA MatchesListening ==
    ASSUME OnlyDropsHide, RegistryInv, ReqsOK, NEW r \in Reqs, Listening(r)
    PROVE  r \in Matches(req[r].topic)
<1> DEFINE s == req[r].sub
<1>1. s \in Slots /\ subs[s] = r /\ r # NoReq /\ req[r].at # "push"
  BY DEF Listening, Settling, ReqsOK, NoReq, Reqs
<1>2. Served(s) /\ TopicOf(s) = req[r].topic
  BY <1>1 DEF Listening, Served, TopicOf
<1>3. s \in index[req[r].topic]
  BY <1>1, <1>2 DEF OnlyDropsHide, Listening
<1> QED
  BY <1>1, <1>2, <1>3 DEF Matches

\* The steps of an event.
LEMMA GapEvents ==
    ASSUME GapInv, OnlyDropsHide, DeliveryInv, ReqsOK, RegistryInv, NEW e \in Events,
           Dispatching(e) \/ PublishFails(e) \/ PublishUnanswered(e)
    PROVE  GapInv'
<1>1. UNCHANGED <<conn, subs, hidden, req, got>>
  BY DEF Dispatching, Store, PublishElsewhere, Publish, PublishAnswered, PublishFails,
         PublishUnanswered, sockets, registry
<1>2. /\ \A d \in Events \ {e} : event'[d] = event[d]
      /\ \A f \in Fanouts \ {e} : fanout'[f] = fanout[f]
  BY DEF Dispatching, Store, PublishElsewhere, Publish, PublishAnswered, PublishFails,
         PublishUnanswered, FanOut, Advance, DeliveryInv, DeliveryOK
<1>3. SUFFICES ASSUME NEW r \in Reqs, Missing(r, e)'
               PROVE  /\ event'[e].at = "sending" => r \in fanout'[e].matched
                      /\ ~event'[e].here /\ fanout'[Consumer].event = e => r \in fanout'[Consumer].matched
                      /\ event'[e].at = "settled" => got'[r][e] > 0
  <2>1. ASSUME NEW r \in Reqs, NEW d \in Events \ {e}, Missing(r, d)' PROVE Missing(r, d)
    BY <1>1, <1>2, <2>1 DEF Missing, Listening
  <2> QED
    BY <1>1, <1>2, <1>3, <2>1 DEF GapInv
<1>4. Listening(r) /\ event'[e].topic = req[r].topic
  BY <1>1, <1>3 DEF Missing, Listening
<1>5. CASE \E t \in Topics, h \in BOOLEAN : Store(e, t, h)
  <2>1. event[e].at = "none" /\ event'[e].at = "stored" /\ UNCHANGED fanout
    BY <1>5 DEF Store, DeliveryInv, DeliveryOK
  <2>2. fanout[Consumer].event # e
    BY <2>1 DEF DeliveryInv, ConsumedOK
  <2> QED
    BY <2>1, <2>2
<1>6. CASE PublishElsewhere(e) \/ Publish(e)
  <2>1. Advance(e, "published") /\ event[e].at = "stored" /\ UNCHANGED fanout
    BY <1>6 DEF PublishElsewhere, Publish
  <2>2. event'[e].at = "published"
    BY <2>1, AdvanceType DEF DeliveryInv, DeliveryOK
  <2>3. fanout[Consumer].event # e
    BY <2>1 DEF DeliveryInv, ConsumedOK
  <2> QED
    BY <2>1, <2>2, <2>3
<1>7. CASE PublishAnswered(e) \/ PublishFails(e) \/ PublishUnanswered(e)
  <2>1. Advance(e, "sending") /\ FanOut(e, e) /\ event[e].here
    BY <1>7 DEF PublishAnswered, PublishFails, PublishUnanswered
  <2>2. event'[e].at = "sending" /\ event'[e].topic = event[e].topic /\ event'[e].here
    BY <2>1, AdvanceType DEF DeliveryInv, DeliveryOK
  <2>3. fanout'[e].matched = Matches(event[e].topic)
    BY <2>1 DEF FanOut, DeliveryInv, DeliveryOK
  <2> QED
    BY <1>4, <2>2, <2>3, MatchesListening
<1> QED
  BY <1>5, <1>6, <1>7 DEF Dispatching

LEMMA GapConsume ==
    ASSUME GapInv, OnlyDropsHide, DeliveryInv, ReqsOK, RegistryInv, Consume
    PROVE  GapInv'
<1>1. UNCHANGED <<conn, subs, hidden, req, got, event>>
  BY DEF Consume, sockets, registry
<1> SUFFICES ASSUME NEW r \in Reqs, NEW e \in Events, Missing(r, e)
             PROVE  /\ event[e].at = "sending" => r \in fanout'[e].matched
                    /\ ~event[e].here /\ fanout'[Consumer].event = e => r \in fanout'[Consumer].matched
                    /\ event[e].at = "settled" => got[r][e] > 0
  BY <1>1 DEF GapInv, Missing, Listening
<1>2. \/ UNCHANGED fanout
      \/ fanout' = [fanout EXCEPT ![Consumer] = [event |-> Head(bcast), matched |-> Matches(event[Head(bcast)].topic)]]
  BY DEF Consume, FanOut
<1>3. CASE UNCHANGED fanout
  BY <1>3 DEF GapInv
<1>4. CASE fanout' = [fanout EXCEPT ![Consumer] = [event |-> Head(bcast), matched |-> Matches(event[Head(bcast)].topic)]]
  <2>1. /\ fanout'[Consumer].event = Head(bcast)
        /\ fanout'[Consumer].matched = Matches(event[Head(bcast)].topic)
        /\ fanout'[e] = fanout[e]
    BY <1>4 DEF DeliveryInv, DeliveryOK
  <2>2. r \in Matches(event[e].topic)
    BY MatchesListening DEF Missing
  <2> QED
    BY <2>1, <2>2 DEF GapInv
<1> QED
  BY <1>2, <1>3, <1>4

LEMMA GapSend ==
    ASSUME GapInv, DeliveryInv, ReqsOK, RegistryInv, NEW f \in Fanouts, Send(f)
    PROVE  GapInv'
<1> DEFINE d == fanout[f].event
           sent == {r \in fanout[f].matched : Managed(req[r].sub[1])}
<1>0. d \in Events /\ (f = Consumer \/ f = d)
  BY FanoutOf DEF Send
<1>1. UNCHANGED <<conn, subs, hidden, req>>
  BY DEF Send, sockets, registry
<1>2. /\ fanout'[f].event = 0 /\ \A g \in Fanouts \ {f} : fanout'[g] = fanout[g]
      /\ \A r \in Reqs, e \in Events : got'[r][e] = IF r \in sent /\ e = d THEN got[r][e] + 1 ELSE got[r][e]
  BY <1>0 DEF Send, NoFanout, DeliveryInv, DeliveryOK
<1>3. /\ \A e \in Events : event'[e].topic = event[e].topic /\ event'[e].here = event[e].here
      /\ \A e \in Events \ {d} : event'[e].at = event[e].at
      /\ event'[d].at = IF f = d \/ ~event[d].here THEN "settled" ELSE event[d].at
      /\ event[d].at # "none"
  BY <1>0 DEF Send, DeliveryInv, DeliveryOK, EventType, ConsumedOK, DispatchOK
<1>4. SUFFICES ASSUME NEW r \in Reqs, NEW e \in Events, Missing(r, e)'
               PROVE  /\ event'[e].at = "sending" => r \in fanout'[e].matched
                      /\ ~event'[e].here /\ fanout'[Consumer].event = e => r \in fanout'[Consumer].matched
                      /\ event'[e].at = "settled" => got'[r][e] > 0
  BY DEF GapInv
<1>5. Missing(r, e)
  BY <1>1, <1>3, <1>4 DEF Missing, Listening
<1>6. got[r][e] \in Nat
  BY DEF DeliveryInv, DeliveryOK
<1>7. r \in fanout[f].matched => r \in sent
  BY <1>5 DEF Missing, Listening, Managed
<1> HIDE DEF sent
<1>8. CASE e # d
  BY <1>0, <1>2, <1>3, <1>5, <1>6, <1>8 DEF GapInv, DeliveryInv, DispatchOK
<1>9. CASE e = d /\ f = e
  BY SMTT(30), <1>0, <1>2, <1>3, <1>5, <1>6, <1>7, <1>9 DEF GapInv, DeliveryInv, DispatchOK, ConsumedOK
<1>10. CASE e = d /\ f # e
  BY <1>0, <1>2, <1>3, <1>5, <1>6, <1>7, <1>10 DEF GapInv
<1> QED
  BY <1>8, <1>9, <1>10

LEMMA GapStep ==
    /\ GapInv /\ OnlyDropsHide /\ DeliveryInv /\ RegistryInv /\ ConnsOK /\ ReqsOK /\ [Next]_vars
    => GapInv'
<1> SUFFICES ASSUME GapInv, OnlyDropsHide, DeliveryInv, RegistryInv, ConnsOK, ReqsOK, [Next]_vars
             PROVE  GapInv'
  OBVIOUS
<1>1. CASE UNCHANGED vars
  BY <1>1, GapKept DEF vars
<1>2. CASE Subscriber \/ Redis \/ \E t \in Topics : Debounce(t)
  BY <1>2, GapKept DEF Subscriber, Redis, Debounce
<1>3. ASSUME NEW c \in Conns, Client(c) \/ ConnTask(c) PROVE GapInv'
  BY <1>3, GapKept
     DEF Client, ConnTask, Arrive, Refuse, CloseRemove, Req, Admit, Open, EndConn, EndUnlist, EndDone
<1>4. CASE \E w \in Sweeps : FlagSweep(w) \/ Sweep(w)
  BY <1>4, GapKept DEF FlagSweep, Sweep
<1>5. ASSUME NEW r \in Reqs, ReqTask(r) \/ ReqQueryFails(r) PROVE GapInv'
  BY <1>5, GapKept, PageOfTask DEF ReqRemove, ReqDrop, ReqInsert, ReqPush, ReqRelease, ReqRetain,
                                   ReqSend, Page, ReqQueryFails
<1>6. CASE TakenStep \/ Evictor
  BY <1>6, GapKept DEF TakenStep, DropEmptied, ReleaseTaken, Evict, Evictor, EvictRemove
<1>7. CASE \E e \in Events : Dispatching(e) \/ PublishFails(e) \/ PublishUnanswered(e)
  BY <1>7, GapEvents
<1>8. CASE Consume \/ \E f \in Fanouts : Send(f)
  BY <1>8, GapConsume, GapSend
<1> QED
  BY <1>1, <1>2, <1>3, <1>4, <1>5, <1>6, <1>7, <1>8 DEF Next, Failing

LEMMA GapInit == Init => GapInv /\ LookedUp
BY DEF Init, GapInv, Missing, LookedUp, NewReq

\* Nothing gets lost between registration, query and fan-out. An event that the pod
\* fanned out is missing from a subscription that got its EOSE only if the subscription
\* was dropped from the index, or if the event was fanned out before the subscription
\* was listed and had not reached the replica that was asked.
THEOREM GapsAreDropsOrReplicas == Spec => []NoGap
<1>1. DeliveryInv /\ RegistryInv /\ ReqsOK /\ GapInv /\ LookedUp => NoGap
  <2> SUFFICES ASSUME DeliveryInv, RegistryInv, ReqsOK, GapInv, LookedUp,
                      NEW s \in Slots, NEW e \in Events,
                      Served(s), req[subs[s]].at = "done", event[e].at = "settled",
                      event[e].topic = req[subs[s]].topic, subs[s] \notin hidden
               PROVE  \/ e \in req[subs[s]].seen \/ got[subs[s]][e] > 0
                      \/ e \in req[subs[s]].early \cap req[subs[s]].behind
    BY DEF NoGap
  <2>1. subs[s] \in Reqs /\ req[subs[s]].sub = s
    BY DEF Served, ReqsOK, RegistryInv, EntriesOK
  <2>2. Listening(subs[s])
    BY <2>1 DEF Listening, Settling, Served
  <2>3. CASE e \notin req[subs[s]].early
    BY <2>1, <2>2, <2>3 DEF GapInv, Missing
  <2>4. CASE e \in req[subs[s]].early
    BY <2>1, <2>2, <2>4 DEF LookedUp, Listening
  <2> QED
    BY <2>3, <2>4
<1>2. InterestInv /\ SweepInv => ReqsOK /\ ConnsOK
  BY DEF InterestInv, SweepInv
<1> QED
  BY InterestInit, InterestStep, SweepInit, SweepStep, RegistryInit, RegistryStep, DeliveryInit,
     DeliveryStep, HideInit, HideStep, GapInit, GapStep, LookedUpStep, <1>1, <1>2, PTL DEF Spec
=============================================================================
