------------------------------ MODULE RelayPod ------------------------------
(***************************************************************************)
(* One relay pod: its connections (connection.rs, state.rs), the registry  *)
(* of their subscriptions with its fan-out index (subscription.rs), REQ    *)
(* and CLOSE (handlers/req.rs, close.rs), evictions (side_effects.rs) and  *)
(* the two ways an event reaches a subscription: the dispatch that follows *)
(* its storage here, and Redis (handlers/event.rs), on the reference       *)
(* counted topics of TopicInterest.                                        *)
(*                                                                         *)
(* Handlers of EVENT and REQ are tasks of their own; CLOSE and the cleanup *)
(* run in the connection's task. A step ends where a task awaits or lets   *)
(* go of a DashMap entry that it returns to, and where another task could  *)
(* tell the two halves apart.                                              *)
(*                                                                         *)
(* Filters are reduced to the topic (a channel, or what is global), kinds  *)
(* and the gates on single kinds are left out, every recipient has access  *)
(* and every client reads what it is sent. Other pods, the database and    *)
(* its replicas are external: an event is stored, and then published,      *)
(* elsewhere, and a replica has a first part of what was stored.           *)
(***************************************************************************)
EXTENDS TopicInterest, FiniteSets

CONSTANTS
    Conns,
    NoConn,
    SubIds,         \* the subscription ids a connection uses
    MaxReqs,        \* bound: REQs
    MaxEvents,      \* bound: events
    MaxEvictions,   \* bound: evictions
    MaxFaults,      \* bound: failed queries and PUBLISHes
    Endings,        \* which of "close" and "disconnect" clients use
    MaxSweeps,      \* bound: sweeps
    Sweeps          \* which of "drain" and "archive" may happen

ASSUME PodAssumption ==
    /\ {MaxReqs, MaxEvents, MaxEvictions, MaxFaults, MaxSweeps} \subseteq Nat
    /\ Endings \subseteq {"close", "disconnect"}
    /\ Sweeps \subseteq {"drain", "archive"}
    /\ NoConn \notin Conns /\ IsFiniteSet(Conns) /\ IsFiniteSet(SubIds)

Reqs == 1..MaxReqs
Events == 1..MaxEvents
NoReq == 0
Consumer == 0       \* the task that reads the broadcast channel
Fanouts == Events \cup {Consumer}

\* A subscription is known by its connection and its id.
Slots == Conns \X SubIds
NoSlot == <<NoConn, NoConn>>
SlotsOf(c) == {c} \X SubIds

\* A connection's receive loop, with CLOSE and the cleanup, and the task that evicts
\* take subscriptions out that they release afterwards.
Takings == {"loop", "evictor"} \X Slots

VARIABLES
    conn,       \* per connection: where its task is
    cancelled,  \* connections whose token is cancelled
    sweep,      \* how far drain_all and the disconnection of a community are
    subs,       \* the registry's subs: the REQ an entry is from
    index,      \* its fan-out index: the subscriptions listed for a topic
    taken,      \* subscriptions taken out of subs, how far they are, their topic
    req,        \* the REQ handlers
    eviction,   \* the ids the task that evicts has collected, and evictions so far
    event,      \* per event: how far it is, its topic, whether it is from here
    local,      \* local_event_ids
    fanout,     \* the fan-outs: of a dispatch, and the consumer's
    got,        \* history: how often a live frame of an event was sent for a REQ
    hidden,     \* history: REQs whose subscription was dropped from the index
    unsure,     \* history: events whose PUBLISH was done and reported as failed
    faults      \* faults so far

sockets == <<conn, cancelled, sweep>>
registry == <<subs, index, taken, hidden>>
delivery == <<event, local, fanout, got, unsure>>
vars == <<interest, subscriber, sockets, registry, req, eviction, delivery, faults>>

pubsub == <<interest, subscriber>>

NewReq == [at |-> "idle", sub |-> NoSlot, topic |-> NoTopic, old |-> NoTopic,
           early |-> {}, seen |-> {}, behind |-> {}]
Untaken == [at |-> "none", topic |-> NoTopic]
NoFanout == [event |-> 0, matched |-> {}]

Init ==
    /\ InitInterest
    /\ conn = [c \in Conns |-> "new"]
    /\ cancelled = {}
    /\ sweep = [w \in Sweeps |-> "off"]
    /\ subs = [s \in Slots |-> NoReq]
    /\ index = [t \in Topics |-> {}]
    /\ taken = [k \in Takings |-> Untaken]
    /\ hidden = {}
    /\ req = [r \in Reqs |-> NewReq]
    /\ eviction = [todo |-> {}, count |-> 0]
    /\ event = [e \in Events |-> [at |-> "none", topic |-> NoTopic, here |-> FALSE]]
    /\ local = {}
    /\ fanout = [f \in Fanouts |-> NoFanout]
    /\ got = [r \in Reqs |-> [e \in Events |-> 0]]
    /\ unsure = {}
    /\ faults = 0

Fault == faults < MaxFaults /\ faults' = faults + 1

TopicOf(s) == IF subs[s] = NoReq THEN NoTopic ELSE req[subs[s]].topic

(***************************************************************************)
(* Connections. A connection is bound to its community before it asks      *)
(* whether the community is active, and listed by the connection manager   *)
(* before it asks whether the pod is draining.                             *)
(***************************************************************************)
Bound(c) == conn[c] \notin {"new", "gone"}
Managed(c) == conn[c] \in {"registered", "open", "ending"}

Goto(c, at) == conn' = [conn EXCEPT ![c] = at]

On(w) == w \in Sweeps /\ sweep[w] # "off"

Arrive(c) ==
    /\ conn[c] = "new"
    /\ Goto(c, "checking")
    /\ UNCHANGED <<pubsub, cancelled, sweep, registry, req, eviction, delivery, faults>>

\* check_active with the look at the token that follows it, the connection permit,
\* the challenge and conn_manager.register.
Admit(c) ==
    /\ conn[c] = "checking"
    /\ ~On("archive") /\ c \notin cancelled
    /\ Goto(c, "registered")
    /\ UNCHANGED <<pubsub, cancelled, sweep, registry, req, eviction, delivery, faults>>

\* The check fails or denies, the token is cancelled, no permit is left or the
\* client is gone before its challenge.
Refuse(c) ==
    /\ conn[c] = "checking"
    /\ Goto(c, "gone")
    /\ cancelled' = cancelled \cup {c}
    /\ UNCHANGED <<pubsub, sweep, registry, req, eviction, delivery, faults>>

\* Seeded fault: a registration does not look at the drain flag.
OpenUnchecked(c) ==
    /\ conn[c] = "registered"
    /\ Goto(c, "open")
    /\ UNCHANGED <<pubsub, cancelled, sweep, registry, req, eviction, delivery, faults>>

Open(c) ==
    /\ conn[c] = "registered"
    /\ Goto(c, "open")
    /\ cancelled' = IF On("drain") THEN cancelled \cup {c} ELSE cancelled
    /\ UNCHANGED <<pubsub, sweep, registry, req, eviction, delivery, faults>>

\* drain_all sets its flag; a community is archived in the database.
FlagSweep(w) ==
    /\ ~On(w) /\ Cardinality({v \in Sweeps : On(v)}) < MaxSweeps
    /\ sweep' = [sweep EXCEPT ![w] = "flagged"]
    /\ UNCHANGED <<pubsub, conn, cancelled, registry, req, eviction, delivery, faults>>

\* drain_all goes through the connection manager, disconnect_community through the
\* connections that are bound. One that comes while they do so is as one that
\* comes after them.
Sweep(w) ==
    /\ sweep[w] = "flagged"
    /\ sweep' = [sweep EXCEPT ![w] = "done"]
    /\ cancelled' = cancelled \cup {c \in Conns : IF w = "drain" THEN Managed(c) ELSE Bound(c)}
    /\ UNCHANGED <<pubsub, conn, registry, req, eviction, delivery, faults>>

(***************************************************************************)
(* Taking a subscription out of the registry. remove_subscription keeps    *)
(* the connection's entry locked until the index is done; remove_connection *)
(* does not. An index entry that became empty is dropped in a second step. *)
(***************************************************************************)
Take(k, at, t) == taken' = [taken EXCEPT ![k] = [at |-> at, topic |-> t]]

\* Is the receive loop in CLOSE or in the cleanup?
Busy(c) == \E s \in SlotsOf(c) : taken[<<"loop", s>>].at # "none"

Emptied(t) ==
    \/ \E k \in Takings : taken[k].at = "emptied" /\ taken[k].topic = t
    \/ \E r \in Reqs : req[r].at = "emptied" /\ req[r].old = t

Locked(c) ==
    \/ \E r \in Reqs : req[r].at = "emptied" /\ req[r].sub[1] = c
    \/ \E s \in SlotsOf(c) : \/ taken[<<"evictor", s>>].at = "emptied"
                             \/ taken[<<"loop", s>>].at = "emptied" /\ conn[c] = "open"

\* Is the entry of t left empty, with its removal still to come?
LeftEmpty(s, t) == index[t] \subseteq {s} /\ (index[t] # {} \/ Emptied(t))

Unlist(s, t) == index' = [index EXCEPT ![t] = @ \ {s}]

\* The key goes with all that is listed under it by now.
Drop(t) ==
    /\ index' = [index EXCEPT ![t] = {}]
    /\ hidden' = hidden \cup {subs[s] : s \in {x \in index[t] :
                                  TopicOf(x) = t /\ req[subs[x]].at # "push"}}

\* remove_subscription, up to the removal from the index.
TakeOut(who, s) ==
    /\ subs' = [subs EXCEPT ![s] = NoReq]
    /\ Unlist(s, TopicOf(s))
    /\ Take(<<who, s>>, IF LeftEmpty(s, TopicOf(s)) THEN "emptied" ELSE "release", TopicOf(s))

\* remove_from_index drops the key of the entry that it left empty.
DropEmptied(k) ==
    /\ taken[k].at = "emptied"
    /\ Take(k, "release", taken[k].topic)
    /\ Drop(taken[k].topic)
    /\ UNCHANGED <<pubsub, sockets, subs, req, eviction, delivery, faults>>

\* All that a task takes out is out before it releases the first topic.
ReleaseTaken(k) ==
    /\ taken[k].at = "release"
    /\ \A s \in SlotsOf(k[2][1]) : taken[<<k[1], s>>].at \in {"none", "release"}
    /\ k[1] = "evictor" => eviction.todo = {}
    /\ Release(taken[k].topic)
    /\ taken' = [taken EXCEPT ![k] = Untaken]
    /\ UNCHANGED <<sockets, subs, index, hidden, req, eviction, delivery, faults>>

\* handle_close; without an entry only CLOSED is sent.
CloseRemove(s) ==
    /\ conn[s[1]] = "open" /\ ~Busy(s[1]) /\ ~Locked(s[1])
    /\ subs[s] # NoReq
    /\ TakeOut("loop", s)
    /\ UNCHANGED <<pubsub, sockets, hidden, req, eviction, delivery, faults>>

\* The receive loop ends, by its client or by the token, and remove_connection
\* takes the connection's entry.
EndConn(c) ==
    /\ conn[c] = "open" /\ ~Busy(c) /\ ~Locked(c)
    /\ Goto(c, "ending")
    /\ cancelled' = cancelled \cup {c}
    /\ subs' = [s \in Slots |-> IF s[1] = c THEN NoReq ELSE subs[s]]
    /\ taken' = [k \in Takings |->
                    IF k[1] = "loop" /\ k[2][1] = c /\ subs[k[2]] # NoReq
                      THEN [at |-> "listed", topic |-> TopicOf(k[2])] ELSE taken[k]]
    /\ UNCHANGED <<pubsub, sweep, index, hidden, req, eviction, delivery, faults>>

\* Its subscriptions leave the index one by one.
EndUnlist(s) ==
    LET k == <<"loop", s>>
        t == taken[k].topic
    IN
    /\ taken[k].at = "listed"
    /\ \A x \in SlotsOf(s[1]) : taken[<<"loop", x>>].at # "emptied"
    /\ Unlist(s, t)
    /\ Take(k, IF LeftEmpty(s, t) THEN "emptied" ELSE "release", t)
    /\ UNCHANGED <<pubsub, sockets, subs, hidden, req, eviction, delivery, faults>>

\* conn_manager.deregister and the drop of the community's guard.
EndDone(c) ==
    /\ conn[c] = "ending" /\ ~Busy(c)
    /\ Goto(c, "gone")
    /\ UNCHANGED <<pubsub, cancelled, sweep, registry, req, eviction, delivery, faults>>

\* evict_conn_channel_subscriptions: the subscription ids are collected first and
\* each is removed by its id, whatever topic it is for by then.
Evicting == eviction.todo # {} \/ \E s \in Slots : taken[<<"evictor", s>>].at # "none"

Evict(c, t) ==
    LET ids == {s \in SlotsOf(c) : TopicOf(s) = t} IN
    /\ ~Evicting /\ eviction.count < MaxEvictions
    /\ ids # {} /\ ~Locked(c)
    /\ eviction' = [todo |-> ids, count |-> eviction.count + 1]
    /\ UNCHANGED <<pubsub, sockets, registry, req, delivery, faults>>

\* Seeded fault: an id that is gone is released all the same.
EvictAnyway(s) ==
    /\ s \in eviction.todo /\ ~Locked(s[1])
    /\ eviction' = [eviction EXCEPT !.todo = @ \ {s}]
    /\ IF subs[s] = NoReq
         THEN /\ \E t \in Topics : Take(<<"evictor", s>>, "release", t)
              /\ UNCHANGED <<subs, index>>
         ELSE TakeOut("evictor", s)
    /\ UNCHANGED <<pubsub, sockets, hidden, req, delivery, faults>>

EvictRemove(s) ==
    /\ s \in eviction.todo /\ ~Locked(s[1])
    /\ eviction' = [eviction EXCEPT !.todo = @ \ {s}]
    /\ IF subs[s] = NoReq THEN UNCHANGED <<subs, index, taken>> ELSE TakeOut("evictor", s)
    /\ UNCHANGED <<pubsub, sockets, hidden, req, delivery, faults>>

(***************************************************************************)
(* handle_req                                                              *)
(***************************************************************************)
Step(r, at) == req' = [req EXCEPT ![r].at = at]

\* The receive loop spawns the handler; a request it turns away changes nothing.
Req(r, s, t) ==
    /\ conn[s[1]] = "open" /\ s[1] \notin cancelled /\ ~Busy(s[1])
    /\ req[r].at = "idle" /\ \A q \in Reqs : q < r => req[q].at # "idle"
    /\ req' = [req EXCEPT ![r] = [NewReq EXCEPT !.at = "remove", !.sub = s, !.topic = t]]
    /\ UNCHANGED <<pubsub, sockets, registry, eviction, delivery, faults>>

\* register_scoped, first half: a subscription with the same id is taken out.
ReqRemove(r) ==
    LET s == req[r].sub IN
    /\ req[r].at = "remove" /\ ~Locked(s[1])
    /\ IF subs[s] = NoReq
         THEN /\ Step(r, "insert")
              /\ UNCHANGED <<subs, index>>
         ELSE /\ req' = [req EXCEPT ![r].at = IF LeftEmpty(s, TopicOf(s)) THEN "emptied" ELSE "insert",
                                    ![r].old = TopicOf(s)]
              /\ subs' = [subs EXCEPT ![s] = NoReq]
              /\ Unlist(s, TopicOf(s))
    /\ UNCHANGED <<pubsub, sockets, taken, hidden, eviction, delivery, faults>>

ReqDrop(r) ==
    /\ req[r].at = "emptied"
    /\ Step(r, "insert")
    /\ Drop(req[r].old)
    /\ UNCHANGED <<pubsub, sockets, subs, taken, eviction, delivery, faults>>

\* register_scoped, second half: the entry, whose lock goes with the insertion, and
\* then the index, which no other subscription of the connection waits for.
ReqInsert(r) ==
    /\ req[r].at = "insert" /\ ~Locked(req[r].sub[1])
    /\ Step(r, "push")
    /\ subs' = [subs EXCEPT ![req[r].sub] = r]
    /\ UNCHANGED <<pubsub, sockets, index, taken, hidden, eviction, delivery, faults>>

\* Events that have been fanned out here.
Matched == {e \in Events : event[e].at \in {"sending", "settled"} \/ fanout[Consumer].event = e}

Listed(r) == req' = [req EXCEPT ![r].at = IF req[r].old = NoTopic THEN "retain" ELSE "release",
                                ![r].early = Matched]

\* Seeded fault: a replacement for the same topic is taken to be listed already.
ReqPushOnce(r) ==
    /\ req[r].at = "push"
    /\ Listed(r)
    /\ index' = IF req[r].old = req[r].topic THEN index
                ELSE [index EXCEPT ![req[r].topic] = @ \cup {req[r].sub}]
    /\ UNCHANGED <<pubsub, sockets, subs, taken, hidden, eviction, delivery, faults>>

ReqPush(r) ==
    /\ req[r].at = "push"
    /\ Listed(r)
    /\ index' = [index EXCEPT ![req[r].topic] = @ \cup {req[r].sub}]
    /\ UNCHANGED <<pubsub, sockets, subs, taken, hidden, eviction, delivery, faults>>

ReqRelease(r) ==
    /\ req[r].at = "release"
    /\ Release(req[r].old)
    /\ req' = [req EXCEPT ![r].at = "retain", ![r].old = NoTopic]
    /\ UNCHANGED <<sockets, registry, eviction, delivery, faults>>

ReqRetain(r) ==
    /\ req[r].at = "retain"
    /\ Retain(req[r].topic)
    /\ Step(r, IF FirstRetain(req[r].topic) THEN "send" ELSE "query")
    /\ UNCHANGED <<sockets, registry, eviction, delivery, faults>>

ReqSend(r) ==
    /\ req[r].at = "send"
    /\ SendSubscribe(req[r].topic)
    /\ Step(r, "query")
    /\ UNCHANGED <<sockets, registry, eviction, delivery, faults>>

Stored(t) == {e \in Events : event[e].at # "none" /\ event[e].topic = t}

\* The page is what is stored, but for what the database it is from does not have.
Page(r, behind) ==
    /\ req[r].at = "query"
    /\ req' = [req EXCEPT ![r].at = "done", ![r].behind = behind,
                          ![r].seen = Stored(req[r].topic) \ behind]
    /\ UNCHANGED <<pubsub, sockets, registry, eviction, delivery, faults>>

\* The historical query; its frames and EOSE follow. Nothing else depends on when
\* they are sent. query_events_routed may take the page from a replica, which has
\* the first n of the events that the writer stored.
ReqQuery(r) == Page(r, {})

ReqQueryReplica(r, n) == Page(r, {e \in Stored(req[r].topic) : e > n})

\* A failed query is answered with EOSE as well.
ReqQueryFails(r) ==
    /\ req[r].at = "query"
    /\ Fault
    /\ Step(r, "failed")
    /\ UNCHANGED <<pubsub, sockets, registry, eviction, delivery>>

(***************************************************************************)
(* Events                                                                  *)
(***************************************************************************)
Advance(e, at) == event' = [event EXCEPT ![e].at = at]

Store(e, t, here) ==
    /\ event[e].at = "none" /\ \A d \in Events : d < e => event[d].at # "none"
    /\ event' = [event EXCEPT ![e] = [at |-> "stored", topic |-> t, here |-> here]]
    /\ UNCHANGED <<pubsub, sockets, registry, req, eviction, local, fanout, got, unsure, faults>>

\* Another pod publishes what it stored.
PublishElsewhere(e) ==
    /\ event[e].at = "stored" /\ ~event[e].here
    /\ bcast' = Published(event[e].topic, e)
    /\ Advance(e, "published")
    /\ UNCHANGED <<interest, orders, link, todo, active, idle, outages, sockets, registry,
                   req, eviction, local, fanout, got, unsure, faults>>

\* Seeded fault: the event is marked as local after it was published.
PublishUnmarked(e) ==
    /\ event[e].at = "stored" /\ event[e].here
    /\ bcast' = Published(event[e].topic, e)
    /\ Advance(e, "published")
    /\ UNCHANGED <<interest, orders, link, todo, active, idle, outages, sockets, registry,
                   req, eviction, local, fanout, got, unsure, faults>>

\* dispatch_persistent_event_inner: the mark for the echo, then PUBLISH.
Publish(e) ==
    /\ event[e].at = "stored" /\ event[e].here
    /\ local' = local \cup {e}
    /\ bcast' = Published(event[e].topic, e)
    /\ Advance(e, "published")
    /\ UNCHANGED <<interest, orders, link, todo, active, idle, outages, sockets, registry,
                   req, eviction, fanout, got, unsure, faults>>

\* Seeded fault: the candidates of the index are not looked up again.
MatchBlindly(t) ==
    {subs[s] : s \in index[t]} \ {NoReq}

\* fan_out_scoped: the candidates of the index, push_match on each of them.
Matches(t) ==
    {subs[s] : s \in {x \in index[t] : TopicOf(x) = t}}

\* filter_fanout_by_access is awaited between the match and the frames.
FanOut(f, e) ==
    /\ \A s \in index[event[e].topic] : ~Locked(s[1])
    /\ fanout' = [fanout EXCEPT ![f] = [event |-> e, matched |-> Matches(event[e].topic)]]

\* Seeded fault: what was published is left to the echo.
PublishSettles(e) ==
    /\ event[e].at = "published" /\ event[e].here
    /\ Advance(e, "settled")
    /\ UNCHANGED <<pubsub, sockets, registry, req, eviction, local, fanout, got, unsure, faults>>

\* The dispatch goes on to its fan-out, however PUBLISH went.
PublishAnswered(e) ==
    /\ event[e].at = "published" /\ event[e].here
    /\ Advance(e, "sending") /\ FanOut(e, e)
    /\ UNCHANGED <<pubsub, sockets, registry, req, eviction, local, got, unsure, faults>>

\* PUBLISH did not reach Redis: the mark is taken away.
PublishFails(e) ==
    /\ event[e].at = "stored" /\ event[e].here
    /\ Fault
    /\ Advance(e, "sending") /\ FanOut(e, e)
    /\ UNCHANGED <<pubsub, sockets, registry, req, eviction, local, got, unsure>>

\* PUBLISH reached Redis, its answer did not come back.
PublishUnanswered(e) ==
    /\ event[e].at = "published" /\ event[e].here
    /\ Fault
    /\ Advance(e, "sending") /\ FanOut(e, e)
    /\ local' = local \ {e}
    /\ unsure' = unsure \cup {e}
    /\ UNCHANGED <<pubsub, sockets, registry, req, eviction, got>>

\* fan_out_pubsub_event: the consumer takes the next message and skips an echo.
Consume ==
    /\ fanout[Consumer] = NoFanout /\ bcast # <<>>
    /\ bcast' = Tail(bcast)
    /\ LET e == Head(bcast) IN
       \/ e \in local /\ local' = local \ {e} /\ UNCHANGED fanout
       \/ e \notin local /\ FanOut(Consumer, e) /\ UNCHANGED local
    /\ UNCHANGED <<interest, orders, link, todo, active, idle, outages, sockets, registry,
                   req, eviction, event, got, unsure, faults>>

\* A frame for every match that is still connected.
Send(f) ==
    LET e == fanout[f].event
        sent == {r \in fanout[f].matched : Managed(req[r].sub[1])}
    IN
    /\ fanout[f] # NoFanout
    /\ got' = [r \in Reqs |-> IF r \in sent THEN [got[r] EXCEPT ![e] = @ + 1] ELSE got[r]]
    /\ fanout' = [fanout EXCEPT ![f] = NoFanout]
    /\ event' = IF f = e \/ ~event[e].here THEN [event EXCEPT ![e].at = "settled"] ELSE event
    /\ UNCHANGED <<pubsub, sockets, registry, req, eviction, local, unsure, faults>>

-----------------------------------------------------------------------------
Subscriber ==
    /\ SubscriberStep
    /\ UNCHANGED <<sockets, registry, req, eviction, delivery, faults>>

Redis ==
    /\ Outage
    /\ UNCHANGED <<sockets, registry, req, eviction, delivery, faults>>

Debounce(t) ==
    /\ DebounceEnds(t)
    /\ UNCHANGED <<sockets, registry, req, eviction, delivery, faults>>

ConnTask(c) ==
    \/ Admit(c) \/ Open(c)
    \/ (c \in cancelled \/ "disconnect" \in Endings) /\ EndConn(c)
    \/ \E s \in SlotsOf(c) : EndUnlist(s)
    \/ EndDone(c)

Client(c) ==
    \/ Arrive(c) \/ Refuse(c)
    \/ \E s \in SlotsOf(c) :
         \/ "close" \in Endings /\ CloseRemove(s)
         \/ \E r \in Reqs, t \in Topics : Req(r, s, t)

\* What CLOSE, the cleanup and the evictions do with what they took out.
TakenStep == \E k \in Takings : DropEmptied(k) \/ ReleaseTaken(k)

Evictor ==
    \/ \E c \in Conns, t \in Topics : Evict(c, t)
    \/ \E s \in Slots : EvictRemove(s)

ReqTask(r) ==
    \/ ReqRemove(r) \/ ReqDrop(r) \/ ReqInsert(r) \/ ReqPush(r)
    \/ ReqRelease(r) \/ ReqRetain(r) \/ ReqSend(r)
    \/ ReqQuery(r) \/ \E n \in {0} \cup Events : ReqQueryReplica(r, n)

Dispatching(e) ==
    \/ \E t \in Topics, here \in BOOLEAN : Store(e, t, here)
    \/ PublishElsewhere(e) \/ Publish(e) \/ PublishAnswered(e)

Failing ==
    \/ \E r \in Reqs : ReqQueryFails(r)
    \/ \E e \in Events : PublishFails(e) \/ PublishUnanswered(e)

Next ==
    \/ Subscriber \/ Redis \/ \E t \in Topics : Debounce(t)
    \/ \E c \in Conns : Client(c) \/ ConnTask(c)
    \/ \E w \in Sweeps : FlagSweep(w) \/ Sweep(w)
    \/ TakenStep
    \/ Evictor
    \/ \E r \in Reqs : ReqTask(r)
    \/ \E e \in Events : Dispatching(e)
    \/ Consume
    \/ \E f \in Fanouts : Send(f)
    \/ Failing

Spec == Init /\ [][Next]_vars

-----------------------------------------------------------------------------
(***************************************************************************)
(* What the pod promises                                                   *)
(***************************************************************************)
ConnPhases == {"new", "checking", "registered", "open", "ending", "gone"}

ReqPhases == {"idle", "remove", "emptied", "insert", "push", "release", "retain", "send",
              "query", "done", "failed"}

\* The types of the state.
TypeOK ==
    /\ InterestTypeOK
    /\ bcast \in Seq(Events)
    /\ conn \in [Conns -> ConnPhases]
    /\ cancelled \subseteq Conns
    /\ sweep \in [Sweeps -> {"off", "flagged", "done"}]
    /\ subs \in [Slots -> Reqs \cup {NoReq}]
    /\ index \in [Topics -> SUBSET Slots]
    /\ taken \in [Takings -> [at : {"none", "listed", "emptied", "release"},
                             topic : Topics \cup {NoTopic}]]
    /\ req \in [Reqs -> [at : ReqPhases, sub : Slots \cup {NoSlot}, topic : Topics \cup {NoTopic},
                         old : Topics \cup {NoTopic}, early : SUBSET Events,
                         seen : SUBSET Events, behind : SUBSET Events]]
    /\ eviction \in [todo : SUBSET Slots, count : 0..MaxEvictions]
    /\ hidden \subseteq Reqs
    /\ event \in [Events -> [at : {"none", "stored", "published", "sending", "settled"},
                             topic : Topics \cup {NoTopic}, here : BOOLEAN]]
    /\ local \subseteq Events /\ unsure \subseteq Events
    /\ fanout \in [Fanouts -> [event : Events \cup {0}, matched : SUBSET Reqs]]
    /\ got \in [Reqs -> [Events -> Nat]]
    /\ faults \in 0..MaxFaults

\* A topic that is wanted is subscribed to at Redis, or the subscriber task has
\* it in hand, or the task that first retained it is about to tell it
\* (retain_topic, UnsubscribeIfIdle, the snapshot of connect_and_subscribe).
InterestCovered ==
    \A t \in Topics : desired[t] > 0 =>
        \/ Subscribed(t) \/ InHand(t)
        \/ \E r \in Reqs : req[r].at = "send" /\ req[r].topic = t

Registered(t) == {s \in Slots : subs[s] # NoReq /\ TopicOf(s) = t}

RetainsDue(t) ==
    {r \in Reqs : req[r].at \in {"push", "release", "retain"} /\ req[r].topic = t}

ReleasesDue(t) ==
    Cardinality({r \in Reqs : req[r].at \in {"emptied", "insert", "push", "release"}
                               /\ req[r].old = t})
    + Cardinality({k \in Takings : taken[k].at # "none" /\ taken[k].topic = t})

\* However REQ, CLOSE, evictions and disconnects interleave, the count of a topic
\* is never too small for its subscriptions: no release takes away what another
\* subscription retained, except for as long as a retain is still to come.
InterestCounted ==
    \A t \in Topics :
        desired[t] + Cardinality(RetainsDue(t)) >= Cardinality(Registered(t)) + ReleasesDue(t)

\* A subscription of a connection that is served, whose registration is complete.
Served(s) == conn[s[1]] = "open" /\ subs[s] # NoReq /\ req[subs[s]].at # "push"

\* A subscription in the registry of a connection that is served can be found
\* through the index, from the moment its registration is complete.
Reachable == \A s \in Slots : Served(s) => s \in index[TopicOf(s)]

\* Only one thing hides a subscription that is in the registry: the drop of an
\* index key that was empty when remove_from_index looked and was filled since.
\* Neither a replacement nor a stale entry, CLOSE, eviction or disconnect does.
OnlyDropsHide ==
    \A s \in Slots : Served(s) => s \in index[TopicOf(s)] \/ subs[s] \in hidden

\* A subscription that got its EOSE has no gap: each event of its topic that this
\* pod fanned out was in its stored events or was sent live, whether the event
\* was stored before, between or after the registration and the query. Two are
\* excepted: a subscription that was dropped from the index, and what was fanned
\* out before the registration and had not reached the replica that was asked.
NoGap ==
    \A s \in Slots, e \in Events :
        LET r == subs[s] IN
        (/\ Served(s) /\ req[r].at = "done"
         /\ event[e].at = "settled" /\ event[e].topic = req[r].topic)
            => \/ e \in req[r].seen \/ got[r][e] > 0
               \/ r \in hidden
               \/ e \in req[r].early \cap req[r].behind

\* No event reaches a subscription by dispatch and again as its own echo, unless
\* the pod was told that a PUBLISH failed which did not.
RoutedOnce ==
    \A r \in Reqs, e \in Events : e \notin unsure => got[r][e] <= 1

\* A live frame is for the topic of its subscription, though index entries go
\* stale when the same id is registered for another topic.
InScope ==
    \A r \in Reqs, e \in Events : got[r][e] > 0 => req[r].topic = event[e].topic

\* No connection is served on once a drain or the archival of its community has
\* gone through the pod, however its admission interleaves with the flag and the
\* sweep: a register that the sweep misses sees the flag, and the check of the
\* community comes after the connection is bound.
NoneOutlivesSweep ==
    \A w \in Sweeps, c \in Conns :
        (sweep[w] = "done" /\ conn[c] = "open") => c \in cancelled

=============================================================================
