---------------------------- MODULE RelayClient ----------------------------
(***************************************************************************)
(* The harness's connection to its relay: the background task of           *)
(* lenos-acp/src/relay.rs that owns the websocket, with its replay         *)
(* watermarks, its duplicate filter, the rate-limit gate, the parked and   *)
(* the retried subscriptions and the reconnect path, composed with the     *)
(* membership filter of the main loop (lenos-acp/src/lib.rs) that decides  *)
(* which channels the task subscribes to.                                  *)
(*                                                                         *)
(* The relay is external: it stores what is published, answers a REQ with  *)
(* the stored items from its since on, newest first, then pushes live, or  *)
(* refuses it with a CLOSED.  A REQ is answered when it is sent; what the  *)
(* relay sent and the task has not read yet is in wire.  Observer          *)
(* telemetry, pings and the texts of frames are left out.                  *)
(***************************************************************************)
EXTENDS Naturals, FiniteSets, SequencesExt

CONSTANTS
    Channels,     \* channels the agent may be a member of
    Founding,     \* those it is a member of when the harness starts
    EventCap,     \* event_channel_capacity
    CmdCap,       \* CMD_CHANNEL_CAPACITY
    SeenHalf,     \* SEEN_ID_LIMIT / 2, where TwoGenDedup rotates
    NoticeHalf,   \* entries at which the harness rotates its notice ids
    Skew,         \* SINCE_SKEW_SECS
    SlowSends,    \* places where a write may time out on a live socket
    MaxItems,     \* bound on published items
    MaxFaults     \* bound on socket deaths, refusals, closings and time-outs

Membership == "membership"     \* MEMBERSHIP_NOTIF_SUB_ID
Lost == [kind |-> "lost"]      \* the None that signals a lost connection

ASSUME ClientAssumption ==
    /\ Membership \notin Channels /\ Founding \subseteq Channels
    /\ {EventCap, CmdCap, SeenHalf, NoticeHalf, MaxItems} \subseteq Nat \ {0}
    /\ {Skew, MaxFaults} \subseteq Nat
    /\ SlowSends \subseteq {"replay", "drain", "post", "command", "close"}
    /\ IsFiniteSet(Founding) /\ Cardinality(Founding) + 2 <= CmdCap

VARIABLES
    log,          \* what the relay stores: a set of items
    member,       \* channels the agent is a member of, at the relay
    clock,        \* the relay's clock, in seconds
    subs,         \* subscriptions the relay holds for the current socket
    wire,         \* messages sent by the relay and not yet read
    faults,       \* faults so far
    cut,          \* history: what replays were to bring and no REQ asks for again
    conn,         \* where the background task is
    sock,         \* is the socket alive?
    fresh,        \* is_fresh_connection of the resubscription under way
    todo,         \* channels that it has still to do
    bg,           \* BgState
    evq,          \* the event channel to the harness
    cmds,         \* the command channel from the harness
    subscribed,   \* the harness's subscribed_channel_ids
    newest,       \* membership_newest_ts
    notices,      \* seen_membership_current and _previous
    enqueued      \* history: how often an item was put into the event channel

relay == <<log, member, clock>>
line  == <<subs, wire, faults, cut>>
harness == <<subscribed, newest, notices>>
vars == <<relay, line, conn, sock, fresh, todo, bg, evq, cmds, harness, enqueued>>

(***************************************************************************)
(* Time stamps are positive; 0 stands for None.                            *)
(***************************************************************************)
OrElse(a, b) == IF a = 0 THEN b ELSE a
Earliest(a, b) == IF a = 0 \/ b = 0 THEN a + b ELSE IF a < b THEN a ELSE b
Latest(a, b) == IF a < b THEN b ELSE a

Items == [id : 1..MaxItems, ch : Channels, ts : Nat, kind : {"event", "added", "removed"}]

SubOf(i) == IF i.kind = "event" THEN i.ch ELSE Membership

(***************************************************************************)
(* The two-generation duplicate filter                                     *)
(***************************************************************************)
NothingSeen == [current |-> {}, previous |-> {}]

SeenBefore(g, x) == x \in g.current \cup g.previous

\* Seeded fault: the older generation is dropped as well.
RotateToNothing(g, half) == IF Cardinality(g.current) >= half THEN NothingSeen ELSE g

Rotate(g, half) ==
    IF Cardinality(g.current) >= half
    THEN [current |-> {}, previous |-> g.current] ELSE g

Insert(g, x, half) == Rotate([g EXCEPT !.current = @ \cup {x}], half)

Forget(g, x) == [current |-> g.current \ {x}, previous |-> g.previous \ {x}]

(***************************************************************************)
(* BgState and what its methods do to it.  active stands for               *)
(* active_subscriptions and active_filters, whose keys are the same:       *)
(* whatever inserts into one or removes from it does so with the other.    *)
(***************************************************************************)
NoStamps == [c \in Channels |-> 0]

InitialState ==
    [active |-> {}, lastSeen |-> NoStamps, dropped |-> NoStamps,
     subSince |-> NoStamps, pending |-> {}, retry |-> {}, gate |-> FALSE,
     proactive |-> FALSE, mActive |-> FALSE, mLast |-> 0, mDropped |-> 0,
     mResub |-> FALSE, watermark |-> 0, seen |-> NothingSeen]

ChannelSince(s, c) ==
    OrElse(Earliest(s.lastSeen[c], s.dropped[c]), OrElse(s.subSince[c], s.watermark))

MembershipSince(s) == OrElse(Earliest(s.mDropped, s.mLast), s.watermark)

ClearChannel(s, c) ==
    [s EXCEPT !.active = @ \ {c}, !.lastSeen[c] = 0, !.dropped[c] = 0,
              !.subSince[c] = 0, !.pending = @ \ {c}, !.retry = @ \ {c}]

SeedSince(s, c, since) ==
    [s EXCEPT !.subSince[c] = OrElse(@, OrElse(since, OrElse(s.watermark, clock)))]

SetWatermark(s, ts) == [s EXCEPT !.watermark = ts, !.mLast = OrElse(@, ts)]

\* apply_command_to_state: a command's intent, without a socket.
ApplyCommand(s, cmd) ==
    CASE cmd.op = "subscribe" ->
            [SeedSince(s, cmd.ch, cmd.ts) EXCEPT !.active = @ \cup {cmd.ch}]
      [] cmd.op = "unsubscribe" -> ClearChannel(s, cmd.ch)
      [] cmd.op = "membership" -> [s EXCEPT !.mActive = TRUE]
      [] cmd.op = "watermark" -> SetWatermark(s, cmd.ts)
      [] cmd.op = "reconnect" -> s

\* An item that fits into the event channel, and one that does not.
Accept(s, i) ==
    LET t == [s EXCEPT !.seen = Insert(@, i.id, SeenHalf)] IN
    IF i.kind = "event" THEN [t EXCEPT !.lastSeen[i.ch] = Latest(@, i.ts)]
                        ELSE [t EXCEPT !.mLast = Latest(@, i.ts)]

\* Seeded faults: the id stays in the duplicate filter; no resubscription is asked for.
RefuseRemembered(s, i) ==
    [s EXCEPT !.seen = Insert(@, i.id, SeenHalf), !.proactive = TRUE]

RefuseQuietly(s, i) ==
    IF i.kind = "event" THEN [s EXCEPT !.dropped[i.ch] = Earliest(@, i.ts)]
                        ELSE [s EXCEPT !.mDropped = Earliest(@, i.ts)]

Refuse(s, i) ==
    LET t == [s EXCEPT !.seen = Forget(Insert(@, i.id, SeenHalf), i.id),
                       !.proactive = TRUE] IN
    IF i.kind = "event"
    THEN [t EXCEPT !.lastSeen[i.ch] = Latest(@, i.ts), !.dropped[i.ch] = Earliest(@, i.ts)]
    ELSE [t EXCEPT !.mDropped = Earliest(@, i.ts)]

Init ==
    /\ log = {} /\ member = Founding /\ clock = 1
    /\ subs = {} /\ wire = <<>> /\ faults = 0 /\ cut = [ended |-> {}, refused |-> {}]
    /\ conn = "up" /\ sock = TRUE /\ fresh = TRUE /\ todo = {}
    /\ bg = InitialState
    /\ evq = <<>>
    /\ cmds = <<[op |-> "watermark", ts |-> 1], [op |-> "membership"]>>
              \o [k \in 1..Cardinality(Founding) |->
                    [op |-> "subscribe", ch |-> SetToSeq(Founding)[k], ts |-> 0]]
    /\ subscribed = Founding /\ newest = NoStamps /\ notices = NothingSeen
    /\ enqueued = [n \in 1..MaxItems |-> 0]

-----------------------------------------------------------------------------
(***************************************************************************)
(* The relay (external)                                                    *)
(***************************************************************************)
Pushed(i, replay) == [type |-> "item", sub |-> SubOf(i), item |-> i, replay |-> replay]
Closed(sub, why) == [type |-> "closed", sub |-> sub, why |-> why, replay |-> FALSE]

SlowDown == [type |-> "notice", replay |-> FALSE]

Fault == faults < MaxFaults /\ faults' = faults + 1

\* Stored items of a subscription, newest first: the k-th has k that are no older.
Replay(sub, since) ==
    LET matching == {i \in log : SubOf(i) = sub /\ i.ts >= since}
        noOlder(i) == {j \in matching : j.ts >= i.ts}
    IN  [k \in 1..Cardinality(matching) |->
            Pushed(CHOOSE i \in matching : Cardinality(noOlder(i)) = k, TRUE)]

\* since less the skew allowance, saturating; the present when there is none.
SinceTs(ts) == IF ts = 0 THEN clock ELSE IF ts > Skew THEN ts - Skew ELSE 0

DroppedSince(sub) == IF sub = Membership THEN bg.mDropped ELSE bg.dropped[sub]

\* Where the next REQ of a subscription starts, and what it asks for of the items
\* that never reached the harness.
NextSince(sub) ==
    SinceTs(IF sub = Membership THEN MembershipSince(bg) ELSE ChannelSince(bg, sub))

AskedNext(i) == i.ts >= NextSince(SubOf(i))

OnItsWay(i) == \E k \in DOMAIN wire : wire[k].type = "item" /\ wire[k].item = i

Undelivered == {i \in log : enqueued[i.id] = 0}

\* What only a REQ that carries the mark of a dropped item is sure to bring.
Marked(sub) ==
    IF DroppedSince(sub) = 0 THEN {}
    ELSE {i.id : i \in {j \in Undelivered : SubOf(j) = sub /\ AskedNext(j) /\ ~OnItsWay(j)}}

\* The answer to a REQ, after rest has been sent.
Answer(rest, sub, ts) ==
    \/ /\ sub \in member \cup {Membership}
       /\ subs' = subs \cup {sub}
       /\ wire' = rest \o Replay(sub, SinceTs(ts))
       /\ UNCHANGED <<faults, cut>>
    \/ /\ sub \notin member \cup {Membership}
       /\ wire' = Append(rest, Closed(sub, "denied"))
       /\ UNCHANGED <<subs, faults, cut>>
    \/ /\ Fault
       /\ wire' = Append(rest, Closed(sub, "rate-limited"))
       /\ cut' = [cut EXCEPT !.refused = @ \cup Marked(sub)]
       /\ UNCHANGED subs

Publish(c, kind) ==
    LET i == [id |-> Cardinality(log) + 1, ch |-> c, ts |-> clock + 1, kind |-> kind]
        live == IF SubOf(i) \in subs THEN <<Pushed(i, FALSE)>> ELSE <<>>
        evicted == IF kind = "removed" /\ c \in subs THEN <<Closed(c, "denied")>> ELSE <<>>
    IN  /\ Cardinality(log) < MaxItems
        /\ (kind = "added") = (c \notin member)
        /\ log' = log \cup {i} /\ clock' = i.ts
        /\ member' = CASE kind = "added" -> member \cup {c}
                       [] kind = "removed" -> member \ {c}
                       [] OTHER -> member
        /\ subs' = IF kind = "removed" THEN subs \ {c} ELSE subs
        /\ wire' = wire \o evicted \o live
        /\ UNCHANGED <<faults, cut, conn, sock, fresh, todo, bg, evq, cmds, harness, enqueued>>

\* The relay ends a subscription it had accepted.
RelayCloses(sub) ==
    /\ sub \in subs /\ Fault
    /\ subs' = subs \ {sub}
    /\ wire' = Append(wire, Closed(sub, "error"))
    /\ UNCHANGED <<relay, cut, conn, sock, fresh, todo, bg, evq, cmds, harness, enqueued>>

\* The relay rate-limits an EVENT the harness published (a typing indicator).
RelayThrottles ==
    /\ sock /\ Fault
    /\ wire' = Append(wire, SlowDown)
    /\ UNCHANGED <<relay, subs, cut, conn, sock, fresh, todo, bg, evq, cmds, harness, enqueued>>

\* The socket dies, or the relay ends it with a Close frame or an auth error.
SocketDies ==
    /\ sock /\ Fault
    /\ sock' = FALSE /\ subs' = {}
    /\ UNCHANGED <<relay, wire, cut, conn, fresh, todo, bg, evq, cmds, harness, enqueued>>

-----------------------------------------------------------------------------
(***************************************************************************)
(* Writing to the socket                                                   *)
(***************************************************************************)
\* A REQ is written; a dead socket may swallow it.
SendOk(rest, sub, ts) ==
    \/ sock /\ Answer(rest, sub, ts)
    \/ /\ ~sock /\ wire' = rest
       /\ cut' = [cut EXCEPT !.ended = @ \cup Marked(sub)]
       /\ UNCHANGED <<subs, faults>>

\* The write fails: the socket is dead, or the write times out.
WriteFails(place) ==
    \/ ~sock /\ UNCHANGED faults
    \/ sock /\ place \in SlowSends /\ Fault

\* A REQ whose write timed out may reach the relay all the same.
SendFails(place, sub, ts) ==
    /\ WriteFails(place) /\ UNCHANGED cut
    /\ \/ UNCHANGED <<subs, wire>>
       \/ /\ sock /\ sub \in member \cup {Membership}
          /\ subs' = subs \cup {sub}
          /\ wire' = wire \o Replay(sub, SinceTs(ts))

\* CLOSE is best effort.
SendClose(c) ==
    \/ subs' = subs \ {c} /\ UNCHANGED <<wire, faults, cut>>
    \/ sock /\ WriteFails("close") /\ UNCHANGED <<subs, wire, cut>>

-----------------------------------------------------------------------------
(***************************************************************************)
(* Losing and restoring the connection                                     *)
(***************************************************************************)
\* Seeded fault: the signal ignores the capacity.
SignalUnbounded == Append(evq, Lost)

\* try_send of the None that tells the harness.
Signal == IF Len(evq) < EventCap THEN Append(evq, Lost) ELSE evq

\* The connection is given up, whatever is still unread.
GiveUp ==
    /\ conn' = "lost" /\ sock' = FALSE /\ subs' = {} /\ wire' = <<>>
    /\ cut' = [cut EXCEPT !.ended = @ \cup
                   {i.id : i \in {j \in Undelivered : OnItsWay(j) /\ ~AskedNext(j)}}]

DetectLoss ==
    /\ conn = "up" /\ ~sock /\ ~bg.proactive
    /\ GiveUp /\ evq' = Signal
    /\ UNCHANGED <<relay, faults, fresh, todo, bg, cmds, harness, enqueued>>

\* Seeded fault: parked channels are left to a drain whose queue has been cleared.
ConnectSkippingParked ==
    /\ conn = "lost"
    /\ conn' = "resub" /\ fresh' = TRUE /\ sock' = TRUE
    /\ todo' = bg.active \ bg.pending
    /\ bg' = [bg EXCEPT !.pending = {}, !.retry = {}]
    /\ UNCHANGED <<relay, line, evq, cmds, harness, enqueued>>

Connect ==
    /\ conn = "lost"
    /\ conn' = "resub" /\ fresh' = TRUE /\ sock' = TRUE
    /\ todo' = bg.active
    /\ bg' = [bg EXCEPT !.pending = {}, !.retry = {}]
    /\ UNCHANGED <<relay, line, evq, cmds, harness, enqueued>>

\* Backpressure made the task drop something: resubscribe on the live socket.
ProactiveResubscribe ==
    /\ conn = "up" /\ bg.proactive
    /\ conn' = "resub" /\ fresh' = FALSE
    /\ todo' = bg.active
    /\ bg' = [bg EXCEPT !.proactive = FALSE]
    /\ UNCHANGED <<relay, line, sock, evq, cmds, harness, enqueued>>

\* resubscribe_after_reconnect, one channel at a time, then the membership
\* subscription, then the commands that came in meanwhile.
ResubscribeChannel(c) ==
    /\ conn = "resub" /\ c \in todo
    /\ todo' = todo \ {c}
    /\ \/ bg.gate /\ bg' = [bg EXCEPT !.pending = @ \cup {c}] /\ UNCHANGED line
       \/ /\ ~bg.gate /\ SendOk(wire, c, ChannelSince(bg, c))
          /\ bg' = [bg EXCEPT !.dropped[c] = 0]
       \/ /\ ~bg.gate /\ SendFails("replay", c, ChannelSince(bg, c))
          /\ bg' = [bg EXCEPT !.retry = @ \cup {c}]
    /\ UNCHANGED <<relay, conn, sock, fresh, evq, cmds, harness, enqueued>>

ResubscribeMembership ==
    /\ conn = "resub" /\ todo = {} /\ conn' = "drain"
    /\ \/ ~bg.mActive /\ UNCHANGED <<line, bg>>
       \/ bg.mActive /\ bg.gate /\ bg' = [bg EXCEPT !.mResub = TRUE] /\ UNCHANGED line
       \/ /\ bg.mActive /\ ~bg.gate /\ SendOk(wire, Membership, MembershipSince(bg))
          /\ bg' = [bg EXCEPT !.mDropped = 0, !.mResub = FALSE]
    /\ UNCHANGED <<relay, sock, fresh, todo, evq, cmds, harness, enqueued>>

\* The caller of a proactive resubscription tells the harness; the reconnect
\* loops just try again.
ResubscribeMembershipFails ==
    /\ conn = "resub" /\ todo = {} /\ bg.mActive /\ ~bg.gate
    /\ WriteFails("replay") /\ GiveUp
    /\ evq' = IF fresh THEN evq ELSE Signal
    /\ UNCHANGED <<relay, fresh, todo, bg, cmds, harness, enqueued>>

-----------------------------------------------------------------------------
(***************************************************************************)
(* Commands of the harness                                                 *)
(***************************************************************************)
\* While there is no connection, and after a failed write of the drain that
\* follows a reconnect, commands only leave their intent.
RecordIntent ==
    /\ conn \in {"lost", "failed"} /\ cmds # <<>>
    /\ bg' = ApplyCommand(bg, Head(cmds))
    /\ cmds' = Tail(cmds)
    /\ UNCHANGED <<relay, line, conn, sock, fresh, todo, evq, harness, enqueued>>

\* execute_connected_command for a command whose write, if any, succeeds.
Execute(cmd) ==
    CASE cmd.op = "subscribe" ->
            IF bg.gate
            THEN /\ bg' = [ApplyCommand(bg, cmd) EXCEPT !.pending = @ \cup {cmd.ch}]
                 /\ UNCHANGED line
            ELSE LET s == ApplyCommand(bg, cmd) IN
                 /\ SendOk(wire, cmd.ch, OrElse(s.lastSeen[cmd.ch], s.subSince[cmd.ch]))
                 /\ bg' = [s EXCEPT !.pending = @ \ {cmd.ch}, !.retry = @ \ {cmd.ch}]
      [] cmd.op = "unsubscribe" ->
            /\ IF cmd.ch \in bg.active THEN SendClose(cmd.ch) ELSE UNCHANGED line
            /\ bg' = ApplyCommand(bg, cmd)
      [] cmd.op = "membership" ->
            IF bg.gate
            THEN bg' = [bg EXCEPT !.mActive = TRUE, !.mResub = TRUE] /\ UNCHANGED line
            ELSE LET since == OrElse(bg.mLast, bg.watermark) IN
                 /\ SendOk(wire, Membership, since)
                 /\ bg' = [bg EXCEPT !.mActive = TRUE, !.mResub = FALSE, !.mLast = since]
      [] cmd.op = "watermark" -> bg' = ApplyCommand(bg, cmd) /\ UNCHANGED line

\* The next command writes a REQ, the write fails and the intent is kept.
RequestFails ==
    /\ cmds # <<>> /\ cmds' = Tail(cmds)
    /\ Head(cmds).op \in {"subscribe", "membership"} /\ ~bg.gate
    /\ bg' = IF Head(cmds).op = "subscribe" THEN ApplyCommand(bg, Head(cmds))
             ELSE [bg EXCEPT !.mActive = TRUE, !.mResub = TRUE]

UpCommand ==
    /\ conn = "up" /\ ~bg.proactive /\ cmds # <<>>
    /\ cmds' = Tail(cmds)
    /\ \/ Head(cmds).op # "reconnect" /\ Execute(Head(cmds)) /\ UNCHANGED <<conn, sock>>
       \/ Head(cmds).op = "reconnect" /\ GiveUp /\ UNCHANGED <<faults, bg>>
    /\ UNCHANGED <<relay, fresh, todo, evq, harness, enqueued>>

UpCommandFails ==
    /\ conn = "up" /\ ~bg.proactive
    /\ RequestFails /\ WriteFails("command")
    /\ GiveUp /\ evq' = Signal
    /\ UNCHANGED <<relay, fresh, todo, harness, enqueued>>

\* drain_commands, first inside the resubscription and, on a fresh connection,
\* once more after it.
DrainCommand ==
    /\ conn \in {"drain", "post"} /\ cmds # <<>>
    /\ cmds' = Tail(cmds)
    /\ \/ Head(cmds).op # "reconnect" /\ Execute(Head(cmds))
       \/ Head(cmds).op = "reconnect" /\ UNCHANGED <<line, bg>>
    /\ UNCHANGED <<relay, conn, sock, fresh, todo, evq, harness, enqueued>>

\* A failure of the first drain gives the connection up ...
DrainCommandFails ==
    /\ conn = "drain"
    /\ RequestFails /\ WriteFails("drain")
    /\ GiveUp
    /\ evq' = IF fresh THEN evq ELSE Signal
    /\ UNCHANGED <<relay, fresh, todo, harness, enqueued>>

\* ... and the callers go on after a failure of the second.
PostDrainFails ==
    /\ conn = "post" /\ conn' = "failed"
    /\ RequestFails
    /\ LET cmd == Head(cmds) IN
       IF cmd.op = "subscribe"
       THEN SendFails("post", cmd.ch, OrElse(bg'.lastSeen[cmd.ch], bg'.subSince[cmd.ch]))
       ELSE SendFails("post", Membership, OrElse(bg.mLast, bg.watermark))
    /\ UNCHANGED <<relay, sock, fresh, todo, evq, harness, enqueued>>

DrainDone ==
    /\ conn \in {"drain", "post", "failed"} /\ cmds = <<>>
    /\ conn' = IF conn = "drain" /\ fresh THEN "post" ELSE "up"
    /\ UNCHANGED <<relay, line, sock, fresh, todo, bg, evq, cmds, harness, enqueued>>

-----------------------------------------------------------------------------
(***************************************************************************)
(* The main loop of the task while it is connected                         *)
(***************************************************************************)
Ready == conn = "up" /\ ~bg.proactive

GateExpires ==
    /\ bg.gate /\ bg' = [bg EXCEPT !.gate = FALSE]
    /\ UNCHANGED <<relay, line, conn, sock, fresh, todo, evq, cmds, harness, enqueued>>

\* The three drains of parked subscriptions.  A failed write leaves the entry
\* where it is.
DrainMembership ==
    /\ Ready /\ ~bg.gate /\ bg.mResub
    /\ \/ /\ SendOk(wire, Membership, MembershipSince(bg))
          /\ bg' = [bg EXCEPT !.mDropped = 0, !.mResub = FALSE]
       \/ SendFails("replay", Membership, MembershipSince(bg)) /\ UNCHANGED bg
    /\ UNCHANGED <<relay, conn, sock, fresh, todo, evq, cmds, harness, enqueued>>

\* Seeded fault: whatever is parked is subscribed again.
DrainPendingBlindly(c) ==
    /\ Ready /\ ~bg.gate /\ c \in bg.pending
    /\ SendOk(wire, c, ChannelSince(bg, c))
    /\ bg' = [bg EXCEPT !.pending = @ \ {c}, !.dropped[c] = 0]
    /\ UNCHANGED <<relay, conn, sock, fresh, todo, evq, cmds, harness, enqueued>>

DrainPending(c) ==
    /\ Ready /\ ~bg.gate /\ c \in bg.pending
    /\ \/ c \notin bg.active /\ bg' = [bg EXCEPT !.pending = @ \ {c}] /\ UNCHANGED line
       \/ /\ c \in bg.active /\ SendOk(wire, c, ChannelSince(bg, c))
          /\ bg' = [bg EXCEPT !.pending = @ \ {c}, !.dropped[c] = 0]
       \/ c \in bg.active /\ SendFails("replay", c, ChannelSince(bg, c)) /\ UNCHANGED bg
    /\ UNCHANGED <<relay, conn, sock, fresh, todo, evq, cmds, harness, enqueued>>

DrainRetry(c) ==
    /\ Ready /\ c \in bg.retry
    /\ \/ /\ bg.gate
          /\ bg' = [bg EXCEPT !.pending = @ \cup {c}, !.retry = @ \ {c}] /\ UNCHANGED line
       \/ /\ ~bg.gate /\ SendOk(wire, c, ChannelSince(bg, c))
          /\ bg' = [bg EXCEPT !.retry = @ \ {c}, !.dropped[c] = 0]
       \/ ~bg.gate /\ SendFails("replay", c, ChannelSince(bg, c)) /\ UNCHANGED bg
    /\ UNCHANGED <<relay, conn, sock, fresh, todo, evq, cmds, harness, enqueued>>

\* An EVENT: a duplicate is skipped, a new one goes to the harness, and one
\* that finds the event channel full is dropped for a later replay.
ReadItem ==
    /\ Ready /\ wire # <<>> /\ Head(wire).type = "item"
    /\ wire' = Tail(wire)
    /\ LET i == Head(wire).item IN
       \/ SeenBefore(bg.seen, i.id) /\ UNCHANGED <<faults, bg, evq, enqueued>>
       \/ /\ ~SeenBefore(bg.seen, i.id) /\ Len(evq) < EventCap
          /\ bg' = Accept(bg, i)
          /\ evq' = Append(evq, i)
          /\ enqueued' = [enqueued EXCEPT ![i.id] = @ + 1]
          /\ UNCHANGED faults
       \/ /\ ~SeenBefore(bg.seen, i.id) /\ Len(evq) = EventCap
          /\ Fault
          /\ bg' = Refuse(bg, i)
          /\ UNCHANGED <<evq, enqueued>>
    /\ UNCHANGED <<relay, subs, cut, conn, sock, fresh, todo, cmds, harness>>

\* A CLOSED that denies access to a channel, or that asks to slow down.
ReadRefusal ==
    /\ Ready /\ wire # <<>> /\ Head(wire).type = "closed"
    /\ wire' = Tail(wire)
    /\ LET sub == Head(wire).sub IN
       \/ /\ Head(wire).why = "denied"
          /\ bg' = ClearChannel(bg, sub)
       \/ /\ Head(wire).why = "rate-limited" /\ sub \in Channels
          /\ bg' = [bg EXCEPT !.gate = TRUE, !.pending = @ \cup {sub}]
       \/ /\ Head(wire).why = "rate-limited" /\ sub = Membership
          /\ bg' = [bg EXCEPT !.gate = TRUE, !.mResub = TRUE]
    /\ UNCHANGED <<relay, subs, faults, cut, conn, sock, fresh, todo, evq, cmds, harness, enqueued>>

ReadNotice ==
    /\ Ready /\ wire # <<>> /\ Head(wire) = SlowDown
    /\ wire' = Tail(wire)
    /\ bg' = [bg EXCEPT !.gate = TRUE]
    /\ UNCHANGED <<relay, subs, faults, cut, conn, sock, fresh, todo, evq, cmds, harness, enqueued>>

\* Any other CLOSED: subscribe again, unless the channel is no longer wanted.
ReadClosed ==
    /\ Ready /\ wire # <<>> /\ Head(wire).type = "closed" /\ Head(wire).why = "error"
    /\ LET sub == Head(wire).sub IN
       \/ /\ sub = Membership
          /\ SendOk(Tail(wire), sub, MembershipSince(bg))
          /\ bg' = [bg EXCEPT !.mDropped = 0]
       \/ /\ sub \in bg.active
          /\ SendOk(Tail(wire), sub, ChannelSince(bg, sub))
          /\ bg' = [bg EXCEPT !.dropped[sub] = 0]
       \/ /\ sub \in Channels \ bg.active
          /\ wire' = Tail(wire) /\ UNCHANGED <<subs, faults, cut, bg>>
    /\ UNCHANGED <<relay, conn, sock, fresh, todo, evq, cmds, harness, enqueued>>

ReadClosedFails ==
    /\ Ready /\ wire # <<>> /\ Head(wire).type = "closed" /\ Head(wire).why = "error"
    /\ Head(wire).sub \in bg.active \cup {Membership}
    /\ WriteFails("command")
    /\ GiveUp /\ evq' = Signal
    /\ UNCHANGED <<relay, fresh, todo, bg, cmds, harness, enqueued>>

-----------------------------------------------------------------------------
(***************************************************************************)
(* The harness: what its main loop does with the event channel             *)
(***************************************************************************)
Take ==
    /\ evq # <<>> /\ evq' = Tail(evq)
    /\ UNCHANGED <<relay, line, conn, sock, fresh, todo, bg, enqueued>>

TakeEvent ==
    /\ Take /\ Head(evq).kind = "event"
    /\ UNCHANGED <<cmds, harness>>

TakeLoss ==
    /\ Take /\ Head(evq) = Lost
    /\ Len(cmds) < CmdCap
    /\ cmds' = Append(cmds, [op |-> "reconnect"])
    /\ UNCHANGED harness

IsNotice(x) == x.kind \in {"added", "removed"}

\* Seeded fault: a replayed notice is only told by its id.
StaleById(i) == SeenBefore(notices, i.id)

Stale(i) == SeenBefore(notices, i.id) \/ i.ts < newest[i.ch]

\* A notice that was seen, or that is older than the newest of its channel.
SkipNotice ==
    /\ Take /\ IsNotice(Head(evq)) /\ Stale(Head(evq))
    /\ notices' = IF SeenBefore(notices, Head(evq).id) THEN notices
                  ELSE Insert(notices, Head(evq).id, NoticeHalf)
    /\ UNCHANGED <<cmds, subscribed, newest>>

ApplyNotice ==
    /\ Take /\ IsNotice(Head(evq)) /\ ~Stale(Head(evq))
    /\ LET i == Head(evq) IN
       /\ notices' = Insert(notices, i.id, NoticeHalf)
       /\ newest' = [newest EXCEPT ![i.ch] = i.ts]
       /\ \/ /\ i.kind = "added" /\ i.ch \in subscribed
             /\ UNCHANGED <<cmds, subscribed>>
          \/ /\ i.kind = "added" /\ i.ch \notin subscribed /\ Len(cmds) < CmdCap
             /\ cmds' = Append(cmds, [op |-> "subscribe", ch |-> i.ch, ts |-> i.ts])
             /\ subscribed' = subscribed \cup {i.ch}
          \/ /\ i.kind = "removed" /\ Len(cmds) < CmdCap
             /\ cmds' = Append(cmds, [op |-> "unsubscribe", ch |-> i.ch])
             /\ subscribed' = subscribed \ {i.ch}

-----------------------------------------------------------------------------
Task ==
    \/ DetectLoss \/ Connect \/ ProactiveResubscribe
    \/ ResubscribeMembership \/ ResubscribeMembershipFails
    \/ RecordIntent \/ UpCommand \/ UpCommandFails
    \/ DrainCommand \/ DrainCommandFails \/ PostDrainFails \/ DrainDone
    \/ DrainMembership \/ ReadItem \/ ReadRefusal \/ ReadNotice \/ ReadClosed \/ ReadClosedFails
    \/ \E c \in Channels : ResubscribeChannel(c) \/ DrainPending(c) \/ DrainRetry(c)

Harness == TakeEvent \/ TakeLoss \/ SkipNotice \/ ApplyNotice

Next ==
    \/ Task \/ Harness \/ GateExpires \/ SocketDies \/ RelayThrottles
    \/ \E c \in Channels, k \in {"event", "added", "removed"} : Publish(c, k)
    \/ \E sub \in Channels \cup {Membership} : RelayCloses(sub)

Spec == Init /\ [][Next]_vars

\* The task and the harness keep running and the gate has a deadline; nothing
\* is assumed of the relay.
FairSpec == Spec /\ WF_vars(Task) /\ WF_vars(Harness) /\ WF_vars(GateExpires)

-----------------------------------------------------------------------------
(***************************************************************************)
(* What the connection promises                                            *)
(***************************************************************************)
Subs == Channels \cup {Membership}
Stamps == [Channels -> Nat]
Ids == 1..MaxItems
TwoGens == [current : SUBSET Ids, previous : SUBSET Ids]

Commands ==
    [op : {"subscribe"}, ch : Channels, ts : Nat] \cup [op : {"unsubscribe"}, ch : Channels]
    \cup [op : {"watermark"}, ts : Nat] \cup [op : {"membership", "reconnect"}]

States ==
    [active : SUBSET Channels, lastSeen : Stamps, dropped : Stamps, subSince : Stamps,
     pending : SUBSET Channels, retry : SUBSET Channels, gate : BOOLEAN,
     proactive : BOOLEAN, mActive : BOOLEAN, mLast : Nat, mDropped : Nat,
     mResub : BOOLEAN, watermark : Nat, seen : TwoGens]

\* The types of the state, and the capacity of the two channels.
TypeOK ==
    /\ log \subseteq Items /\ member \subseteq Channels /\ clock \in Nat
    /\ subs \subseteq Subs /\ faults \in 0..MaxFaults
    /\ cut \in [ended : SUBSET Ids, refused : SUBSET Ids]
    /\ conn \in {"up", "lost", "resub", "drain", "post", "failed"}
    /\ sock \in BOOLEAN /\ fresh \in BOOLEAN /\ todo \subseteq Channels
    /\ bg \in States
    /\ \A k \in DOMAIN evq : evq[k] \in Items \cup {Lost}
    /\ \A k \in DOMAIN cmds : cmds[k] \in Commands
    /\ Len(evq) <= EventCap /\ Len(cmds) <= CmdCap
    /\ subscribed \subseteq Channels /\ newest \in Stamps /\ notices \in TwoGens
    /\ enqueued \in [Ids -> Nat]

OnWire(sub, type) == \E k \in DOMAIN wire : wire[k].type = type /\ wire[k].sub = sub

\* Something is still on its way to make the task send a REQ for sub.
ResubscribeDue(sub) ==
    \/ ~sock \/ bg.proactive \/ conn = "lost" \/ OnWire(sub, "closed")
    \/ conn = "resub" /\ (sub \in todo \/ sub = Membership)
    \/ sub \in bg.pending \cup bg.retry
    \/ sub = Membership /\ bg.mResub

\* The agent was never removed from the channel; nothing removes the notices.
Stayed(sub) == \A j \in log : j.kind = "removed" => j.ch # sub

Wanted(i) ==
    \/ i.kind = "event" /\ i.ch \in bg.active /\ i.ts >= bg.subSince[i.ch] /\ Stayed(i.ch)
    \/ i.kind # "event" /\ bg.mActive

WithinReach(i) ==
    \/ enqueued[i.id] > 0 \/ OnItsWay(i)
    \/ ResubscribeDue(SubOf(i)) /\ AskedNext(i)

\* A membership notice, or an event of a subscribed channel the agent was never
\* removed from, gets out of reach in two ways only: the connection ended before
\* the rest of a replay was read, or before a REQ that carried the mark of
\* dropped items arrived; or the relay refused such a REQ.  Otherwise it was
\* handed to the harness, or it is on its way, or the next REQ, which is due,
\* asks for it (channel_since, the dropped_since marks and the resubscriptions
\* they are for).
NothingMissed ==
    \A i \in log : Wanted(i) => WithinReach(i) \/ i.id \in cut.ended \cup cut.refused

\* While the connection holds what was dropped comes back: its mark is kept until
\* a resubscription succeeds.
DroppedComeBack == \A i \in log : Wanted(i) => WithinReach(i) \/ i.id \in cut.ended

\* A replay hands no item to the harness twice, over reconnects and
\* resubscriptions, as long as the duplicate filter has not forgotten it.
NoDoubleDelivery == \A n \in Ids : enqueued[n] <= 1

\* Once every notice has been worked off the harness is subscribed to exactly
\* the channels it is a member of, in whatever order replays brought them.
MembershipSettled ==
    (\A i \in log : i.kind # "event" => SeenBefore(notices, i.id)) => subscribed = member

\* A subscription that the harness wants is live at the relay, or something is
\* on its way to make it so.
ActiveCovered ==
    \A sub \in bg.active \cup (IF bg.mActive THEN {Membership} ELSE {}) :
        sub \in subs \/ ResubscribeDue(sub)

\* No late CLOSED, no parked and no retried entry brings back a subscription
\* that was given up.
NoResurrection == [][\A c \in Channels : c \in subs' \ subs => c \in bg'.active]_vars

\* What a channel the agent was never removed from received while it is
\* subscribed, and every notice, reaches the harness, unless it got out of reach
\* in one of those two ways.
EventuallyEnqueued ==
    \A n \in Ids :
        (\E i \in log : i.id = n /\ Wanted(i))
            ~> \/ enqueued[n] > 0 \/ n \in cut.ended \cup cut.refused
               \/ \E i \in log : i.id = n /\ ~Wanted(i)

=============================================================================
