-------------------------- MODULE HuddleOwnership --------------------------
(***************************************************************************)
(* Who owns a huddle. Relay pods share one audio huddle through a fenced   *)
(* lease in Redis (tunnel/directory.rs). A client's connection resolves    *)
(* the owner (audio/join.rs), enters a room of its own pod or registers at *)
(* the owner's over a control stream, and cleans up when it ends           *)
(* (audio/handler.rs, audio/room.rs). The owner pod keeps one renewer per  *)
(* lease in a registry that shutdown drains.                               *)
(*                                                                         *)
(* A connection lives once: a client that rejoins is another element of    *)
(* Conns. Steps are the stretches of code between two awaits, split again  *)
(* where two threads meet without a common lock.                           *)
(***************************************************************************)
EXTENDS Integers, FiniteSets

CONSTANTS
    Pods, Conns,
    NoPod,
    MaxGen,             \* bound: generations minted
    MaxRooms,           \* bound: room objects alive at once
    MaxFaults,          \* bound: Redis and database errors, stalls, crashes
    Drainable,          \* pods that may receive SIGTERM
    PromptAdmission     \* no lease runs out between acquire and attach

ASSUME PodsAssumption == NoPod \notin Pods
ASSUME BoundsAssumption == MaxGen \in Nat /\ MaxRooms \in Nat /\ MaxFaults \in Nat
ASSUME DrainAssumption == Drainable \subseteq Pods /\ PromptAdmission \in BOOLEAN

Gens == 1..MaxGen
Rooms == 1..MaxRooms

VARIABLES
    lease,      \* the lease key: its owner (NoPod: absent) and generation
    counter,    \* the generation key, which never expires
    fenced,     \* history: generation of the last header Redis accepted
    minted,     \* the pod each generation was acquired by
    renewer,    \* the renewer task of each generation
    lost,       \* generations whose loss token is cancelled
    drained,    \* generations whose drain token is cancelled
    cancelled,  \* generations whose renewer was told to stop
    entry,      \* HuddleOwnerRegistry of each pod: a generation or 0
    stage,      \* how far a pod is in its shutdown
    target,     \* the entry drain_all collected
    live,       \* the room in each pod's AudioRoomManager, or 0
    rooms,      \* the room objects: their peers and the ended flag
    archived,   \* the channel row
    conn,       \* one record per connection
    ctl,        \* the owner's side of each control stream
    faults      \* faults that may still happen

redis == <<lease, counter, fenced>>
tokens == <<minted, renewer, lost, drained, cancelled>>
registry == <<entry, stage, target>>
space == <<live, rooms, archived>>
vars == <<redis, tokens, registry, space, conn, ctl, faults>>

(***************************************************************************)
(* State.                                                                  *)
(***************************************************************************)

NoLease == [owner |-> NoPod, gen |-> 0]

EmptyRoom == [peers |-> {}, ended |-> FALSE]

NewConn == [at |-> "new", home |-> NoPod, owner |-> NoPod, gen |-> 0,
            acquired |-> 0, watch |-> 0, room |-> 0]

Over == [NewConn EXCEPT !.at = "gone"]

NoStream == [at |-> "none", owner |-> NoPod, gen |-> 0, watch |-> 0, room |-> 0]

Closed == [NoStream EXCEPT !.at = "closed"]

Init ==
    /\ lease = NoLease
    /\ counter = 0
    /\ fenced = 0
    /\ minted = [g \in Gens |-> NoPod]
    /\ renewer = [g \in Gens |-> "none"]
    /\ lost = {} /\ drained = {} /\ cancelled = {}
    /\ entry = [p \in Pods |-> 0]
    /\ stage = [p \in Pods |-> "serving"]
    /\ target = [p \in Pods |-> 0]
    /\ live = [p \in Pods |-> 0]
    /\ rooms = [r \in Rooms |-> EmptyRoom]
    /\ archived = FALSE
    /\ conn = [k \in Conns |-> NewConn]
    /\ ctl = [k \in Conns |-> NoStream]
    /\ faults = MaxFaults

Draining(p) == stage[p] # "serving"

Remote(k) == conn[k].owner # conn[k].home

HeldBy(p, g) == lease = [owner |-> p, gen |-> g]

Fault ==
    /\ faults > 0
    /\ faults' = faults - 1

Goto(k, at) == conn' = [conn EXCEPT ![k].at = at]

End(k) == conn' = [conn EXCEPT ![k] = Over]

(***************************************************************************)
(* Rooms. A connection keeps the Arc it got, so a room that was removed    *)
(* from the manager can still be entered; it never becomes live again.     *)
(***************************************************************************)

Referenced(r) ==
    \/ \E p \in Pods : live[p] = r
    \/ \E k \in Conns : conn[k].room = r \/ ctl[k].room = r

\* get_or_create: the pod's room becomes r.
GetOrCreate(p, r) ==
    IF live[p] # 0
      THEN r = live[p] /\ UNCHANGED <<live, rooms>>
      ELSE /\ ~Referenced(r)
           /\ \A s \in Rooms : s < r => Referenced(s)
           /\ live' = [live EXCEPT ![p] = r]
           /\ rooms' = [rooms EXCEPT ![r] = EmptyRoom]

\* cleanup_if_empty removes the pod's present room.
Vacant(p) == live[p] # 0 /\ rooms[live[p]].peers = {}

CleanupIfEmpty(p) ==
    live' = IF Vacant(p) THEN [live EXCEPT ![p] = 0] ELSE live

AddPeer(k, r) == rooms' = [rooms EXCEPT ![r].peers = @ \cup {k}]

\* remove_peer on the room the manager has now, if it has one.
RemoveFromLive(p, k) ==
    rooms' = IF live[p] = 0 THEN rooms
             ELSE [rooms EXCEPT ![live[p]].peers = @ \ {k}]

(***************************************************************************)
(* Resolving the owner.                                                    *)
(***************************************************************************)

\* The socket is accepted by pod p. A draining pod turns the client away
\* before it asks Redis.
Arrive(k, p) ==
    /\ conn[k].at = "new"
    /\ IF Draining(p) THEN End(k)
       ELSE conn' = [conn EXCEPT ![k].home = p, ![k].at = "resolving"]
    /\ UNCHANGED <<redis, tokens, registry, space, ctl, faults>>

\* What resolve_join does with a lease that somebody holds.
Route(k) ==
    conn' = [conn EXCEPT ![k].owner = lease.owner, ![k].gen = lease.gen,
                         ![k].at = IF lease.owner = conn[k].home THEN "checking"
                                   ELSE "validating"]

\* Lookup: GET of the lease key.
Lookup(k) ==
    /\ conn[k].at = "resolving"
    /\ IF lease = NoLease THEN Goto(k, "acquiring") ELSE Route(k)
    /\ UNCHANGED <<redis, tokens, registry, space, ctl, faults>>

\* Seeded fault: the lease is written without a look at the present one.
MintBlindly(p) ==
    /\ counter < MaxGen
    /\ counter' = counter + 1
    /\ lease' = [owner |-> p, gen |-> counter']
    /\ minted' = [minted EXCEPT ![counter'] = p]
    /\ UNCHANGED <<fenced, renewer, lost, drained, cancelled>>

\* ACQUIRE_SCRIPT where no lease exists: the counter and the lease move
\* together.
Mint(p) ==
    /\ lease = NoLease
    /\ counter < MaxGen
    /\ counter' = counter + 1
    /\ lease' = [owner |-> p, gen |-> counter']
    /\ minted' = [minted EXCEPT ![counter'] = p]
    /\ UNCHANGED <<fenced, renewer, lost, drained, cancelled>>

Acquire(k) ==
    /\ conn[k].at = "acquiring"
    /\ \/ /\ Mint(conn[k].home)
          /\ conn' = [conn EXCEPT ![k].owner = conn[k].home, ![k].gen = counter',
                                  ![k].acquired = counter', ![k].at = "entering"]
       \/ /\ lease # NoLease
          /\ Route(k)
          /\ UNCHANGED <<redis, tokens>>
    /\ UNCHANGED <<registry, space, ctl, faults>>

\* The reply of an executed acquire is lost: the join fails, the lease stays.
AcquireUnanswered(k) ==
    /\ conn[k].at = "acquiring"
    /\ Fault
    /\ Mint(conn[k].home)
    /\ End(k)
    /\ UNCHANGED <<registry, space, ctl>>

\* The registry, not the lookup, decides whether the owner is ready. After
\* OWNER_READY_MAX_ATTEMPTS the join fails closed.
CheckOwner(k) ==
    /\ conn[k].at = "checking"
    /\ IF entry[conn[k].home] # 0 THEN Goto(k, "entering")
       ELSE Goto(k, "resolving") \/ End(k)
    /\ UNCHANGED <<redis, tokens, registry, space, ctl, faults>>

\* validate_fenced_header accepts only the owner and generation of a live
\* lease.
Accepts(p, g) == lease # NoLease /\ HeldBy(p, g)

\* Origin side of the fence: the header must still be current.
Validate(k) ==
    /\ conn[k].at = "validating"
    /\ IF Accepts(conn[k].owner, conn[k].gen)
         THEN Goto(k, "entering") /\ fenced' = conn[k].gen
         ELSE End(k) /\ UNCHANGED fenced
    /\ UNCHANGED <<lease, counter, tokens, registry, space, ctl, faults>>

\* Any of the directory calls fails: the join is rejected.
RedisFails(k) ==
    /\ conn[k].at \in {"resolving", "acquiring", "validating"}
    /\ Fault
    /\ End(k)
    /\ UNCHANGED <<redis, tokens, registry, space, ctl>>

(***************************************************************************)
(* Entering a room.                                                        *)
(***************************************************************************)

EnterRoom(k) ==
    /\ conn[k].at = "entering"
    /\ \E r \in Rooms :
         /\ GetOrCreate(conn[k].home, r)
         /\ conn' = [conn EXCEPT ![k].room = r, ![k].at = "entered"]
    /\ UNCHANGED <<redis, tokens, registry, archived, ctl, faults>>

\* The archived check after the room was obtained. An acquired lease is
\* dropped unreleased.
ArchivedCheck(k) ==
    /\ conn[k].at = "entered"
    /\ IF archived
         THEN End(k) /\ CleanupIfEmpty(conn[k].home)
         ELSE /\ Goto(k, IF Remote(k) THEN "dialing" ELSE "admitting")
              /\ UNCHANGED live
    /\ UNCHANGED <<redis, tokens, registry, rooms, archived, ctl, faults>>

\* A database error counts as archived.
ArchivedCheckFails(k) ==
    /\ conn[k].at = "entered"
    /\ Fault
    /\ End(k)
    /\ CleanupIfEmpty(conn[k].home)
    /\ UNCHANGED <<redis, tokens, registry, rooms, archived, ctl>>

\* An unsupported or mismatched version, or a full room, ends the join; the
\* room stays.
Refused(k) ==
    /\ conn[k].at \in {"dialing", "admitting"}
    /\ End(k)
    /\ UNCHANGED <<redis, tokens, registry, space, ctl, faults>>

\* add_peer, or add_peer_at_index for a client registered at the owner. A
\* room that ended admits nobody.
Admit(k) ==
    /\ conn[k].at = "admitting"
    /\ LET r == conn[k].room IN
       IF rooms[r].ended
         THEN End(k) /\ UNCHANGED rooms
         ELSE /\ AddPeer(k, r)
              /\ Goto(k, IF Remote(k) THEN "in" ELSE "attaching")
    /\ UNCHANGED <<redis, tokens, registry, live, archived, ctl, faults>>

(***************************************************************************)
(* attach_signals: the connection that acquired installs the renewer.      *)
(***************************************************************************)

Watching(k, g, at) == conn' = [conn EXCEPT ![k].watch = g, ![k].at = at]

\* A renewer whose cancel token is already cancelled only releases.
Throwaway(g) ==
    /\ renewer' = [renewer EXCEPT ![g] = "running"]
    /\ cancelled' = cancelled \cup {g}

\* First check: a draining pod releases the lease and hands out a drain
\* token that has fired.
AttachDraining(k) ==
    /\ conn[k].at = "attaching"
    /\ conn[k].acquired # 0
    /\ Draining(conn[k].home)
    /\ Throwaway(conn[k].gen)
    /\ drained' = drained \cup {conn[k].gen}
    /\ Watching(k, conn[k].gen, "in")
    /\ UNCHANGED <<redis, minted, lost, registry, space, ctl, faults>>

PassDrainCheck(k) ==
    /\ conn[k].at = "attaching"
    /\ conn[k].acquired # 0
    /\ ~Draining(conn[k].home)
    /\ Goto(k, "inserting")
    /\ UNCHANGED <<redis, tokens, registry, space, ctl, faults>>

\* An entry that is already there wins; the extra lease is released.
AttachExisting(k) ==
    /\ conn[k].at = "inserting"
    /\ entry[conn[k].home] # 0
    /\ Throwaway(conn[k].gen)
    /\ Watching(k, entry[conn[k].home], "in")
    /\ UNCHANGED <<redis, minted, lost, drained, registry, space, ctl, faults>>

PassEntryCheck(k) ==
    /\ conn[k].at = "inserting"
    /\ entry[conn[k].home] = 0
    /\ Goto(k, "spawning")
    /\ UNCHANGED <<redis, tokens, registry, space, ctl, faults>>

\* The insert replaces whatever came in since the look-up.
InsertEntry(k) ==
    /\ conn[k].at = "spawning"
    /\ renewer' = [renewer EXCEPT ![conn[k].gen] = "running"]
    /\ entry' = [entry EXCEPT ![conn[k].home] = conn[k].gen]
    /\ Watching(k, conn[k].gen, "rechecking")
    /\ UNCHANGED <<redis, minted, lost, drained, cancelled, stage, target,
                   space, ctl, faults>>

\* Seeded fault: no second check after the insert.
RecheckMissing(k) ==
    /\ conn[k].at = "rechecking"
    /\ Goto(k, "in")
    /\ UNCHANGED <<redis, tokens, registry, space, ctl, faults>>

\* Second check, against drain_all in between.
Recheck(k) ==
    /\ conn[k].at = "rechecking"
    /\ Goto(k, "in")
    /\ LET p == conn[k].home
           g == conn[k].gen
       IN IF Draining(p)
            THEN /\ entry' = IF entry[p] = g THEN [entry EXCEPT ![p] = 0]
                             ELSE entry
                 /\ drained' = drained \cup {g}
                 /\ cancelled' = cancelled \cup {g}
            ELSE UNCHANGED <<entry, drained, cancelled>>
    /\ UNCHANGED <<redis, minted, renewer, lost, stage, target, space, ctl,
                   faults>>

\* A later joiner takes whatever the registry has now.
Reuse(k) ==
    /\ conn[k].at = "attaching"
    /\ conn[k].acquired = 0
    /\ Watching(k, entry[conn[k].home], "in")
    /\ UNCHANGED <<redis, tokens, registry, space, ctl, faults>>

(***************************************************************************)
(* The renewer of a generation.                                            *)
(***************************************************************************)

\* A renewal that finds its lease gone or replaced. One that succeeds
\* changes nothing here.
RenewLost(g) ==
    /\ renewer[g] = "running"
    /\ ~HeldBy(minted[g], g)
    /\ lost' = lost \cup {g}
    /\ renewer' = [renewer EXCEPT ![g] = "releasing"]
    /\ UNCHANGED <<redis, minted, drained, cancelled, registry, space, conn,
                   ctl, faults>>

\* A renewal that fails counts as a loss.
RenewFails(g) ==
    /\ renewer[g] = "running"
    /\ Fault
    /\ lost' = lost \cup {g}
    /\ renewer' = [renewer EXCEPT ![g] = "releasing"]
    /\ UNCHANGED <<redis, minted, drained, cancelled, registry, space, conn, ctl>>

RenewerCancelled(g) ==
    /\ renewer[g] = "running"
    /\ g \in cancelled
    /\ renewer' = [renewer EXCEPT ![g] = "releasing"]
    /\ UNCHANGED <<redis, minted, lost, drained, cancelled, registry, space,
                   conn, ctl, faults>>

\* RELEASE_SCRIPT: only the lease of exactly this generation is deleted.
ReleaseLease(g) ==
    /\ renewer[g] = "releasing"
    /\ renewer' = [renewer EXCEPT ![g] = "done"]
    /\ IF HeldBy(minted[g], g)
         THEN lease' = NoLease /\ UNCHANGED lost
         ELSE lost' = lost \cup {g} /\ UNCHANGED lease
    /\ UNCHANGED <<counter, fenced, minted, drained, cancelled, registry,
                   space, conn, ctl, faults>>

\* A release that fails leaves the lease to its TTL. Unless the renewer was
\* told to stop, its loss token has fired before.
ReleaseFails(g) ==
    /\ renewer[g] = "releasing"
    /\ Fault
    /\ renewer' = [renewer EXCEPT ![g] = "done"]
    /\ UNCHANGED <<redis, minted, lost, drained, cancelled, registry, space,
                   conn, ctl>>

\* Somebody between acquire and attach counts on the lease.
Awaited(g) ==
    \E k \in Conns : conn[k].acquired = g
                     /\ conn[k].at \in {"entering", "entered", "admitting",
                                        "attaching", "inserting", "spawning"}

\* Redis drops a lease nobody renews. A renewer that is alive can still miss
\* its three renewals in a row, which is a fault.
LeaseExpires ==
    /\ lease # NoLease
    /\ PromptAdmission => ~Awaited(lease.gen)
    /\ IF renewer[lease.gen] = "running" THEN Fault ELSE UNCHANGED faults
    /\ lease' = NoLease
    /\ UNCHANGED <<counter, fenced, tokens, registry, space, conn, ctl>>

(***************************************************************************)
(* Shutdown: drain_all, and the crash of a pod.                            *)
(***************************************************************************)

DrainFlag(p) ==
    /\ p \in Drainable
    /\ stage[p] = "serving"
    /\ stage' = [stage EXCEPT ![p] = "flagged"]
    /\ UNCHANGED <<redis, tokens, entry, target, space, conn, ctl, faults>>

DrainCollect(p) ==
    /\ stage[p] = "flagged"
    /\ stage' = [stage EXCEPT ![p] = "collected"]
    /\ target' = [target EXCEPT ![p] = entry[p]]
    /\ UNCHANGED <<redis, tokens, entry, space, conn, ctl, faults>>

\* Seeded fault: peers are told, the renewer is not stopped.
DrainEntrySignalOnly(p) ==
    /\ stage[p] = "collected"
    /\ stage' = [stage EXCEPT ![p] = "drained"]
    /\ IF target[p] # 0 /\ entry[p] = target[p]
         THEN /\ entry' = [entry EXCEPT ![p] = 0]
              /\ drained' = drained \cup {target[p]}
         ELSE UNCHANGED <<entry, drained>>
    /\ target' = [target EXCEPT ![p] = 0]
    /\ UNCHANGED <<redis, minted, renewer, lost, cancelled, space, conn, ctl,
                   faults>>

\* drain: the signal first, then the renewer, fenced on the generation.
DrainEntry(p) ==
    /\ stage[p] = "collected"
    /\ stage' = [stage EXCEPT ![p] = "drained"]
    /\ IF target[p] # 0 /\ entry[p] = target[p]
         THEN /\ entry' = [entry EXCEPT ![p] = 0]
              /\ drained' = drained \cup {target[p]}
              /\ cancelled' = cancelled \cup {target[p]}
         ELSE UNCHANGED <<entry, drained, cancelled>>
    /\ target' = [target EXCEPT ![p] = 0]
    /\ UNCHANGED <<redis, minted, renewer, lost, space, conn, ctl, faults>>

\* The process dies: its tasks, rooms and streams go with it, its lease
\* stays in Redis. A restarted relay has another runtime id.
Crash(p) ==
    /\ stage[p] # "down"
    /\ Fault
    /\ stage' = [stage EXCEPT ![p] = "down"]
    /\ entry' = [entry EXCEPT ![p] = 0]
    /\ target' = [target EXCEPT ![p] = 0]
    /\ live' = [live EXCEPT ![p] = 0]
    /\ renewer' = [g \in Gens |-> IF minted[g] = p /\ renewer[g] # "none"
                                  THEN "done" ELSE renewer[g]]
    /\ conn' = [k \in Conns |-> IF conn[k].home = p THEN Over ELSE conn[k]]
    /\ ctl' = [k \in Conns |->
                 IF ctl[k].owner = p THEN Closed ELSE ctl[k]]
    /\ UNCHANGED <<redis, minted, lost, drained, cancelled, rooms, archived>>

(***************************************************************************)
(* The control stream of a remote client: dial_remote_owner on one pod,    *)
(* accept_inbound and serve_control_loop on the other.                     *)
(***************************************************************************)

Stream(k, at) == ctl' = [ctl EXCEPT ![k].at = at]

\* The stream is opened and RegisterPeer sent.
Dial(k) ==
    /\ conn[k].at = "dialing"
    /\ stage[conn[k].owner] # "down"
    /\ Goto(k, "awaiting")
    /\ ctl' = [ctl EXCEPT ![k] = [at |-> "hello", owner |-> conn[k].owner,
                                   gen |-> conn[k].gen, watch |-> 0, room |-> 0]]
    /\ UNCHANGED <<redis, tokens, registry, space, faults>>

\* Rejected by the owner, unreachable, or cut off while waiting.
DialEnds(k) ==
    /\ \/ /\ conn[k].at = "dialing"
          /\ stage[conn[k].owner] = "down"
          /\ UNCHANGED faults
       \/ /\ conn[k].at = "awaiting"
          /\ ctl[k].at \in {"refused", "closed", "cut"}
          /\ UNCHANGED faults
       \/ /\ conn[k].at = "awaiting"
          /\ Fault
    /\ End(k)
    /\ CleanupIfEmpty(conn[k].home)
    /\ UNCHANGED <<redis, tokens, registry, rooms, archived, ctl>>

DialSucceeds(k) ==
    /\ conn[k].at = "awaiting"
    /\ ctl[k].at = "serving"
    /\ Goto(k, "admitting")
    /\ UNCHANGED <<redis, tokens, registry, space, ctl, faults>>

\* The tokens are looked up once, when the stream arrives.
Accept(k) ==
    /\ ctl[k].at = "hello"
    /\ ctl' = [ctl EXCEPT ![k].at = "open", ![k].watch = entry[ctl[k].owner]]
    /\ UNCHANGED <<redis, tokens, registry, space, conn, faults>>

\* RegisterPeer: a draining owner says goodbye, otherwise the room is
\* obtained before the fence is asked.
Register(k) ==
    /\ ctl[k].at = "open"
    /\ IF Draining(ctl[k].owner)
         THEN ctl' = [ctl EXCEPT ![k] = Closed] /\ UNCHANGED <<live, rooms>>
         ELSE \E r \in Rooms :
                /\ GetOrCreate(ctl[k].owner, r)
                /\ ctl' = [ctl EXCEPT ![k].at = "fencing", ![k].room = r]
    /\ UNCHANGED <<redis, tokens, registry, archived, conn, faults>>

\* Owner side of the fence.
Fence(k) ==
    /\ ctl[k].at = "fencing"
    /\ IF Accepts(ctl[k].owner, ctl[k].gen)
         THEN Stream(k, "validated") /\ fenced' = ctl[k].gen
         ELSE /\ ctl' = [ctl EXCEPT ![k].at = "refused", ![k].room = 0]
              /\ UNCHANGED fenced
    /\ UNCHANGED <<lease, counter, tokens, registry, space, conn, faults>>

\* An error that is no rejection tears the stream down.
FenceFails(k) ==
    /\ ctl[k].at = "fencing"
    /\ Fault
    /\ ctl' = [ctl EXCEPT ![k] = Closed]
    /\ UNCHANGED <<redis, tokens, registry, space, conn>>

\* register_remote_peer: the room may refuse, and must if it has ended.
RegisterRemotePeer(k) ==
    /\ ctl[k].at = "validated"
    /\ \/ /\ ctl' = [ctl EXCEPT ![k].at = "refused", ![k].room = 0]
          /\ UNCHANGED rooms
       \/ /\ ~rooms[ctl[k].room].ended
          /\ ctl' = [ctl EXCEPT ![k].at = "serving", ![k].room = 0]
          /\ AddPeer(k, ctl[k].room)
    /\ UNCHANGED <<redis, tokens, registry, live, archived, conn, faults>>

Fired(g) == g # 0 /\ g \in lost \cup drained

HungUp(k) == conn[k].at \in {"leaving", "cleaning", "gone"}

\* Seeded fault: the peers stay in the room.
StreamEndsKeepingPeers(k) ==
    /\ ctl[k].at \in {"open", "refused", "serving"}
    /\ Fired(ctl[k].watch) \/ HungUp(k)
    /\ ctl' = [ctl EXCEPT ![k] = Closed]
    /\ UNCHANGED <<redis, tokens, registry, space, conn, faults>>

\* A token fires or the ingress pod closes: every peer of the stream leaves
\* the owner's present room, without the end check.
StreamEnds(k) ==
    /\ ctl[k].at \in {"open", "refused", "serving"}
    /\ Fired(ctl[k].watch) \/ HungUp(k)
    /\ RemoveFromLive(ctl[k].owner, k)
    /\ ctl' = [ctl EXCEPT ![k] = Closed]
    /\ UNCHANGED <<redis, tokens, registry, live, archived, conn, faults>>

\* A roster frame cannot be written: the loop returns at once, past the
\* teardown that removes the peers of the stream.
RosterSendFails(k) ==
    /\ ctl[k].at = "serving"
    /\ Fault
    /\ Stream(k, "cut")
    /\ UNCHANGED <<redis, tokens, registry, space, conn>>

(***************************************************************************)
(* The end of a connection.                                                *)
(***************************************************************************)

\* The client closes its socket, or stops answering pings.
Leave(k) ==
    /\ conn[k].at = "in"
    /\ Goto(k, "leaving")
    /\ UNCHANGED <<redis, tokens, registry, space, ctl, faults>>

\* The watcher of the owner's tokens, or the reader of the control stream,
\* closes the client for a rejoin.
ClosedForRejoin(k) ==
    /\ conn[k].at = "in"
    /\ IF Remote(k) THEN ctl[k].at \in {"closed", "cut"} ELSE Fired(conn[k].watch)
    /\ Goto(k, "leaving")
    /\ UNCHANGED <<redis, tokens, registry, space, ctl, faults>>

\* remove_peer_and_check_ended; an ingress mirror only removes.
RemovePeer(k) ==
    /\ conn[k].at = "leaving"
    /\ LET r    == conn[k].room
           left == rooms[r].peers \ {k}
           ends == ~Remote(k) /\ left = {} /\ ~rooms[r].ended
       IN /\ rooms' = [rooms EXCEPT ![r] = [peers |-> left,
                                            ended |-> @.ended \/ ends]]
          /\ Goto(k, IF ends THEN "archiving" ELSE "cleaning")
    /\ UNCHANGED <<redis, tokens, registry, live, archived, ctl, faults>>

Archive(k) ==
    /\ conn[k].at = "archiving"
    /\ archived' = TRUE
    /\ Goto(k, "cleaning")
    /\ UNCHANGED <<redis, tokens, registry, live, rooms, ctl, faults>>

\* If archive_channel fails the room is reopened and nothing cleaned up.
ArchiveFails(k) ==
    /\ conn[k].at = "archiving"
    /\ Fault
    /\ rooms' = [rooms EXCEPT ![conn[k].room].ended = FALSE]
    /\ End(k)
    /\ UNCHANGED <<redis, tokens, registry, live, archived, ctl>>

Cleanup(k) ==
    /\ conn[k].at = "cleaning"
    /\ CleanupIfEmpty(conn[k].home)
    /\ IF Vacant(conn[k].home) /\ ~Remote(k) THEN Goto(k, "releasing") ELSE End(k)
    /\ UNCHANGED <<redis, tokens, registry, rooms, archived, ctl, faults>>

\* Seeded fault: the entry is dropped without stopping its renewer.
ReleaseEntryOnly(k) ==
    /\ conn[k].at = "releasing"
    /\ entry' = IF entry[conn[k].home] = conn[k].gen
                THEN [entry EXCEPT ![conn[k].home] = 0] ELSE entry
    /\ End(k)
    /\ UNCHANGED <<redis, tokens, stage, target, space, ctl, faults>>

\* HuddleOwnerRegistry::release, fenced on the generation this connection
\* saw as owner.
ReleaseEntry(k) ==
    /\ conn[k].at = "releasing"
    /\ IF entry[conn[k].home] = conn[k].gen
         THEN /\ entry' = [entry EXCEPT ![conn[k].home] = 0]
              /\ cancelled' = cancelled \cup {conn[k].gen}
         ELSE UNCHANGED <<entry, cancelled>>
    /\ End(k)
    /\ UNCHANGED <<redis, minted, renewer, lost, drained, stage, target, space,
                   ctl, faults>>

(***************************************************************************)
(* Specification.                                                          *)
(***************************************************************************)

Joining(k) ==
    \/ (\E p \in Pods : Arrive(k, p)) \/ Lookup(k) \/ Acquire(k) \/ CheckOwner(k) \/ Validate(k)
    \/ EnterRoom(k) \/ ArchivedCheck(k) \/ Refused(k) \/ Admit(k)
    \/ AttachDraining(k) \/ PassDrainCheck(k) \/ AttachExisting(k)
    \/ PassEntryCheck(k) \/ InsertEntry(k) \/ Recheck(k) \/ Reuse(k)
    \/ Dial(k) \/ DialSucceeds(k)

Leaving(k) ==
    \/ ClosedForRejoin(k) \/ RemovePeer(k) \/ Archive(k) \/ Cleanup(k)
    \/ ReleaseEntry(k)

Serving(k) ==
    \/ Accept(k) \/ Register(k) \/ Fence(k) \/ RegisterRemotePeer(k)
    \/ StreamEnds(k)

Renewing(g) == RenewLost(g) \/ RenewerCancelled(g) \/ ReleaseLease(g)

Shutdown(p) == DrainCollect(p) \/ DrainEntry(p)

Failing(k) ==
    \/ AcquireUnanswered(k) \/ RedisFails(k) \/ FenceFails(k)
    \/ RosterSendFails(k) \/ ArchivedCheckFails(k) \/ ArchiveFails(k)

Next ==
    \/ \E k \in Conns : \/ Joining(k) \/ DialEnds(k) \/ Leave(k) \/ Leaving(k)
                        \/ Serving(k) \/ Failing(k)
    \/ \E g \in Gens : Renewing(g) \/ RenewFails(g) \/ ReleaseFails(g)
    \/ \E p \in Pods : DrainFlag(p) \/ Shutdown(p) \/ Crash(p)
    \/ LeaseExpires

Spec == Init /\ [][Next]_vars

\* Tasks of the runtime run on, and Redis drops what is not renewed. Nobody
\* has to leave, fail or shut down.
LeaseRunsOut == LeaseExpires /\ UNCHANGED faults

FairSpec ==
    /\ Spec
    /\ \A k \in Conns : WF_vars(Joining(k)) /\ WF_vars(Leaving(k))
                        /\ WF_vars(Serving(k))
    /\ \A g \in Gens : WF_vars(Renewing(g))
    /\ \A p \in Pods : WF_vars(Shutdown(p))
    /\ WF_vars(LeaseRunsOut)

(***************************************************************************)
(* Properties.                                                             *)
(***************************************************************************)

ConnPhases == {"new", "resolving", "acquiring", "checking", "validating",
               "entering", "entered", "dialing", "awaiting", "admitting",
               "attaching", "inserting", "spawning", "rechecking", "in",
               "leaving", "archiving", "cleaning", "releasing", "gone"}

StreamPhases == {"none", "hello", "open", "fencing", "validated", "refused",
                 "serving", "closed", "cut"}

\* Type invariant. Generations held anywhere were minted before.
TypeOK ==
    /\ lease \in [owner : Pods \cup {NoPod}, gen : 0..MaxGen]
    /\ counter \in 0..MaxGen
    /\ fenced \in 0..counter
    /\ minted \in [Gens -> Pods \cup {NoPod}]
    /\ renewer \in [Gens -> {"none", "running", "releasing", "done"}]
    /\ lost \subseteq Gens /\ drained \subseteq Gens /\ cancelled \subseteq Gens
    /\ entry \in [Pods -> 0..counter]
    /\ stage \in [Pods -> {"serving", "flagged", "collected", "drained", "down"}]
    /\ target \in [Pods -> 0..counter]
    /\ live \in [Pods -> 0..MaxRooms]
    /\ rooms \in [Rooms -> [peers : SUBSET Conns, ended : BOOLEAN]]
    /\ archived \in BOOLEAN
    /\ conn \in [Conns -> [at : ConnPhases, home : Pods \cup {NoPod},
                           owner : Pods \cup {NoPod}, gen : 0..counter,
                           acquired : 0..counter, watch : 0..counter, room : 0..MaxRooms]]
    /\ ctl \in [Conns -> [at : StreamPhases, owner : Pods \cup {NoPod},
                          gen : 0..counter, watch : 0..counter,
                          room : 0..MaxRooms]]
    /\ faults \in 0..MaxFaults

\* The scripts, the renewers and every hop of the fence together implement
\* the abstract lease: one holder, an epoch per grant, and nothing accepted
\* but under the present holder's epoch.
Lease == INSTANCE FencedLease WITH
            Owners <- Pods, Nobody <- NoPod,
            epoch <- counter, holder <- lease.owner, used <- fenced

LeaseSpec == Lease!Spec

\* A lease that is being renewed can be released: a renewer that was not told
\* to stop and still holds the lease is the one its pod's registry knows, so
\* the last leaver or a drain can reach it (join.rs:648-651, "so no lease
\* leaks").
RenewerReachable ==
    \A g \in Gens :
        renewer[g] = "running" /\ g \notin cancelled /\ HeldBy(minted[g], g)
            => entry[minted[g]] = g

\* After drain_all no renewer of the pod goes on holding the lease, except in
\* the moment before its own connection rechecks the draining flag and stops
\* it (join.rs:707, "Close the check-insert race with drain_all()").
DrainedNotRenewed ==
    \A g \in Gens :
        /\ minted[g] # NoPod /\ stage[minted[g]] = "drained"
        /\ renewer[g] = "running" /\ g \notin cancelled /\ HeldBy(minted[g], g)
        => \E k \in Conns : conn[k].at = "rechecking" /\ conn[k].gen = g

\* No peer outlives its connection in the room a pod fans out to: each peer
\* of a live room is a local connection that has not been removed yet, or
\* belongs to a control stream the owner still serves (join.rs:1107-1109,
\* "no leaked remote peers holding index slots in the owner's room"). The one
\* exception is a stream that a failed roster frame has cut off.
NoGhostPeers ==
    \A p \in Pods : live[p] # 0 =>
        \A k \in rooms[live[p]].peers :
            \/ /\ conn[k].home = p
               /\ conn[k].at \in {"attaching", "inserting", "spawning",
                                  "rechecking", "in", "leaving"}
            \/ ctl[k].owner = p /\ ctl[k].at \in {"serving", "cut"}

\* Once drain_all has run, the pod lets go of the huddle for good, whatever
\* joins were already past the draining check (join.rs:596-599, "so Redis
\* releases the fenced lease promptly").
DrainedPodLetsGo ==
    \A p \in Pods : <>[](stage[p] = "drained" => lease.owner # p)

\* Every admitted owner peer watches its lease (handler.rs:569-572, "a local
\* owner peer here always gets a real `lost` watcher").
OwnerPeerWatched ==
    \A k \in Conns : conn[k].at = "in" /\ ~Remote(k) => conn[k].watch # 0

============================================================================
