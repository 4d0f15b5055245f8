----------------------- MODULE HuddleOwnershipProofs -----------------------
(***************************************************************************)
(* Proofs about huddle ownership: the types, that the session directory    *)
(* with everything that uses it implements the abstract lease, which       *)
(* renewers can be reached and stopped, and whose peers a room holds.      *)
(***************************************************************************)
EXTENDS HuddleOwnership, TLAPS

\* What a connection and a stream are made of.
ConnType == [at : ConnPhases, home : Pods \cup {NoPod},
             owner : Pods \cup {NoPod}, gen : 0..counter,
             acquired : 0..counter, watch : 0..counter, room : 0..MaxRooms]

StreamType == [at : StreamPhases, owner : Pods \cup {NoPod},
               gen : 0..counter, watch : 0..counter, room : 0..MaxRooms]

\* Phases in which no generation is known yet.
Early == {"new", "resolving", "acquiring", "gone"}

\* A connection has a pod from its arrival on, and an owner and a generation once it
\* is resolved; a connection that acquired is its own owner, and only such a one attaches.
ConnInv(c) ==
    /\ c.at \notin {"new", "gone"} => c.home \in Pods
    /\ c.at \notin Early => c.gen # 0 /\ c.owner \in Pods
    /\ c.acquired # 0 => c.acquired = c.gen /\ c.owner = c.home
    /\ c.at \in Early \cup {"checking", "validating", "dialing", "awaiting"}
         => c.acquired = 0
    /\ c.at \in {"inserting", "spawning", "rechecking"} => c.acquired # 0

\* The lease that exists is the last one granted, and minted records its owner.
RedisOK ==
    /\ counter \in 0..MaxGen /\ fenced \in 0..counter
    /\ \/ lease = NoLease
       \/ /\ lease \in [owner : Pods, gen : Gens]
          /\ lease.gen = counter /\ minted[counter] = lease.owner

\* The tasks and tokens of every generation.
TokensOK ==
    /\ minted \in [Gens -> Pods \cup {NoPod}]
    /\ renewer \in [Gens -> {"none", "running", "releasing", "done"}]
    /\ lost \subseteq Gens /\ drained \subseteq Gens /\ cancelled \subseteq Gens

\* Registries know granted generations only.
RegistryOK ==
    /\ entry \in [Pods -> 0..counter]
    /\ stage \in [Pods -> {"serving", "flagged", "collected", "drained", "down"}]
    /\ target \in [Pods -> 0..counter]

\* Rooms and the channel row.
SpaceOK ==
    /\ live \in [Pods -> 0..MaxRooms]
    /\ rooms \in [Rooms -> [peers : SUBSET Conns, ended : BOOLEAN]]
    /\ archived \in BOOLEAN

\* Every connection, ...
ConnsOK ==
    /\ conn \in [Conns -> ConnType]
    /\ \A k \in Conns : ConnInv(conn[k])

\* ... every stream, which knows its owner while it is open, ...
StreamsOK ==
    /\ ctl \in [Conns -> StreamType]
    /\ \A k \in Conns : ctl[k].at \notin {"none", "closed"} => ctl[k].owner \in Pods

\* ... and the faults that are left.
FaultsOK == faults \in 0..MaxFaults

\* The type invariant, strengthened until it is inductive.
Base == RedisOK /\ TokensOK /\ RegistryOK /\ SpaceOK /\ ConnsOK /\ StreamsOK /\ FaultsOK

USE PodsAssumption, BoundsAssumption DEF Gens, Rooms

\* What a step leaves alone stays as it was.
LEMMA Frames ==
    /\ RedisOK /\ UNCHANGED <<lease, counter, fenced, minted>> => RedisOK'
    /\ TokensOK /\ UNCHANGED tokens => TokensOK'
    /\ RegistryOK /\ UNCHANGED <<counter, registry>> => RegistryOK'
    /\ SpaceOK /\ UNCHANGED space => SpaceOK'
    /\ ConnsOK /\ UNCHANGED <<counter, conn>> => ConnsOK'
    /\ StreamsOK /\ UNCHANGED <<counter, ctl>> => StreamsOK'
    /\ FaultsOK /\ UNCHANGED faults => FaultsOK'
    /\ FaultsOK /\ Fault => FaultsOK'
<1>1. RedisOK /\ UNCHANGED <<lease, counter, fenced, minted>> => RedisOK'
  BY DEF RedisOK, NoLease
<1>2. TokensOK /\ UNCHANGED tokens => TokensOK'
  BY DEF TokensOK, tokens
<1>3. RegistryOK /\ UNCHANGED <<counter, registry>> => RegistryOK'
  BY DEF RegistryOK, registry
<1>4. SpaceOK /\ UNCHANGED space => SpaceOK'
  BY DEF SpaceOK, space
<1>5. ConnsOK /\ UNCHANGED <<counter, conn>> => ConnsOK'
  BY DEF ConnsOK, ConnType, ConnInv
<1>6. StreamsOK /\ UNCHANGED <<counter, ctl>> => StreamsOK'
  BY DEF StreamsOK, StreamType
<1>7. FaultsOK /\ UNCHANGED faults => FaultsOK'
  BY DEF FaultsOK
<1>8. FaultsOK /\ Fault => FaultsOK'
  BY DEF FaultsOK, Fault
<1> QED
  BY <1>1, <1>2, <1>3, <1>4, <1>5, <1>6, <1>7, <1>8

\* A finished connection is well formed.
LEMMA OverOK ==
  ASSUME RedisOK PROVE Over \in ConnType /\ ConnInv(Over)
  BY DEF RedisOK, Over, NewConn, ConnType, ConnInv, ConnPhases, Early

\* Ending a connection preserves ConnsOK.
LEMMA EndOK ==
  ASSUME RedisOK, ConnsOK, NEW k \in Conns, End(k), counter' = counter
  PROVE  ConnsOK'
<1>1. conn' \in [Conns -> ConnType']
  BY OverOK DEF End, ConnsOK, ConnType
<1>2. \A l \in Conns : ConnInv(conn'[l])
  BY OverOK DEF End, ConnsOK
<1> QED
  BY <1>1, <1>2 DEF ConnsOK, ConnInv

\* So does a move to another phase that fits what the connection knows.
LEMMA GotoOK ==
  ASSUME ConnsOK, NEW k \in Conns, NEW at \in ConnPhases, Goto(k, at),
         conn[k].at \notin {"new", "gone"},
         at \notin Early => conn[k].gen # 0 /\ conn[k].owner \in Pods,
         at \in Early \cup {"checking", "validating", "dialing", "awaiting"} => conn[k].acquired = 0,
         at \in {"inserting", "spawning", "rechecking"} => conn[k].acquired # 0,
         counter' = counter
  PROVE  ConnsOK'
<1>1. conn' \in [Conns -> ConnType']
  BY DEF Goto, ConnsOK, ConnType
<1>2. \A l \in Conns : ConnInv(conn'[l])
  BY DEF Goto, ConnsOK, ConnInv, ConnType
<1> QED
  BY <1>1, <1>2 DEF ConnsOK, ConnInv

\* Routing to the present owner preserves it.
LEMMA RouteOK ==
  ASSUME RedisOK, ConnsOK, NEW k \in Conns, Route(k), lease # NoLease,
         conn[k].at \in {"resolving", "acquiring"}, counter' = counter
  PROVE  ConnsOK'
<1>1. lease.gen \in 0..counter /\ lease.gen # 0 /\ lease.owner \in Pods
  BY DEF RedisOK
<1>2. conn' \in [Conns -> ConnType']
  BY <1>1 DEF Route, ConnsOK, ConnType, ConnPhases
<1>3. \A l \in Conns : ConnInv(conn'[l])
  BY <1>1 DEF Route, ConnsOK, ConnInv, ConnType, ConnPhases, Early
<1> QED
  BY <1>2, <1>3 DEF ConnsOK, ConnInv

\* Watching a granted generation keeps the type ...
LEMMA WatchingTyped ==
  ASSUME conn \in [Conns -> ConnType], NEW k \in Conns, NEW at \in ConnPhases,
         NEW g \in 0..counter, Watching(k, g, at), counter' = counter
  PROVE  conn' \in [Conns -> ConnType']
<1>1. ConnType' = ConnType
  BY DEF ConnType
<1>2. conn[k] \in ConnType
  OBVIOUS
<1>3. [conn[k] EXCEPT !.watch = g, !.at = at] \in ConnType
  BY <1>2 DEF ConnType
<1>4. conn' = [conn EXCEPT ![k] = [conn[k] EXCEPT !.watch = g, !.at = at]]
  BY <1>2 DEF Watching, ConnType
<1> QED
  BY <1>1, <1>3, <1>4

\* ... and the rest of ConnsOK.
LEMMA WatchingOK ==
  ASSUME ConnsOK, NEW k \in Conns, NEW g \in 0..counter, NEW at \in {"in", "rechecking"}, Watching(k, g, at),
         conn[k].at \notin Early,
         at = "rechecking" => conn[k].acquired # 0,
         counter' = counter
  PROVE  ConnsOK'
<1>0. at \in ConnPhases
  BY DEF ConnPhases
<1>1. conn' \in [Conns -> ConnType']
  BY <1>0, WatchingTyped DEF ConnsOK
<1>2. \A l \in Conns : ConnInv(conn'[l])
  BY DEF Watching, ConnsOK, ConnInv, ConnType, ConnPhases, Early
<1> QED
  BY <1>1, <1>2 DEF ConnsOK, ConnInv

\* A step that changes only connections and faults preserves Base if it preserves these.
LEMMA ConnOnly ==
  ASSUME Base, ConnsOK', UNCHANGED <<redis, tokens, registry, space, ctl>>,
         FaultsOK'
  PROVE  Base'
  BY Frames DEF Base, redis, tokens

\* An arrival preserves Base.
LEMMA BaseArrive == ASSUME Base, NEW k \in Conns, NEW p \in Pods, Arrive(k, p) PROVE Base'
<1>1. conn[k] \in ConnType /\ ConnInv(conn[k])
  BY DEF Base, ConnsOK
<1>2. CASE Draining(p)
  BY <1>2, ConnOnly, EndOK, Frames DEF Arrive, Base, redis
<1>3. CASE ~Draining(p)
  <2>1. conn' = [conn EXCEPT ![k].home = p, ![k].at = "resolving"] /\ conn[k].at = "new"
    BY <1>3 DEF Arrive
  <2>2. counter' = counter
    BY DEF Arrive, redis
  <2>3. conn' \in [Conns -> ConnType']
    BY <2>1, <2>2 DEF Base, ConnsOK, ConnType, ConnPhases
  <2>4. \A l \in Conns : ConnInv(conn'[l])
    BY <1>1, <2>1 DEF Base, ConnsOK, ConnType, ConnInv, Early
  <2> QED
    BY <2>3, <2>4, ConnOnly, Frames DEF ConnsOK, ConnInv, Base, Arrive
<1> QED
  BY <1>2, <1>3

\* So does the lookup of the lease, ...
LEMMA BaseLookup == ASSUME Base, NEW k \in Conns, Lookup(k) PROVE Base'
<1>1. ConnInv(conn[k]) /\ conn[k].at = "resolving"
  BY DEF Base, ConnsOK, Lookup
<1>2. ConnsOK'
  <2>1. CASE lease = NoLease
    <3>1. Goto(k, "acquiring") /\ counter' = counter
      BY <2>1 DEF Lookup, redis
    <3> QED
      BY <1>1, <3>1, GotoOK DEF Base, ConnInv, Early, ConnPhases
  <2>2. CASE lease # NoLease
    BY <1>1, <2>2, RouteOK DEF Base, Lookup, redis
  <2> QED
    BY <2>1, <2>2
<1> QED
  BY <1>2, ConnOnly, Frames DEF Lookup, Base

\* A grant keeps every range, since the counter only grows.
LEMMA MintOK ==
  ASSUME Base, NEW p \in Pods, Mint(p), UNCHANGED <<registry, ctl>>
  PROVE  /\ RedisOK' /\ TokensOK' /\ RegistryOK' /\ StreamsOK'
         /\ counter \in Nat /\ counter' = counter + 1 /\ counter' \in Gens
<1>1. counter \in Nat /\ counter' = counter + 1 /\ counter' \in Gens
  BY DEF Base, RedisOK, Mint
<1>2. lease' = [owner |-> p, gen |-> counter'] /\ minted' = [minted EXCEPT ![counter'] = p]
  BY DEF Mint
<1>3. TokensOK'
  BY <1>1, <1>2 DEF Base, TokensOK, Mint
<1>4. RedisOK'
  <2>1. minted'[counter'] = p
    BY <1>1, <1>2 DEF Base, TokensOK
  <2>2. fenced' = fenced /\ fenced \in 0..counter
    BY DEF Mint, Base, RedisOK
  <2> QED
    BY <1>1, <1>2, <2>1, <2>2 DEF RedisOK
<1>5. RegistryOK'
  BY <1>1 DEF Base, RegistryOK, registry
<1>6. StreamsOK'
  BY <1>1 DEF Base, StreamsOK, StreamType
<1> QED
  BY <1>1, <1>3, <1>4, <1>5, <1>6

\* An acquire preserves Base, ...
LEMMA BaseAcquire == ASSUME Base, NEW k \in Conns, Acquire(k) PROVE Base'
<1>1. ConnInv(conn[k]) /\ conn[k] \in ConnType /\ conn[k].at = "acquiring"
  BY DEF Base, ConnsOK, Acquire
<1>2. conn[k].home \in Pods /\ conn[k].acquired = 0
  BY <1>1 DEF ConnInv, Early
<1>3. CASE Mint(conn[k].home)
        /\ conn' = [conn EXCEPT ![k].owner = conn[k].home, ![k].gen = counter',
                                ![k].acquired = counter', ![k].at = "entering"]
  <2>1. RedisOK' /\ TokensOK' /\ RegistryOK' /\ StreamsOK'
        /\ counter \in Nat /\ counter' = counter + 1 /\ counter' \in Gens
    BY <1>2, <1>3, MintOK DEF Acquire
  <2>2. conn' \in [Conns -> ConnType']
    BY <1>2, <1>3, <2>1 DEF Base, ConnsOK, ConnType, ConnPhases
  <2>3. \A l \in Conns : ConnInv(conn'[l])
    BY <1>2, <1>3, <2>1 DEF Base, ConnsOK, ConnType, ConnInv, Early
  <2> QED
    BY <2>1, <2>2, <2>3, Frames DEF ConnsOK, ConnInv, Base, Acquire
<1>4. CASE lease # NoLease /\ Route(k) /\ UNCHANGED <<redis, tokens>>
  <2>1. ConnsOK'
    BY <1>1, <1>4, RouteOK DEF Base, redis
  <2> QED
    BY <1>4, <2>1, ConnOnly, Frames DEF Base, Acquire
<1> QED
  BY <1>3, <1>4 DEF Acquire

\* ... also when its answer is lost.
LEMMA BaseAcquireUnanswered ==
  ASSUME Base, NEW k \in Conns, AcquireUnanswered(k)
  PROVE Base'
<1>1. ConnInv(conn[k]) /\ conn[k] \in ConnType /\ conn[k].at = "acquiring"
  BY DEF Base, ConnsOK, AcquireUnanswered
<1>2. conn[k].home \in Pods
  BY <1>1 DEF ConnInv, Early
<1>3. RedisOK' /\ TokensOK' /\ RegistryOK' /\ StreamsOK'
        /\ counter \in Nat /\ counter' = counter + 1 /\ counter' \in Gens
  BY <1>2, MintOK DEF AcquireUnanswered
<1>4. ConnsOK'
  <2>1. Over \in ConnType /\ ConnInv(Over) /\ conn' = [conn EXCEPT ![k] = Over]
    BY OverOK DEF Base, AcquireUnanswered, End
  <2>2. conn' \in [Conns -> ConnType]
    BY <2>1 DEF Base, ConnsOK
  <2>3. conn' \in [Conns -> ConnType']
    BY <2>2, <1>3 DEF ConnType
  <2>4. \A l \in Conns : ConnInv(conn'[l])
    BY <2>1 DEF Base, ConnsOK
  <2> QED
    BY <2>3, <2>4 DEF ConnsOK, ConnInv
<1> QED
  BY <1>3, <1>4, Frames DEF Base, AcquireUnanswered

\* The look into the registry preserves it, ...
LEMMA BaseCheckOwner == ASSUME Base, NEW k \in Conns, CheckOwner(k) PROVE Base'
<1>1. ConnInv(conn[k]) /\ conn[k].at = "checking" /\ counter' = counter
  BY DEF Base, ConnsOK, CheckOwner, redis
<1>2. Goto(k, "entering") \/ Goto(k, "resolving") \/ End(k)
  BY DEF CheckOwner
<1>3. ConnsOK'
  BY <1>1, <1>2, GotoOK, EndOK DEF Base, ConnInv, Early, ConnPhases
<1> QED
  BY <1>3, ConnOnly, Frames DEF CheckOwner, Base

\* ... the fence on the origin's side, ...
LEMMA BaseValidate == ASSUME Base, NEW k \in Conns, Validate(k) PROVE Base'
<1>1. ConnInv(conn[k]) /\ conn[k].at = "validating" /\ counter' = counter /\ conn[k].gen \in 0..counter
  BY DEF Base, ConnsOK, ConnType, Validate
<1>2. Goto(k, "entering") \/ End(k)
  BY DEF Validate
<1>3. ConnsOK'
  BY <1>1, <1>2, GotoOK, EndOK DEF Base, ConnInv, Early, ConnPhases
<1>4. RedisOK'
  <2>1. fenced' \in 0..counter
    BY <1>1 DEF Validate, Base, RedisOK
  <2> QED
    BY <2>1 DEF Validate, Base, RedisOK, tokens, NoLease
<1> QED
  BY <1>3, <1>4, Frames DEF Validate, Base

\* ... and a failed directory call.
LEMMA BaseRedisFails == ASSUME Base, NEW k \in Conns, RedisFails(k) PROVE Base'
  BY EndOK, ConnOnly, Frames DEF RedisFails, Base, redis

\* get_or_create keeps rooms well formed, ...
LEMMA GetOrCreateOK ==
  ASSUME SpaceOK, NEW p \in Pods, NEW r \in Rooms, GetOrCreate(p, r), UNCHANGED archived
  PROVE  SpaceOK'
<1>1. CASE live[p] # 0
  BY <1>1, Frames DEF GetOrCreate, space
<1>2. CASE live[p] = 0
  <2>1. EmptyRoom \in [peers : SUBSET Conns, ended : BOOLEAN]
    BY DEF EmptyRoom
  <2>2. live' = [live EXCEPT ![p] = r] /\ rooms' = [rooms EXCEPT ![r] = EmptyRoom]
    BY <1>2 DEF GetOrCreate
  <2>3. live' \in [Pods -> 0..MaxRooms]
    BY <2>2 DEF SpaceOK
  <2>4. rooms' \in [Rooms -> [peers : SUBSET Conns, ended : BOOLEAN]]
    BY <2>1, <2>2 DEF SpaceOK
  <2> QED
    BY <2>3, <2>4 DEF SpaceOK
<1> QED
  BY <1>1, <1>2

\* ... so does cleanup_if_empty, ...
LEMMA CleanupOK ==
  ASSUME SpaceOK, NEW p \in Pods, CleanupIfEmpty(p), UNCHANGED <<rooms, archived>>
  PROVE  SpaceOK'
<1>1. live' \in [Pods -> 0..MaxRooms]
  BY DEF SpaceOK, CleanupIfEmpty
<1> QED
  BY <1>1 DEF SpaceOK

\* ... adding a peer, ...
LEMMA AddPeerOK ==
  ASSUME SpaceOK, NEW k \in Conns, NEW r, AddPeer(k, r), UNCHANGED <<live, archived>>
  PROVE  SpaceOK'
<1>1. rooms' \in [Rooms -> [peers : SUBSET Conns, ended : BOOLEAN]]
  BY DEF SpaceOK, AddPeer
<1> QED
  BY <1>1 DEF SpaceOK

\* ... and removing one.
LEMMA RemoveFromLiveOK ==
  ASSUME SpaceOK, NEW k \in Conns, NEW p, RemoveFromLive(p, k), UNCHANGED <<live, archived>>
  PROVE  SpaceOK'
<1>1. rooms' \in [Rooms -> [peers : SUBSET Conns, ended : BOOLEAN]]
  BY DEF SpaceOK, RemoveFromLive
<1> QED
  BY <1>1 DEF SpaceOK

\* Entering a room preserves Base, ...
LEMMA BaseEnterRoom == ASSUME Base, NEW k \in Conns, EnterRoom(k) PROVE Base'
<1>1. ConnInv(conn[k]) /\ conn[k].at = "entering" /\ counter' = counter /\ conn[k].home \in Pods
  BY DEF Base, ConnsOK, EnterRoom, redis, ConnInv
<1>2. PICK r \in Rooms : GetOrCreate(conn[k].home, r)
                         /\ conn' = [conn EXCEPT ![k].room = r, ![k].at = "entered"]
  BY DEF EnterRoom
<1>3. ConnsOK'
  <2>1. conn' \in [Conns -> ConnType']
    BY <1>1, <1>2 DEF Base, ConnsOK, ConnType, ConnPhases
  <2>2. \A l \in Conns : ConnInv(conn'[l])
    BY <1>1, <1>2 DEF Base, ConnsOK, ConnType, ConnInv, Early
  <2> QED
    BY <2>1, <2>2 DEF ConnsOK, ConnInv
<1>4. SpaceOK'
  BY <1>1, <1>2, GetOrCreateOK DEF Base, EnterRoom
<1> QED
  BY <1>3, <1>4, Frames DEF EnterRoom, Base, redis, tokens

\* ... the archived check, ...
LEMMA BaseArchivedCheck == ASSUME Base, NEW k \in Conns, ArchivedCheck(k) PROVE Base'
<1>1. ConnInv(conn[k]) /\ conn[k].at = "entered" /\ counter' = counter /\ conn[k].home \in Pods
  BY DEF Base, ConnsOK, ArchivedCheck, redis, ConnInv
<1>2. CASE archived
  <2>1. ConnsOK' /\ SpaceOK'
    BY <1>1, <1>2, EndOK, CleanupOK DEF Base, ArchivedCheck
  <2> QED
    BY <2>1, Frames DEF ArchivedCheck, Base, redis, tokens
<1>3. CASE ~archived
  <2>1. Goto(k, IF Remote(k) THEN "dialing" ELSE "admitting") /\ UNCHANGED live
    BY <1>3 DEF ArchivedCheck
  <2>2. Remote(k) => conn[k].acquired = 0
    BY <1>1 DEF ConnInv, Remote
  <2>3. ConnsOK'
    BY <1>1, <2>1, <2>2, GotoOK DEF Base, ConnInv, Early, ConnPhases
  <2> QED
    BY <2>1, <2>3, Frames DEF ArchivedCheck, Base, redis, tokens, space
<1> QED
  BY <1>2, <1>3

\* ... a failing one, ...
LEMMA BaseArchivedCheckFails ==
  ASSUME Base, NEW k \in Conns, ArchivedCheckFails(k)
  PROVE Base'
<1>1. ConnInv(conn[k]) /\ conn[k].at = "entered" /\ counter' = counter /\ conn[k].home \in Pods
  BY DEF Base, ConnsOK, ArchivedCheckFails, redis, ConnInv
<1>2. ConnsOK' /\ SpaceOK'
  BY <1>1, EndOK, CleanupOK DEF Base, ArchivedCheckFails
<1> QED
  BY <1>2, Frames DEF ArchivedCheckFails, Base, redis, tokens

\* ... a refusal, ...
LEMMA BaseRefused == ASSUME Base, NEW k \in Conns, Refused(k) PROVE Base'
  BY EndOK, ConnOnly, Frames DEF Refused, Base, redis

\* ... and the admission.
LEMMA BaseAdmit == ASSUME Base, NEW k \in Conns, Admit(k) PROVE Base'
<1>1. ConnInv(conn[k]) /\ conn[k].at = "admitting" /\ counter' = counter
  BY DEF Base, ConnsOK, Admit, redis
<1>2. CASE rooms[conn[k].room].ended
  <2>1. End(k) /\ UNCHANGED rooms
    BY <1>2 DEF Admit
  <2> QED
    BY <1>1, <2>1, EndOK, Frames DEF Admit, Base, redis, tokens, space
<1>3. CASE ~rooms[conn[k].room].ended
  <2>1. AddPeer(k, conn[k].room) /\ Goto(k, IF Remote(k) THEN "in" ELSE "attaching")
    BY <1>3 DEF Admit
  <2>2. ConnsOK'
    BY <1>1, <2>1, GotoOK DEF Base, ConnInv, Early, ConnPhases
  <2>3. SpaceOK'
    BY <2>1, AddPeerOK DEF Base, Admit
  <2> QED
    BY <2>2, <2>3, Frames DEF Admit, Base, redis, tokens
<1> QED
  BY <1>2, <1>3

\* A resolved connection knows a granted generation and its pod.
LEMMA GenInRange ==
  ASSUME Base, NEW k \in Conns, conn[k].at \notin Early
  PROVE  conn[k].gen \in Gens /\ conn[k].gen \in 0..counter /\ conn[k].home \in Pods
<1>1. conn[k] \in ConnType /\ ConnInv(conn[k]) /\ counter \in 0..MaxGen
  BY DEF Base, ConnsOK, RedisOK
<1>2. conn[k].gen \in 0..counter /\ conn[k].gen # 0
  BY <1>1 DEF ConnType, ConnInv
<1>3. conn[k].home \in Pods
  BY <1>1 DEF ConnInv, Early
<1> QED
  BY <1>1, <1>2, <1>3

\* A renewer moves among its four states.
LEMMA TokensAre ==
  ASSUME TokensOK, NEW g, NEW st \in {"none", "running", "releasing", "done"}
  PROVE  [renewer EXCEPT ![g] = st] \in [Gens -> {"none", "running", "releasing", "done"}]
  BY DEF TokensOK

\* attach_signals on a draining pod preserves Base, ...
LEMMA BaseAttachDraining == ASSUME Base, NEW k \in Conns, AttachDraining(k) PROVE Base'
<1>1. conn[k].at = "attaching" /\ counter' = counter /\ conn[k].at \notin Early
  BY DEF AttachDraining, redis, Early
<1>2. conn[k].gen \in Gens /\ conn[k].gen \in 0..counter
  BY <1>1, GenInRange
<1>3. ConnsOK'
  BY <1>1, <1>2, WatchingOK DEF Base, AttachDraining
<1>4. TokensOK'
  BY <1>2, TokensAre DEF Base, TokensOK, AttachDraining, Throwaway
<1> QED
  BY <1>3, <1>4, Frames DEF Base, AttachDraining, redis

\* ... past the first check, ...
LEMMA BasePassDrainCheck == ASSUME Base, NEW k \in Conns, PassDrainCheck(k) PROVE Base'
<1>1. ConnInv(conn[k]) /\ conn[k].at = "attaching" /\ conn[k].acquired # 0 /\ counter' = counter
  BY DEF Base, ConnsOK, PassDrainCheck, redis
<1>2. ConnsOK'
  BY <1>1, GotoOK DEF Base, ConnInv, Early, ConnPhases, PassDrainCheck
<1> QED
  BY <1>2, ConnOnly, Frames DEF PassDrainCheck, Base

\* A registry entry is a granted generation or absent.
LEMMA EntryInRange ==
  ASSUME Base, NEW p \in Pods PROVE entry[p] \in 0..counter
  BY DEF Base, RegistryOK

\* ... onto an entry that is there, ...
LEMMA BaseAttachExisting == ASSUME Base, NEW k \in Conns, AttachExisting(k) PROVE Base'
<1>1. conn[k].at = "inserting" /\ counter' = counter /\ conn[k].at \notin Early
  BY DEF AttachExisting, redis, Early
<1>2. conn[k].gen \in Gens /\ conn[k].home \in Pods
  BY <1>1, GenInRange
<1>3. ConnsOK'
  BY <1>1, <1>2, WatchingOK, EntryInRange DEF Base, AttachExisting
<1>4. TokensOK'
  BY <1>2, TokensAre DEF Base, TokensOK, AttachExisting, Throwaway
<1> QED
  BY <1>3, <1>4, Frames DEF Base, AttachExisting, redis

\* ... past the look-up, ...
LEMMA BasePassEntryCheck == ASSUME Base, NEW k \in Conns, PassEntryCheck(k) PROVE Base'
<1>1. ConnInv(conn[k]) /\ conn[k].at = "inserting" /\ counter' = counter
  BY DEF Base, ConnsOK, PassEntryCheck, redis
<1>2. ConnsOK'
  BY <1>1, GotoOK DEF Base, ConnInv, Early, ConnPhases, PassEntryCheck
<1> QED
  BY <1>2, ConnOnly, Frames DEF PassEntryCheck, Base

\* ... with the insert, ...
LEMMA BaseInsertEntry == ASSUME Base, NEW k \in Conns, InsertEntry(k) PROVE Base'
<1>1. conn[k].at = "spawning" /\ counter' = counter /\ conn[k].at \notin Early
  BY DEF InsertEntry, redis, Early
<1>2. conn[k].gen \in Gens /\ conn[k].gen \in 0..counter /\ conn[k].home \in Pods
  BY <1>1, GenInRange
<1>3. conn[k].acquired # 0
  BY <1>1 DEF Base, ConnsOK, ConnInv
<1>4. ConnsOK'
  BY <1>1, <1>2, <1>3, WatchingOK DEF Base, InsertEntry
<1>5. TokensOK'
  BY TokensAre DEF Base, TokensOK, InsertEntry
<1>6. RegistryOK'
  BY <1>1, <1>2 DEF Base, RegistryOK, InsertEntry
<1> QED
  BY <1>4, <1>5, <1>6, Frames DEF Base, InsertEntry, redis

\* ... with the second check, ...
LEMMA BaseRecheck == ASSUME Base, NEW k \in Conns, Recheck(k) PROVE Base'
<1>1. ConnInv(conn[k]) /\ conn[k].at = "rechecking" /\ counter' = counter /\ conn[k].at \notin Early
  BY DEF Base, ConnsOK, Recheck, redis, Early
<1>2. conn[k].gen \in Gens /\ counter \in Nat
  BY <1>1, GenInRange DEF Base, RedisOK
<1>3. ConnsOK'
  BY <1>1, GotoOK DEF Base, ConnInv, Early, ConnPhases, Recheck
<1>4. TokensOK'
  BY <1>2 DEF Base, TokensOK, Recheck
<1>5. RegistryOK'
  BY <1>1, <1>2 DEF Base, RegistryOK, Recheck
<1> QED
  BY <1>3, <1>4, <1>5, Frames DEF Base, Recheck, redis

\* ... and for a later joiner.
LEMMA BaseReuse == ASSUME Base, NEW k \in Conns, Reuse(k) PROVE Base'
<1>1. conn[k].at = "attaching" /\ counter' = counter /\ conn[k].at \notin Early
  BY DEF Reuse, redis, Early
<1>2. conn[k].home \in Pods
  BY <1>1, GenInRange
<1>3. ConnsOK'
  BY <1>1, <1>2, WatchingOK, EntryInRange DEF Base, Reuse
<1> QED
  BY <1>3, ConnOnly, Frames DEF Base, Reuse

\* The renewer's steps preserve Base, ...
LEMMA BaseRenewal ==
  ASSUME Base, NEW g \in Gens,
         RenewLost(g) \/ RenewFails(g) \/ RenewerCancelled(g) \/ ReleaseFails(g)
  PROVE  Base'
<1>1. TokensOK' /\ UNCHANGED minted
  BY TokensAre DEF Base, TokensOK, RenewLost, RenewFails, RenewerCancelled, ReleaseFails
<1>2. FaultsOK'
  BY Frames DEF Base, RenewLost, RenewFails, RenewerCancelled, ReleaseFails
<1> QED
  BY <1>1, <1>2, Frames DEF Base, RenewLost, RenewFails, RenewerCancelled, ReleaseFails, redis

\* ... its release, ...
LEMMA BaseReleaseLease == ASSUME Base, NEW g \in Gens, ReleaseLease(g) PROVE Base'
<1>1. TokensOK'
  BY TokensAre DEF Base, TokensOK, ReleaseLease
<1>2. RedisOK'
  BY DEF Base, RedisOK, ReleaseLease, NoLease
<1> QED
  BY <1>1, <1>2, Frames DEF Base, ReleaseLease

\* ... the end of the TTL, ...
LEMMA BaseLeaseExpires == ASSUME Base, LeaseExpires PROVE Base'
<1>1. RedisOK'
  BY DEF Base, RedisOK, LeaseExpires, NoLease
<1>2. FaultsOK'
  BY Frames DEF Base, LeaseExpires
<1> QED
  BY <1>1, <1>2, Frames DEF Base, LeaseExpires

\* ... the first steps of a shutdown, ...
LEMMA BaseDrain ==
  ASSUME Base, NEW p \in Pods, DrainFlag(p) \/ DrainCollect(p)
  PROVE  Base'
<1>1. RegistryOK'
  BY DEF Base, RegistryOK, DrainFlag, DrainCollect, redis
<1> QED
  BY <1>1, Frames DEF Base, DrainFlag, DrainCollect, redis, tokens

\* ... the drain of an entry, ...
LEMMA BaseDrainEntry == ASSUME Base, NEW p \in Pods, DrainEntry(p) PROVE Base'
<1>1. target[p] \in 0..counter /\ counter \in 0..MaxGen /\ counter' = counter
  BY DEF Base, RegistryOK, RedisOK, DrainEntry, redis
<1>2. RegistryOK'
  BY <1>1 DEF Base, RegistryOK, DrainEntry
<1>3. TokensOK'
  <2>1. target[p] # 0 => target[p] \in Gens
    BY <1>1
  <2>2. drained' \subseteq Gens /\ cancelled' \subseteq Gens
    BY <2>1 DEF Base, TokensOK, DrainEntry
  <2> QED
    BY <2>2 DEF Base, TokensOK, DrainEntry
<1> QED
  BY <1>2, <1>3, Frames DEF Base, DrainEntry, redis

\* ... and a crash.
LEMMA BaseCrash == ASSUME Base, NEW p \in Pods, Crash(p) PROVE Base'
<1>1. counter \in 0..MaxGen /\ counter' = counter /\ RedisOK
  BY DEF Base, RedisOK, Crash, redis
<1>2. RegistryOK'
  BY <1>1 DEF Base, RegistryOK, Crash
<1>3. TokensOK'
  BY DEF Base, TokensOK, Crash
<1>4. ConnsOK'
  <2>1. conn' = [k \in Conns |-> IF conn[k].home = p THEN Over ELSE conn[k]]
    BY DEF Crash
  <2>2. conn' \in [Conns -> ConnType']
    BY <1>1, <2>1, OverOK DEF Base, ConnsOK, ConnType
  <2>3. \A l \in Conns : ConnInv(conn'[l])
    BY <1>1, <2>1, OverOK DEF Base, ConnsOK
  <2> QED
    BY <2>2, <2>3 DEF ConnsOK, ConnInv
<1>5. StreamsOK'
  <2>1. Closed \in StreamType /\ Closed.at = "closed"
    BY <1>1 DEF Closed, NoStream, StreamType, StreamPhases
  <2>2. ctl' = [k \in Conns |-> IF ctl[k].owner = p THEN Closed ELSE ctl[k]]
    BY DEF Crash
  <2>3. ctl' \in [Conns -> StreamType']
    BY <1>1, <2>1, <2>2 DEF Base, StreamsOK, StreamType
  <2> QED
    BY <2>1, <2>2, <2>3 DEF Base, StreamsOK
<1>6. SpaceOK'
  <2>1. live' \in [Pods -> 0..MaxRooms]
    BY DEF Base, SpaceOK, Crash
  <2> QED
    BY <2>1 DEF Base, SpaceOK, Crash
<1> QED
  BY <1>2, <1>3, <1>4, <1>5, <1>6, Frames DEF Base, Crash, redis

\* Facts about one connection.
LEMMA ConnIs ==
  ASSUME Base, NEW k \in Conns
  PROVE  conn[k] \in ConnType /\ ConnInv(conn[k]) /\ counter \in 0..MaxGen
  BY DEF Base, ConnsOK, RedisOK

\* A stream replaced by a well-formed one preserves StreamsOK.
LEMMA StreamChange ==
  ASSUME Base, NEW k \in Conns, NEW s \in StreamType,
         s.at \notin {"none", "closed"} => s.owner \in Pods,
         ctl' = [ctl EXCEPT ![k] = s], counter' = counter
  PROVE  StreamsOK'
<1>1. ctl' \in [Conns -> StreamType']
  BY DEF Base, StreamsOK, StreamType
<1>2. \A l \in Conns : ctl'[l].at \notin {"none", "closed"} => ctl'[l].owner \in Pods
  BY DEF Base, StreamsOK
<1> QED
  BY <1>1, <1>2 DEF StreamsOK

\* A stream that obtains a room keeps its type.
LEMMA RoomedTyped ==
  ASSUME ctl \in [Conns -> StreamType], NEW k \in Conns, NEW at \in StreamPhases,
         NEW r \in 0..MaxRooms, ctl' = [ctl EXCEPT ![k].at = at, ![k].room = r],
         counter' = counter
  PROVE  ctl' \in [Conns -> StreamType']
<1>1. StreamType' = StreamType
  BY DEF StreamType
<1>2. ctl[k] \in StreamType
  OBVIOUS
<1>3. [ctl[k] EXCEPT !.at = at, !.room = r] \in StreamType
  BY <1>2 DEF StreamType
<1>4. ctl' = [ctl EXCEPT ![k] = [ctl[k] EXCEPT !.at = at, !.room = r]]
  BY <1>2 DEF StreamType
<1> QED
  BY <1>1, <1>3, <1>4

\* A closed stream is well formed.
LEMMA ClosedOK ==
  ASSUME Base PROVE Closed \in StreamType /\ Closed.at = "closed"
  BY DEF Base, RedisOK, Closed, NoStream, StreamType, StreamPhases

\* Dialling the owner preserves Base, ...
LEMMA BaseDial == ASSUME Base, NEW k \in Conns, Dial(k) PROVE Base'
<1>1. conn[k] \in ConnType /\ ConnInv(conn[k]) /\ conn[k].at = "dialing" /\ counter' = counter
  BY ConnIs DEF Dial, redis
<1>2. conn[k].gen \in 0..counter /\ conn[k].owner \in Pods /\ conn[k].acquired = 0 /\ conn[k].gen # 0
  BY <1>1 DEF ConnType, ConnInv, Early
<1>3. ConnsOK'
  BY <1>1, <1>2, GotoOK DEF Dial, Base, ConnPhases, Early
<1>4. StreamsOK'
  <2> DEFINE s == [at |-> "hello", owner |-> conn[k].owner,
                   gen |-> conn[k].gen, watch |-> 0, room |-> 0]
  <2>a. 0 \in 0..counter /\ 0 \in 0..MaxRooms
    BY ConnIs
  <2>1. s \in StreamType /\ s.owner \in Pods
    BY <1>2, <2>a DEF StreamType, StreamPhases
  <2>2. ctl' = [ctl EXCEPT ![k] = s]
    BY DEF Dial
  <2> HIDE DEF s
  <2> QED
    BY <1>1, <2>1, <2>2, StreamChange
<1> QED
  BY <1>3, <1>4, Frames DEF Base, Dial, redis, tokens

\* ... its failure, ...
LEMMA BaseDialEnds == ASSUME Base, NEW k \in Conns, DialEnds(k) PROVE Base'
<1>1. ConnInv(conn[k]) /\ conn[k].at \in {"dialing", "awaiting"} /\ counter' = counter
  BY ConnIs DEF DialEnds, redis
<1>2. conn[k].home \in Pods
  BY <1>1 DEF ConnInv
<1>3. ConnsOK' /\ SpaceOK' /\ FaultsOK'
  BY <1>1, <1>2, EndOK, CleanupOK, Frames DEF Base, DialEnds
<1> QED
  BY <1>3, Frames DEF Base, DialEnds, redis, tokens

\* ... its success, ...
LEMMA BaseDialSucceeds == ASSUME Base, NEW k \in Conns, DialSucceeds(k) PROVE Base'
<1>1. ConnInv(conn[k]) /\ conn[k].at = "awaiting" /\ counter' = counter
  BY ConnIs DEF DialSucceeds, redis
<1>2. ConnsOK'
  BY <1>1, GotoOK DEF Base, ConnInv, Early, ConnPhases, DialSucceeds
<1> QED
  BY <1>2, ConnOnly, Frames DEF DialSucceeds, Base

\* ... the owner's accept, ...
LEMMA BaseAccept == ASSUME Base, NEW k \in Conns, Accept(k) PROVE Base'
<1>1. ctl[k] \in StreamType /\ ctl[k].at = "hello" /\ ctl[k].owner \in Pods /\ counter' = counter
  BY DEF Base, StreamsOK, Accept, redis
<1>2. entry[ctl[k].owner] \in 0..counter
  BY <1>1, EntryInRange
<1>3. ctl' \in [Conns -> StreamType']
  BY <1>1, <1>2 DEF Base, StreamsOK, StreamType, StreamPhases, Accept
<1>4. \A l \in Conns : ctl'[l].at \notin {"none", "closed"} => ctl'[l].owner \in Pods
  BY <1>1 DEF Base, StreamsOK, StreamType, Accept
<1> QED
  BY <1>3, <1>4, Frames DEF Base, StreamsOK, Accept, redis, tokens

\* ... the registration, ...
LEMMA BaseRegister == ASSUME Base, NEW k \in Conns, Register(k) PROVE Base'
<1>1. ctl[k] \in StreamType /\ ctl[k].at = "open" /\ ctl[k].owner \in Pods /\ counter' = counter
  BY DEF Base, StreamsOK, Register, redis
<1>2. CASE Draining(ctl[k].owner)
  <2>1. ctl' = [ctl EXCEPT ![k] = Closed] /\ UNCHANGED <<live, rooms, archived>>
    BY <1>2 DEF Register
  <2>2. StreamsOK'
    BY <1>1, <2>1, StreamChange, ClosedOK
  <2> QED
    BY <2>1, <2>2, Frames DEF Base, Register, redis, tokens, space
<1>3. CASE ~Draining(ctl[k].owner)
  <2>1. PICK r \in Rooms : GetOrCreate(ctl[k].owner, r)
                           /\ ctl' = [ctl EXCEPT ![k].at = "fencing", ![k].room = r]
    BY <1>3 DEF Register
  <2>2. SpaceOK'
    BY <1>1, <2>1, GetOrCreateOK DEF Base, Register
  <2>3. ctl' \in [Conns -> StreamType']
    <3>1. r \in 0..MaxRooms /\ "fencing" \in StreamPhases
      BY DEF StreamPhases
    <3> QED
      BY <1>1, <2>1, <3>1, RoomedTyped DEF Base, StreamsOK
  <2>4. \A l \in Conns : ctl'[l].at \notin {"none", "closed"} => ctl'[l].owner \in Pods
    BY <1>1, <2>1 DEF Base, StreamsOK, StreamType
  <2> QED
    BY <2>2, <2>3, <2>4, Frames DEF Base, StreamsOK, Register, redis, tokens
<1> QED
  BY <1>2, <1>3

\* ... the fence on the owner's side, ...
LEMMA BaseFence == ASSUME Base, NEW k \in Conns, Fence(k) PROVE Base'
<1>1. ctl[k] \in StreamType /\ ctl[k].at = "fencing" /\ ctl[k].owner \in Pods /\ counter' = counter
  BY DEF Base, StreamsOK, Fence
<1>2. ctl[k].gen \in 0..counter
  BY <1>1 DEF StreamType
<1>3. ctl' = [ctl EXCEPT ![k].at = "validated"] \/ ctl' = [ctl EXCEPT ![k].at = "refused", ![k].room = 0]
  BY DEF Fence, Stream
<1>4. ctl' \in [Conns -> StreamType']
  BY <1>1, <1>3 DEF Base, StreamsOK, StreamType, StreamPhases
<1>5. \A l \in Conns : ctl'[l].at \notin {"none", "closed"} => ctl'[l].owner \in Pods
  BY <1>1, <1>3 DEF Base, StreamsOK, StreamType
<1>6. RedisOK'
  <2>1. fenced' \in 0..counter
    BY <1>2 DEF Fence, Base, RedisOK
  <2> QED
    BY <2>1 DEF Fence, Base, RedisOK, tokens, NoLease
<1> QED
  BY <1>4, <1>5, <1>6, Frames DEF Base, StreamsOK, Fence

\* ... a failing one, ...
LEMMA BaseFenceFails == ASSUME Base, NEW k \in Conns, FenceFails(k) PROVE Base'
<1>1. StreamsOK'
  BY StreamChange, ClosedOK DEF FenceFails, redis
<1> QED
  BY <1>1, Frames DEF Base, FenceFails, redis, tokens

\* ... a roster frame that cannot be written, ...
LEMMA BaseRosterSendFails ==
  ASSUME Base, NEW k \in Conns, RosterSendFails(k)
  PROVE Base'
<1>1. ctl[k] \in StreamType /\ ctl[k].at = "serving" /\ ctl[k].owner \in Pods /\ counter' = counter
  BY DEF Base, StreamsOK, RosterSendFails, redis
<1>2. ctl' = [ctl EXCEPT ![k].at = "cut"]
  BY DEF RosterSendFails, Stream
<1>3. ctl' \in [Conns -> StreamType']
  BY <1>1, <1>2 DEF Base, StreamsOK, StreamType, StreamPhases
<1>4. \A l \in Conns : ctl'[l].at \notin {"none", "closed"} => ctl'[l].owner \in Pods
  BY <1>1, <1>2 DEF Base, StreamsOK, StreamType
<1>5. StreamsOK'
  BY <1>3, <1>4 DEF StreamsOK
<1> QED
  BY <1>5, Frames DEF Base, RosterSendFails, redis, tokens

\* ... the admission of a remote peer, ...
LEMMA BaseRegisterRemotePeer ==
  ASSUME Base, NEW k \in Conns, RegisterRemotePeer(k)
  PROVE Base'
<1>1. ctl[k] \in StreamType /\ ctl[k].at = "validated" /\ ctl[k].owner \in Pods /\ counter' = counter
  BY DEF Base, StreamsOK, RegisterRemotePeer, redis
<1>2. ctl' = [ctl EXCEPT ![k].at = "serving", ![k].room = 0] \/ ctl' = [ctl EXCEPT ![k].at = "refused", ![k].room = 0]
  BY DEF RegisterRemotePeer
<1>3. ctl' \in [Conns -> StreamType']
  BY <1>1, <1>2 DEF Base, StreamsOK, StreamType, StreamPhases
<1>4. \A l \in Conns : ctl'[l].at \notin {"none", "closed"} => ctl'[l].owner \in Pods
  BY <1>1, <1>2 DEF Base, StreamsOK, StreamType
<1>5. SpaceOK'
  <2>1. UNCHANGED rooms \/ AddPeer(k, ctl[k].room)
    BY DEF RegisterRemotePeer
  <2> QED
    BY <2>1, AddPeerOK, Frames DEF Base, RegisterRemotePeer, space
<1> QED
  BY <1>3, <1>4, <1>5, Frames DEF Base, StreamsOK, RegisterRemotePeer, redis, tokens

\* ... and the end of the stream.
LEMMA BaseStreamEnds == ASSUME Base, NEW k \in Conns, StreamEnds(k) PROVE Base'
<1>1. StreamsOK'
  BY StreamChange, ClosedOK DEF StreamEnds, redis
<1>2. SpaceOK'
  BY RemoveFromLiveOK DEF Base, StreamEnds
<1> QED
  BY <1>1, <1>2, Frames DEF Base, StreamEnds, redis, tokens

\* Leaving preserves Base, ...
LEMMA BaseLeave ==
  ASSUME Base, NEW k \in Conns, Leave(k) \/ ClosedForRejoin(k)
  PROVE  Base'
<1>1. ConnInv(conn[k]) /\ conn[k].at = "in" /\ counter' = counter /\ Goto(k, "leaving")
  BY ConnIs DEF Leave, ClosedForRejoin, redis
<1>2. ConnsOK'
  BY <1>1, GotoOK DEF Base, ConnInv, Early, ConnPhases
<1> QED
  BY <1>2, ConnOnly, Frames DEF Leave, ClosedForRejoin, Base

\* ... the removal of the peer, ...
LEMMA BaseRemovePeer == ASSUME Base, NEW k \in Conns, RemovePeer(k) PROVE Base'
<1> DEFINE r == conn[k].room
           left == rooms[r].peers \ {k}
           ends == ~Remote(k) /\ left = {} /\ ~rooms[r].ended
<1>1. ConnInv(conn[k]) /\ conn[k].at = "leaving" /\ counter' = counter
  BY ConnIs DEF RemovePeer, redis
<1>2. rooms' = [rooms EXCEPT ![r] = [peers |-> left, ended |-> @.ended \/ ends]]
      /\ Goto(k, IF ends THEN "archiving" ELSE "cleaning")
  BY DEF RemovePeer
<1>3. ConnsOK'
  <2>1. Goto(k, "archiving") \/ Goto(k, "cleaning")
    BY <1>2
  <2> QED
    BY <1>1, <2>1, GotoOK DEF Base, ConnInv, Early, ConnPhases
<1>4. SpaceOK'
  <2>1. rooms' \in [Rooms -> [peers : SUBSET Conns, ended : BOOLEAN]]
    <3> HIDE DEF ends
    <3>1. rooms \in [Rooms -> [peers : SUBSET Conns, ended : BOOLEAN]]
      BY DEF Base, SpaceOK
    <3>2. ASSUME r \in Rooms
          PROVE  [peers |-> left, ended |-> rooms[r].ended \/ ends] \in [peers : SUBSET Conns, ended : BOOLEAN]
      <4>1. left \in SUBSET Conns
        BY <3>1, <3>2
      <4>2. (rooms[r].ended \/ ends) \in BOOLEAN
        BY Zenon
      <4> QED
        BY <4>1, <4>2
    <3>3. rooms' = [rooms EXCEPT ![r] = [peers |-> left, ended |-> rooms[r].ended \/ ends]]
      BY <1>2
    <3> QED
      BY <3>1, <3>2, <3>3
  <2> QED
    BY <2>1 DEF Base, SpaceOK, RemovePeer
<1> QED
  BY <1>3, <1>4, Frames DEF Base, RemovePeer, redis, tokens

\* ... the archive, ...
LEMMA BaseArchive == ASSUME Base, NEW k \in Conns, Archive(k) PROVE Base'
<1>1. ConnInv(conn[k]) /\ conn[k].at = "archiving" /\ counter' = counter /\ Goto(k, "cleaning")
  BY ConnIs DEF Archive, redis
<1>2. ConnsOK'
  BY <1>1, GotoOK DEF Base, ConnInv, Early, ConnPhases
<1>3. SpaceOK'
  BY DEF Base, SpaceOK, Archive
<1> QED
  BY <1>2, <1>3, Frames DEF Base, Archive, redis, tokens

\* ... a failing one, ...
LEMMA BaseArchiveFails == ASSUME Base, NEW k \in Conns, ArchiveFails(k) PROVE Base'
<1>1. ConnsOK'
  BY EndOK DEF Base, ArchiveFails, redis
<1>2. SpaceOK'
  <2>1. rooms' \in [Rooms -> [peers : SUBSET Conns, ended : BOOLEAN]]
    BY DEF Base, SpaceOK, ArchiveFails
  <2> QED
    BY <2>1 DEF Base, SpaceOK, ArchiveFails
<1> QED
  BY <1>1, <1>2, Frames DEF Base, ArchiveFails, redis, tokens

\* ... the cleanup, ...
LEMMA BaseCleanup == ASSUME Base, NEW k \in Conns, Cleanup(k) PROVE Base'
<1>1. ConnInv(conn[k]) /\ conn[k].at = "cleaning" /\ counter' = counter
  BY ConnIs DEF Cleanup, redis
<1>2. conn[k].home \in Pods
  BY <1>1 DEF ConnInv
<1>3. Goto(k, "releasing") \/ End(k)
  BY DEF Cleanup
<1>4. ConnsOK'
  BY <1>1, <1>3, GotoOK, EndOK DEF Base, ConnInv, Early, ConnPhases
<1>5. SpaceOK'
  BY <1>2, CleanupOK DEF Base, Cleanup
<1> QED
  BY <1>4, <1>5, Frames DEF Base, Cleanup, redis, tokens

\* ... and the release of the registry entry.
LEMMA BaseReleaseEntry == ASSUME Base, NEW k \in Conns, ReleaseEntry(k) PROVE Base'
<1>1. conn[k].at = "releasing" /\ counter' = counter /\ conn[k].at \notin Early
  BY DEF ReleaseEntry, redis, Early
<1>2. conn[k].gen \in Gens /\ conn[k].home \in Pods /\ counter \in Nat
  BY <1>1, GenInRange DEF Base, RedisOK
<1>3. ConnsOK'
  BY <1>1, EndOK DEF Base, ReleaseEntry
<1>4. TokensOK'
  BY <1>2 DEF Base, TokensOK, ReleaseEntry
<1>5. RegistryOK'
  BY <1>1, <1>2 DEF Base, RegistryOK, ReleaseEntry
<1> QED
  BY <1>3, <1>4, <1>5, Frames DEF Base, ReleaseEntry, redis

\* Base holds initially, ...
LEMMA BaseInit == ASSUME Init PROVE Base
<1>1. RedisOK /\ FaultsOK
  BY DEF Init, RedisOK, FaultsOK
<1>2. TokensOK
  BY DEF Init, TokensOK
<1>3. RegistryOK
  BY DEF Init, RegistryOK
<1>4. SpaceOK
  <2>1. EmptyRoom \in [peers : SUBSET Conns, ended : BOOLEAN]
    BY DEF EmptyRoom
  <2>2. rooms \in [Rooms -> [peers : SUBSET Conns, ended : BOOLEAN]]
    BY <2>1 DEF Init
  <2>3. live \in [Pods -> 0..MaxRooms]
    BY DEF Init
  <2>4. archived \in BOOLEAN
    BY Zenon DEF Init
  <2> QED
    BY <2>2, <2>3, <2>4 DEF SpaceOK
<1>5. ConnsOK
  <2>1. NewConn \in ConnType /\ ConnInv(NewConn)
    BY DEF Init, NewConn, ConnType, ConnInv, ConnPhases, Early
  <2>2. conn \in [Conns -> ConnType]
    BY <2>1 DEF Init
  <2>3. \A k \in Conns : conn[k] = NewConn
    BY DEF Init
  <2> QED
    BY <2>1, <2>2, <2>3 DEF ConnsOK
<1>6. StreamsOK
  <2>1. NoStream \in StreamType /\ NoStream.at = "none"
    BY DEF Init, NoStream, StreamType, StreamPhases
  <2>2. ctl \in [Conns -> StreamType]
    BY <2>1 DEF Init
  <2>3. \A k \in Conns : ctl[k] = NoStream
    BY DEF Init
  <2> QED
    BY <2>1, <2>2, <2>3 DEF StreamsOK
<1> QED
  BY <1>1, <1>2, <1>3, <1>4, <1>5, <1>6 DEF Base

\* ... is preserved by every step ...
LEMMA BaseNext == ASSUME Base, [Next]_vars PROVE Base'
<1>1. ASSUME NEW k \in Conns, Joining(k) PROVE Base'
  BY <1>1, BaseArrive, BaseLookup, BaseAcquire, BaseCheckOwner, BaseValidate,
     BaseEnterRoom, BaseArchivedCheck, BaseRefused, BaseAdmit,
     BaseAttachDraining, BasePassDrainCheck, BaseAttachExisting,
     BasePassEntryCheck, BaseInsertEntry, BaseRecheck, BaseReuse, BaseDial,
     BaseDialSucceeds, Zenon DEF Joining
<1>2. ASSUME NEW k \in Conns, Leaving(k) \/ Leave(k) \/ DialEnds(k) PROVE Base'
  BY <1>2, BaseLeave, BaseRemovePeer, BaseArchive, BaseCleanup,
     BaseReleaseEntry, BaseDialEnds, Zenon DEF Leaving
<1>3. ASSUME NEW k \in Conns, Serving(k) PROVE Base'
  BY <1>3, BaseAccept, BaseRegister, BaseFence, BaseRegisterRemotePeer,
     BaseStreamEnds, Zenon DEF Serving
<1>4. ASSUME NEW k \in Conns, Failing(k) PROVE Base'
  BY <1>4, BaseAcquireUnanswered, BaseRedisFails, BaseFenceFails, BaseRosterSendFails,
     BaseArchivedCheckFails, BaseArchiveFails, Zenon DEF Failing
<1>5. ASSUME NEW g \in Gens, Renewing(g) \/ RenewFails(g) \/ ReleaseFails(g)
      PROVE  Base'
  BY <1>5, BaseRenewal, BaseReleaseLease, Zenon DEF Renewing
<1>6. ASSUME NEW p \in Pods, DrainFlag(p) \/ Shutdown(p) \/ Crash(p)
      PROVE  Base'
  BY <1>6, BaseDrain, BaseDrainEntry, BaseCrash, Zenon DEF Shutdown
<1>7. CASE UNCHANGED vars
  BY <1>7, Frames DEF Base, vars, redis, tokens
<1> QED
  BY <1>1, <1>2, <1>3, <1>4, <1>5, <1>6, <1>7, BaseLeaseExpires, Zenon DEF Next

\* ... and implies the type invariant.
LEMMA BaseTyped == ASSUME Base PROVE TypeOK
<1>1. lease \in [owner : Pods \cup {NoPod}, gen : 0..MaxGen]
  BY DEF Base, RedisOK, NoLease
<1> QED
  BY <1>1 DEF Base, RedisOK, TokensOK, RegistryOK, SpaceOK, ConnsOK, StreamsOK,
     FaultsOK, ConnType, StreamType, TypeOK

\* Every variable keeps its type for any number of pods, connections, generations and
\* rooms; no registry, connection or stream ever knows a generation ACQUIRE_SCRIPT has
\* not granted.
THEOREM HuddleTypeCorrect == Spec => []TypeOK
<1>1. Init => Base
  BY BaseInit
<1>2. Base /\ [Next]_vars => Base'
  BY BaseNext
<1>3. Base => TypeOK
  BY BaseTyped
<1> QED
  BY <1>1, <1>2, <1>3, PTL DEF Spec

\* ACQUIRE_SCRIPT is a grant of the abstract lease.
LEMMA MintGrants ==
  ASSUME Base, NEW p \in Pods, Mint(p) PROVE Lease!Grant
<1>1. lease.owner = NoPod /\ lease'.owner = p /\ counter' = counter + 1 /\ fenced' = fenced
  BY DEF Mint, NoLease
<1> QED
  BY <1>1 DEF Lease!Grant

\* A header validate_fenced_header accepts is a use under the present epoch, because the
\* lease that exists is the last one granted.
LEMMA AcceptedUses ==
  ASSUME Base, NEW p, NEW g, Accepts(p, g), fenced' = g, UNCHANGED <<lease, counter>>
  PROVE  Lease!Use
<1>1. lease.owner \in Pods /\ g = counter
  BY DEF Base, RedisOK, Accepts, HeldBy
<1> QED
  BY <1>1 DEF Lease!Use

\* A release or the end of the TTL vacates it.
LEMMA DroppedVacates ==
  ASSUME Base, lease # NoLease, lease' = NoLease, UNCHANGED <<counter, fenced>>
  PROVE  Lease!Vacate
<1>1. lease.owner \in Pods /\ lease'.owner = NoPod
  BY DEF Base, RedisOK, NoLease
<1> QED
  BY <1>1 DEF Lease!Vacate

\* A step that leaves Redis alone is a stutter of the abstract lease.
LEMMA QuietStutters ==
  ASSUME UNCHANGED redis PROVE UNCHANGED Lease!vars
  BY DEF redis, Lease!vars

\* Every step is a step of the abstract lease or a stutter.
LEMMA LeaseStep ==
  ASSUME Base, [Next]_vars PROVE [Lease!Next]_(Lease!vars)
<1>1. ASSUME NEW k \in Conns, Joining(k) PROVE [Lease!Next]_(Lease!vars)
  <2>1. CASE Acquire(k)
    <3>1. conn[k].home \in Pods
      BY <2>1, ConnIs DEF Acquire, ConnInv
    <3>2. Mint(conn[k].home) \/ UNCHANGED redis
      BY <2>1 DEF Acquire
    <3> QED
      BY <3>1, <3>2, MintGrants, QuietStutters DEF Lease!Next
  <2>2. CASE Validate(k)
    <3>1. CASE Accepts(conn[k].owner, conn[k].gen)
      BY <2>2, <3>1, AcceptedUses DEF Validate, Lease!Next
    <3>2. CASE ~Accepts(conn[k].owner, conn[k].gen)
      BY <2>2, <3>2, QuietStutters DEF Validate, redis
    <3> QED
      BY <3>1, <3>2
  <2>3. CASE ~Acquire(k) /\ ~Validate(k)
    <3>1. UNCHANGED redis
      BY <1>1, <2>3 DEF Joining, Arrive, Lookup, CheckOwner, EnterRoom,
         ArchivedCheck, Refused, Admit, AttachDraining, PassDrainCheck,
         AttachExisting, PassEntryCheck, InsertEntry, Recheck, Reuse, Dial,
         DialSucceeds, redis
    <3> QED
      BY <3>1, QuietStutters
  <2> QED
    BY <2>1, <2>2, <2>3
<1>2. ASSUME NEW k \in Conns, Leaving(k) \/ Leave(k) \/ DialEnds(k)
      PROVE  [Lease!Next]_(Lease!vars)
  <2>1. UNCHANGED redis
    BY <1>2 DEF Leaving, ClosedForRejoin, RemovePeer, Archive, Cleanup,
       ReleaseEntry, Leave, DialEnds, redis
  <2> QED
    BY <2>1, QuietStutters
<1>3. ASSUME NEW k \in Conns, Serving(k) PROVE [Lease!Next]_(Lease!vars)
  <2>1. CASE Fence(k)
    <3>1. CASE Accepts(ctl[k].owner, ctl[k].gen)
      BY <2>1, <3>1, AcceptedUses DEF Fence, Lease!Next
    <3>2. CASE ~Accepts(ctl[k].owner, ctl[k].gen)
      BY <2>1, <3>2, QuietStutters DEF Fence, redis
    <3> QED
      BY <3>1, <3>2
  <2>2. CASE ~Fence(k)
    <3>1. UNCHANGED redis
      BY <1>3, <2>2 DEF Serving, Accept, Register, RegisterRemotePeer,
         StreamEnds, redis
    <3> QED
      BY <3>1, QuietStutters
  <2> QED
    BY <2>1, <2>2
<1>4. ASSUME NEW k \in Conns, Failing(k) PROVE [Lease!Next]_(Lease!vars)
  <2>1. CASE AcquireUnanswered(k)
    <3>1. conn[k].home \in Pods
      BY <2>1, ConnIs DEF AcquireUnanswered, ConnInv
    <3> QED
      BY <2>1, <3>1, MintGrants DEF AcquireUnanswered, Lease!Next
  <2>2. CASE ~AcquireUnanswered(k)
    <3>1. UNCHANGED redis
      BY <1>4, <2>2 DEF Failing, RedisFails, FenceFails, RosterSendFails, ArchivedCheckFails,
         ArchiveFails, redis
    <3> QED
      BY <3>1, QuietStutters
  <2> QED
    BY <2>1, <2>2
<1>5. ASSUME NEW g \in Gens, Renewing(g) \/ RenewFails(g) \/ ReleaseFails(g)
      PROVE  [Lease!Next]_(Lease!vars)
  <2>1. CASE ReleaseLease(g)
    <3>1. CASE HeldBy(minted[g], g)
      <4>1. lease # NoLease
        BY <3>1 DEF HeldBy, NoLease
      <4> QED
        BY <2>1, <3>1, <4>1, DroppedVacates DEF ReleaseLease, Lease!Next
    <3>2. CASE ~HeldBy(minted[g], g)
      BY <2>1, <3>2, QuietStutters DEF ReleaseLease, redis
    <3> QED
      BY <3>1, <3>2
  <2>2. CASE ~ReleaseLease(g)
    <3>1. UNCHANGED redis
      BY <1>5, <2>2 DEF Renewing, RenewLost, RenewerCancelled, RenewFails,
         ReleaseFails, redis
    <3> QED
      BY <3>1, QuietStutters
  <2> QED
    BY <2>1, <2>2
<1>6. ASSUME NEW p \in Pods, DrainFlag(p) \/ Shutdown(p) \/ Crash(p)
      PROVE  [Lease!Next]_(Lease!vars)
  <2>1. UNCHANGED redis
    BY <1>6 DEF DrainFlag, Shutdown, DrainCollect, DrainEntry, Crash, redis
  <2> QED
    BY <2>1, QuietStutters
<1>7. CASE LeaseExpires
  BY <1>7, DroppedVacates DEF LeaseExpires, Lease!Next
<1>8. CASE UNCHANGED vars
  BY <1>8, QuietStutters DEF vars, redis
<1> QED
  BY <1>1, <1>2, <1>3, <1>4, <1>5, <1>6, <1>7, <1>8 DEF Next

\* The directory scripts, used by any number of pods with crashes, lost answers, stale
\* renewers and races, implement the abstract lease: one holder at a time, epochs that
\* only grow, and no header accepted under any but the holder's epoch.
THEOREM LeaseImplemented == Spec => LeaseSpec
<1>1. Init => Lease!Init
  BY DEF Init, NoLease, Lease!Init
<1>2. Init => Base
  BY BaseInit
<1>3. Base /\ [Next]_vars => Base'
  BY BaseNext
<1>4. Base /\ [Next]_vars => [Lease!Next]_(Lease!vars)
  BY LeaseStep
<1> QED
  BY <1>1, <1>2, <1>3, <1>4, PTL DEF Spec, LeaseSpec, Lease!Spec

(***************************************************************************)
(* Every renewer that holds the lease can be reached through the registry, *)
(* and a shutdown leaves none running.                                     *)
(***************************************************************************)
\* A connection between its acquire and its attach.
Holding(k) ==
    /\ conn[k].acquired # 0
    /\ conn[k].at \in {"entering", "entered", "admitting", "attaching",
                       "inserting", "spawning"}

\* Such a connection is alone, its lease is still there, and nobody renews it yet.
Held ==
    /\ \A k \in Conns : Holding(k) =>
         renewer[conn[k].gen] = "none" /\ HeldBy(conn[k].home, conn[k].gen)
    /\ \A k, l \in Conns : Holding(k) /\ Holding(l) => k = l

\* A generation not granted yet has no renewer.
Unborn == \A g \in Gens : g > counter => renewer[g] = "none"

\* A connection of pod p stands between its insert of g and its second draining check.
Rechecking(p, g) ==
    \E k \in Conns : conn[k].at = "rechecking" /\ conn[k].gen = g /\ conn[k].home = p

\* An entry that a shutdown did not collect was inserted by a connection that has yet to
\* recheck the draining flag.
Late ==
    \A p \in Pods :
        /\ stage[p] \in {"collected", "drained"}
        /\ entry[p] # 0
        /\ stage[p] = "collected" => entry[p] # target[p]
        => Rechecking(p, entry[p])

\* The inductive invariant.
Reach == Held /\ Unborn /\ RenewerReachable /\ Late

\* Only connection k changes.
Others(k) == \A l \in Conns \ {k} : conn'[l] = conn[l]

\* k does not become a holder and was not rechecking.
Same(k) ==
    /\ Others(k)
    /\ conn[k].at # "rechecking"
    /\ Holding(k)' => /\ Holding(k)
                      /\ conn'[k].gen = conn[k].gen
                      /\ conn'[k].home = conn[k].home

\* A step of a connection that is not rechecking preserves Late.
LEMMA LateKept ==
  ASSUME Late, NEW k \in Conns, Others(k), conn[k].at # "rechecking",
         UNCHANGED registry
  PROVE  Late'
<1>1. \A l \in Conns : conn[l].at = "rechecking" => conn'[l] = conn[l]
  BY DEF Others
<1>2. \A p, g : Rechecking(p, g) => Rechecking(p, g)'
  BY <1>1 DEF Rechecking
<1> QED
  BY <1>2 DEF Late, registry

\* A step that makes no holder preserves Held.
LEMMA HeldKept ==
  ASSUME Held, NEW k \in Conns, Same(k), UNCHANGED <<lease, renewer>>
  PROVE  Held'
<1>1. \A l \in Conns : Holding(l)' => Holding(l) /\ conn'[l].gen = conn[l].gen
                                      /\ conn'[l].home = conn[l].home
  BY DEF Same, Others, Holding
<1> QED
  BY <1>1 DEF Held, HeldBy

\* A step of one connection that touches neither lease, tokens nor registry preserves Reach.
LEMMA QuietKept ==
  ASSUME Reach, NEW k \in Conns, Same(k),
         UNCHANGED <<lease, counter, tokens, registry>>
  PROVE  Reach'
<1>1. Held'
  BY HeldKept DEF Reach, tokens
<1>2. Late'
  BY LateKept DEF Reach, Same
<1>3. Unborn' /\ RenewerReachable'
  BY DEF Reach, Unborn, RenewerReachable, HeldBy, tokens, registry
<1> QED
  BY <1>1, <1>2, <1>3 DEF Reach

\* Ending a connection is such a step, ...
LEMMA EndSame ==
  ASSUME Base, NEW k \in Conns, End(k), conn[k].at # "rechecking" PROVE Same(k)
<1>1. conn' = [conn EXCEPT ![k] = Over] /\ conn \in [Conns -> ConnType]
  BY DEF End, Base, ConnsOK
<1>2. Others(k) /\ conn'[k] = Over
  BY <1>1 DEF Others
<1>3. ~Holding(k)'
  BY <1>2 DEF Holding, Over, NewConn
<1> QED
  BY <1>2, <1>3 DEF Same

\* ... so is a move between phases, ...
LEMMA GotoSame ==
  ASSUME Base, NEW k \in Conns, NEW at \in ConnPhases, Goto(k, at),
         conn[k].at # "rechecking",
         \/ conn[k].at \in {"entering", "entered", "admitting", "attaching", "inserting", "spawning"}
         \/ at \notin {"entering", "entered", "admitting", "attaching", "inserting", "spawning"}
         \/ conn[k].acquired = 0
  PROVE  Same(k)
<1>1. conn' = [conn EXCEPT ![k].at = at] /\ conn \in [Conns -> ConnType]
  BY DEF Goto, Base, ConnsOK
<1>2. Others(k)
  BY <1>1 DEF Others
<1>3. conn'[k].at = at /\ conn'[k].gen = conn[k].gen /\ conn'[k].home = conn[k].home
      /\ conn'[k].acquired = conn[k].acquired
  BY <1>1 DEF ConnType
<1> QED
  BY <1>2, <1>3 DEF Same, Holding

\* (what taking a watch changes)
LEMMA WatchingSame ==
  ASSUME Base, NEW k \in Conns, NEW g \in 0..counter, NEW at \in {"in", "rechecking"},
         Watching(k, g, at)
  PROVE  /\ Others(k)
         /\ ~Holding(k)'
         /\ conn'[k].at = at
         /\ conn'[k].gen = conn[k].gen
         /\ conn'[k].home = conn[k].home
<1>1. conn' = [conn EXCEPT ![k].watch = g, ![k].at = at] /\ conn \in [Conns -> ConnType]
  BY DEF Watching, Base, ConnsOK
<1>2. Others(k)
  BY <1>1 DEF Others, ConnType
<1>3. conn'[k].at = at /\ conn'[k].gen = conn[k].gen /\ conn'[k].home = conn[k].home
  BY <1>1 DEF ConnType
<1> QED
  BY <1>2, <1>3 DEF Holding

\* ... an arrival, ...
LEMMA ArriveSame ==
  ASSUME Base, NEW k \in Conns, NEW p \in Pods, Arrive(k, p) PROVE Same(k)
<1>1. CASE Draining(p)
  BY <1>1, EndSame DEF Arrive
<1>2. CASE ~Draining(p)
  <2>1. conn' = [conn EXCEPT ![k].home = p, ![k].at = "resolving"] /\ conn \in [Conns -> ConnType]
    BY <1>2 DEF Arrive, Base, ConnsOK
  <2>2. Others(k)
    BY <2>1 DEF Others, ConnType
  <2>3. conn'[k].at = "resolving"
    BY <2>1 DEF ConnType
  <2> QED
    BY <2>2, <2>3 DEF Same, Holding, Arrive
<1> QED
  BY <1>1, <1>2

\* ... routing to the owner, ...
LEMMA RouteSame ==
  ASSUME Base, NEW k \in Conns, Route(k), conn[k].at # "rechecking" PROVE Same(k)
<1> DEFINE at == IF lease.owner = conn[k].home THEN "checking" ELSE "validating"
<1>1. conn' = [conn EXCEPT ![k].owner = lease.owner, ![k].gen = lease.gen, ![k].at = at]
      /\ conn \in [Conns -> ConnType]
  BY DEF Route, Base, ConnsOK
<1>2. at \in {"checking", "validating"}
  OBVIOUS
<1> HIDE DEF at
<1>3. Others(k)
  BY <1>1 DEF Others, ConnType
<1>4. conn'[k].at = at
  BY <1>1 DEF ConnType
<1> QED
  BY <1>2, <1>3, <1>4 DEF Same, Holding

\* ... entering a room, ...
LEMMA EnterSame ==
  ASSUME Base, NEW k \in Conns, EnterRoom(k) PROVE Same(k)
<1>1. PICK r \in Rooms : conn' = [conn EXCEPT ![k].room = r, ![k].at = "entered"]
  BY DEF EnterRoom
<1>2. conn \in [Conns -> ConnType] /\ conn[k].at = "entering"
  BY DEF EnterRoom, Base, ConnsOK
<1>3. Others(k)
  BY <1>1, <1>2 DEF Others, ConnType
<1>4. conn'[k].gen = conn[k].gen /\ conn'[k].home = conn[k].home
      /\ conn'[k].acquired = conn[k].acquired
  BY <1>1, <1>2 DEF ConnType
<1> QED
  BY <1>2, <1>3, <1>4 DEF Same, Holding

\* ... the other steps of a join, ...
LEMMA JoinSame ==
  ASSUME Base, NEW k \in Conns,
         \/ Lookup(k) \/ CheckOwner(k) \/ Validate(k) \/ ArchivedCheck(k)
         \/ Refused(k) \/ Admit(k) \/ PassDrainCheck(k) \/ PassEntryCheck(k)
         \/ Dial(k) \/ DialSucceeds(k)
  PROVE  Same(k)
<1>1. ConnInv(conn[k])
  BY ConnIs
<1>2. CASE Lookup(k)
  BY <1>2, RouteSame, GotoSame DEF Lookup, ConnPhases
<1>3. CASE CheckOwner(k)
  <2>1. conn[k].at = "checking" /\ conn[k].acquired = 0
    BY <1>1, <1>3 DEF CheckOwner, ConnInv
  <2> QED
    BY <1>3, <2>1, EndSame, GotoSame DEF CheckOwner, ConnPhases
<1>4. CASE Validate(k)
  <2>1. conn[k].at = "validating" /\ conn[k].acquired = 0
    BY <1>1, <1>4 DEF Validate, ConnInv
  <2>2. Goto(k, "entering") \/ End(k)
    BY <1>4 DEF Validate
  <2> QED
    BY <2>1, <2>2, EndSame, GotoSame DEF ConnPhases
<1>5. CASE ArchivedCheck(k)
  <2>1. End(k) \/ Goto(k, "dialing") \/ Goto(k, "admitting")
    BY <1>5 DEF ArchivedCheck
  <2> QED
    BY <1>5, <2>1, EndSame, GotoSame DEF ArchivedCheck, ConnPhases
<1>6. CASE Refused(k)
  BY <1>6, EndSame DEF Refused
<1>7. CASE Admit(k)
  <2>1. End(k) \/ Goto(k, "in") \/ Goto(k, "attaching")
    BY <1>7 DEF Admit
  <2> QED
    BY <1>7, <2>1, EndSame, GotoSame DEF Admit, ConnPhases
<1>8. CASE PassDrainCheck(k) \/ PassEntryCheck(k)
  BY <1>8, GotoSame DEF PassDrainCheck, PassEntryCheck, ConnPhases
<1>9. CASE Dial(k)
  BY <1>9, GotoSame DEF Dial, ConnPhases
<1>10. CASE DialSucceeds(k)
  <2>1. conn[k].at = "awaiting" /\ conn[k].acquired = 0
    BY <1>1, <1>10 DEF DialSucceeds, ConnInv
  <2> QED
    BY <1>10, <2>1, GotoSame DEF DialSucceeds, ConnPhases
<1> QED
  BY <1>2, <1>3, <1>4, <1>5, <1>6, <1>7, <1>8, <1>9, <1>10

\* ... the reuse of an entry, ...
LEMMA ReuseSame ==
  ASSUME Base, NEW k \in Conns, Reuse(k) PROVE Same(k)
<1>1. conn[k].at = "attaching" /\ conn[k].at \notin Early
  BY DEF Reuse, Early
<1>2. entry[conn[k].home] \in 0..counter
  BY <1>1, GenInRange, EntryInRange
<1> QED
  BY <1>1, <1>2, WatchingSame DEF Reuse, Same

\* ... and the steps of leaving.
LEMMA LeaveSame ==
  ASSUME Base, NEW k \in Conns,
         \/ Leave(k) \/ ClosedForRejoin(k) \/ RemovePeer(k) \/ Archive(k)
         \/ Cleanup(k) \/ DialEnds(k)
         \/ RedisFails(k) \/ ArchivedCheckFails(k) \/ ArchiveFails(k)
  PROVE  Same(k)
<1>1. CASE Leave(k) \/ ClosedForRejoin(k)
  BY <1>1, GotoSame DEF Leave, ClosedForRejoin, ConnPhases
<1>2. CASE RemovePeer(k)
  <2>1. Goto(k, "archiving") \/ Goto(k, "cleaning")
    BY <1>2 DEF RemovePeer
  <2> QED
    BY <1>2, <2>1, GotoSame DEF RemovePeer, ConnPhases
<1>3. CASE Archive(k)
  BY <1>3, GotoSame DEF Archive, ConnPhases
<1>4. CASE Cleanup(k)
  <2>1. Goto(k, "releasing") \/ End(k)
    BY <1>4 DEF Cleanup
  <2> QED
    BY <1>4, <2>1, GotoSame, EndSame DEF Cleanup, ConnPhases
<1>5. CASE DialEnds(k) \/ RedisFails(k) \/ ArchivedCheckFails(k) \/ ArchiveFails(k)
  <2>1. End(k) /\ conn[k].at # "rechecking"
    BY <1>5 DEF DialEnds, RedisFails, ArchivedCheckFails, ArchiveFails
  <2> QED
    BY <2>1, EndSame
<1> QED
  BY <1>1, <1>2, <1>3, <1>4, <1>5

\* A grant finds nobody holding, so the new holder is the only one.
LEMMA MintReach ==
  ASSUME Base, Reach, NEW k \in Conns, NEW p \in Pods, Mint(p), UNCHANGED registry,
         Others(k), conn[k].at # "rechecking",
         Holding(k)' => conn'[k].gen = counter' /\ conn'[k].home = p
  PROVE  Reach'
<1>1. counter \in Nat /\ counter' = counter + 1 /\ counter' \in Gens
      /\ lease' = [owner |-> p, gen |-> counter'] /\ renewer' = renewer
      /\ cancelled' = cancelled /\ minted' = [minted EXCEPT ![counter'] = p]
  BY DEF Base, RedisOK, Mint
<1>2. renewer'[counter'] = "none"
  BY <1>1 DEF Reach, Unborn
<1>3. ASSUME NEW l \in Conns, Holding(l) PROVE FALSE
  <2>1. HeldBy(conn[l].home, conn[l].gen)
    BY <1>3 DEF Reach, Held
  <2>2. conn[l].gen \in Gens
    BY <1>3, GenInRange DEF Holding, Early
  <2> QED
    BY <2>1, <2>2 DEF HeldBy, Mint, NoLease
<1>4. \A l \in Conns : Holding(l)' => l = k
  BY <1>3 DEF Others, Holding
<1>5. Held'
  BY <1>1, <1>2, <1>4 DEF Held, HeldBy
<1>6. Unborn'
  BY <1>1 DEF Reach, Unborn
<1>7. RenewerReachable'
  <2>1. ASSUME NEW g \in Gens, HeldBy(minted[g], g)' PROVE g = counter'
    BY <1>1, <2>1 DEF HeldBy
  <2> QED
    BY <1>2, <2>1 DEF RenewerReachable
<1>8. Late'
  BY LateKept DEF Reach
<1> QED
  BY <1>5, <1>6, <1>7, <1>8 DEF Reach

\* An acquire preserves Reach, ...
LEMMA AcquireReach ==
  ASSUME Base, Reach, NEW k \in Conns, Acquire(k) PROVE Reach'
<1>1. conn[k].at = "acquiring" /\ conn[k].home \in Pods /\ conn \in [Conns -> ConnType]
  BY ConnIs DEF Acquire, ConnInv, Base, ConnsOK
<1>2. CASE /\ Mint(conn[k].home)
           /\ conn' = [conn EXCEPT ![k].owner = conn[k].home, ![k].gen = counter',
                                   ![k].acquired = counter', ![k].at = "entering"]
  <2>1. Others(k) /\ conn'[k].gen = counter' /\ conn'[k].home = conn[k].home
    BY <1>1, <1>2 DEF Others, ConnType
  <2> QED
    BY <1>1, <1>2, <2>1, MintReach DEF Acquire
<1>3. CASE lease # NoLease /\ Route(k) /\ UNCHANGED <<redis, tokens>>
  BY <1>1, <1>3, RouteSame, QuietKept DEF Acquire, redis
<1> QED
  BY <1>2, <1>3 DEF Acquire

\* ... also one whose answer is lost.
LEMMA UnansweredReach ==
  ASSUME Base, Reach, NEW k \in Conns, AcquireUnanswered(k) PROVE Reach'
<1>1. conn[k].at = "acquiring" /\ conn[k].home \in Pods
  BY ConnIs DEF AcquireUnanswered, ConnInv
<1>2. Others(k) /\ ~Holding(k)'
  BY DEF AcquireUnanswered, End, Others, Base, ConnsOK, Holding, Over, NewConn
<1> QED
  BY <1>1, <1>2, MintReach DEF AcquireUnanswered

\* The holder installs the renewer of the present lease and holds no more.
LEMMA InstallKept ==
  ASSUME Base, Reach, NEW k \in Conns, Holding(k), Others(k), ~Holding(k)',
         renewer' = [renewer EXCEPT ![conn[k].gen] = "running"],
         UNCHANGED <<lease, counter, minted>>
  PROVE  /\ Held' /\ Unborn'
         /\ conn[k].gen = counter /\ minted[counter] = conn[k].home
         /\ \A g \in Gens : HeldBy(minted[g], g)' => g = conn[k].gen
         /\ renewer'[conn[k].gen] = "running"
<1>1. conn[k].gen \in Gens /\ counter \in Nat
  BY GenInRange DEF Holding, Early, Base, RedisOK
<1>2. HeldBy(conn[k].home, conn[k].gen)
  BY DEF Reach, Held
<1>3. conn[k].gen = counter /\ minted[counter] = conn[k].home
  BY <1>1, <1>2 DEF Base, RedisOK, HeldBy, NoLease
<1>4. \A g \in Gens : HeldBy(minted[g], g)' => g = conn[k].gen
  BY <1>2 DEF HeldBy
<1>5. \A l \in Conns : ~Holding(l)'
  BY DEF Reach, Held, Others, Holding
<1>6. Held'
  BY <1>5 DEF Held
<1>7. Unborn'
  BY <1>1, <1>3 DEF Reach, Unborn
<1>8. renewer'[conn[k].gen] = "running"
  BY <1>1 DEF Base, TokensOK
<1> QED
  BY <1>3, <1>4, <1>6, <1>7, <1>8

\* A throwaway renewer is told to stop before it runs.
LEMMA AttachReach ==
  ASSUME Base, Reach, NEW k \in Conns, AttachDraining(k) \/ AttachExisting(k)
  PROVE  Reach'
<1>1. Holding(k) /\ conn[k].at # "rechecking" /\ conn[k].at \notin Early
  BY ConnIs DEF AttachDraining, AttachExisting, Holding, ConnInv, Early
<1>2. conn[k].gen \in 0..counter /\ entry[conn[k].home] \in 0..counter
  BY <1>1, GenInRange, EntryInRange
<1>3. Others(k) /\ ~Holding(k)'
  BY <1>2, WatchingSame DEF AttachDraining, AttachExisting
<1>4. /\ renewer' = [renewer EXCEPT ![conn[k].gen] = "running"]
      /\ cancelled' = cancelled \cup {conn[k].gen}
      /\ UNCHANGED <<lease, counter, minted, registry>>
  BY DEF AttachDraining, AttachExisting, Throwaway, redis
<1>5. Held' /\ Unborn' /\ \A g \in Gens : HeldBy(minted[g], g)' => g \in cancelled'
  BY <1>1, <1>3, <1>4, InstallKept
<1>6. RenewerReachable'
  BY <1>5 DEF RenewerReachable
<1>7. Late'
  BY <1>1, <1>3, <1>4, LateKept DEF Reach
<1> QED
  BY <1>5, <1>6, <1>7 DEF Reach

\* The inserted renewer is the one the registry knows, and its connection rechecks.
LEMMA InsertReach ==
  ASSUME Base, Reach, NEW k \in Conns, InsertEntry(k) PROVE Reach'
<1>1. Holding(k) /\ conn[k].at = "spawning" /\ conn[k].at \notin Early
  BY ConnIs DEF InsertEntry, Holding, ConnInv, Early
<1>2. conn[k].gen \in 0..counter /\ conn[k].home \in Pods
  BY <1>1, GenInRange
<1>3. Others(k) /\ ~Holding(k)' /\ conn'[k].at = "rechecking"
      /\ conn'[k].gen = conn[k].gen /\ conn'[k].home = conn[k].home
  BY <1>2, WatchingSame DEF InsertEntry
<1>4. /\ renewer' = [renewer EXCEPT ![conn[k].gen] = "running"]
      /\ entry' = [entry EXCEPT ![conn[k].home] = conn[k].gen]
      /\ UNCHANGED <<lease, counter, minted, stage, target>>
      /\ entry \in [Pods -> 0..counter]
  BY DEF InsertEntry, redis, Base, RegistryOK
<1>5. /\ Held' /\ Unborn'
      /\ minted[conn[k].gen] = conn[k].home
      /\ \A g \in Gens : HeldBy(minted[g], g)' => g = conn[k].gen
  BY <1>1, <1>3, <1>4, InstallKept
<1>6. RenewerReachable'
  <2>1. entry'[conn[k].home] = conn[k].gen
    BY <1>2, <1>4
  <2> QED
    BY <1>4, <1>5, <2>1 DEF RenewerReachable
<1>7. Late'
  <2>1. ASSUME NEW p \in Pods, p = conn[k].home PROVE Rechecking(p, entry[p])'
    BY <1>3, <1>4, <2>1 DEF Rechecking
  <2>2. ASSUME NEW p \in Pods, p # conn[k].home, Rechecking(p, entry[p])
        PROVE  Rechecking(p, entry[p])'
    BY <1>1, <1>4, <1>3, <2>2 DEF Rechecking, Others
  <2>3. \A p \in Pods : p # conn[k].home => entry'[p] = entry[p]
    BY <1>4
  <2> QED
    BY <1>4, <2>1, <2>2, <2>3 DEF Reach, Late
<1> QED
  BY <1>5, <1>6, <1>7 DEF Reach

\* The second check removes the entry and stops the renewer together.
LEMMA RecheckReach ==
  ASSUME Base, Reach, NEW k \in Conns, Recheck(k) PROVE Reach'
<1> DEFINE p == conn[k].home
           g == conn[k].gen
<1>1. conn[k].at = "rechecking" /\ conn[k].at \notin Early /\ conn \in [Conns -> ConnType]
  BY DEF Recheck, Early, Base, ConnsOK
<1>2. g \in Gens /\ p \in Pods /\ g # 0
  BY <1>1, GenInRange
<1>3. conn' = [conn EXCEPT ![k].at = "in"]
  BY DEF Recheck, Goto
<1>4. Others(k) /\ ~Holding(k)' /\ conn'[k].at = "in"
  BY <1>1, <1>3 DEF Others, Holding, ConnType
<1>5. UNCHANGED <<lease, counter, minted, renewer, stage, target>>
  BY DEF Recheck, redis
<1>6. Held' /\ Unborn'
  BY <1>4, <1>5 DEF Reach, Held, Unborn, Others, Holding, HeldBy
<1>7. entry \in [Pods -> 0..counter]
  BY DEF Base, RegistryOK
<1>8. CASE Draining(p)
  <2>1. entry' = (IF entry[p] = g THEN [entry EXCEPT ![p] = 0] ELSE entry)
        /\ cancelled' = cancelled \cup {g}
    BY <1>8 DEF Recheck
  <2>2. RenewerReachable'
    BY <1>5, <1>7, <2>1 DEF Reach, RenewerReachable, HeldBy
  <2>3. ASSUME NEW q \in Pods, entry'[q] # 0 PROVE entry'[q] = entry[q]
    BY <1>7, <2>1, <2>3
  <2>4. ASSUME NEW q \in Pods, entry'[q] # 0, Rechecking(q, entry[q])
        PROVE  Rechecking(q, entry[q])'
    <3>1. PICK l \in Conns : conn[l].at = "rechecking" /\ conn[l].gen = entry[q]
                             /\ conn[l].home = q
      BY <2>4 DEF Rechecking
    <3>2. l # k
      BY <1>2, <1>7, <2>1, <2>4, <3>1
    <3> QED
      BY <1>4, <2>3, <2>4, <3>1, <3>2 DEF Rechecking, Others
  <2>5. Late'
    BY <1>5, <2>3, <2>4 DEF Reach, Late
  <2> QED
    BY <1>6, <2>2, <2>5 DEF Reach
<1>9. CASE ~Draining(p)
  <2>1. UNCHANGED <<entry, cancelled>>
    BY <1>9 DEF Recheck
  <2>2. RenewerReachable'
    BY <1>5, <2>1 DEF Reach, RenewerReachable, HeldBy
  <2>3. ASSUME NEW q \in Pods, stage[q] \in {"collected", "drained"},
               Rechecking(q, entry[q])
        PROVE  Rechecking(q, entry[q])'
    <3>1. PICK l \in Conns : conn[l].at = "rechecking" /\ conn[l].gen = entry[q]
                             /\ conn[l].home = q
      BY <2>3 DEF Rechecking
    <3>2. l # k
      BY <1>9, <2>3, <3>1 DEF Draining
    <3> QED
      BY <1>4, <2>1, <3>1, <3>2 DEF Rechecking, Others
  <2>4. Late'
    BY <1>5, <2>1, <2>3 DEF Reach, Late
  <2> QED
    BY <1>6, <2>2, <2>4 DEF Reach
<1> QED
  BY <1>8, <1>9

\* A renewer that ends cannot be one a holder counts on.
LEMMA RenewalReach ==
  ASSUME Base, Reach, NEW g \in Gens,
         RenewLost(g) \/ RenewFails(g) \/ RenewerCancelled(g) \/ ReleaseFails(g)
  PROVE  Reach'
<1>1. /\ renewer[g] \in {"running", "releasing"}
      /\ \/ renewer' = [renewer EXCEPT ![g] = "releasing"]
         \/ renewer' = [renewer EXCEPT ![g] = "done"]
      /\ UNCHANGED <<lease, counter, minted, cancelled, registry, conn>>
  BY DEF RenewLost, RenewFails, RenewerCancelled, ReleaseFails, redis
<1>2. renewer \in [Gens -> {"none", "running", "releasing", "done"}]
  BY DEF Base, TokensOK
<1>3. \A h \in Gens : renewer'[h] = "running" => renewer[h] = "running"
  BY <1>1, <1>2
<1>4. \A h \in Gens : renewer[h] = "none" => renewer'[h] = "none"
  <2>1. ASSUME NEW h \in Gens, renewer[h] = "none" PROVE h # g
    BY <1>1, <2>1
  <2> QED
    BY <1>1, <1>2, <2>1
<1>a. \A k \in Conns : Holding(k) => conn[k].gen \in Gens
  BY GenInRange DEF Holding, Early
<1>5. Held' /\ Unborn'
  BY <1>1, <1>4, <1>a DEF Reach, Held, Unborn, Holding, HeldBy
<1>6. RenewerReachable'
  BY <1>1, <1>3 DEF Reach, RenewerReachable, HeldBy, registry
<1>7. Late'
  BY <1>1 DEF Reach, Late, Rechecking, registry
<1> QED
  BY <1>5, <1>6, <1>7 DEF Reach

\* RELEASE_SCRIPT deletes no lease that a holder counts on.
LEMMA ReleaseLeaseReach ==
  ASSUME Base, Reach, NEW g \in Gens, ReleaseLease(g) PROVE Reach'
<1>1. /\ renewer[g] = "releasing"
      /\ renewer' = [renewer EXCEPT ![g] = "done"]
      /\ UNCHANGED <<counter, minted, cancelled, registry, conn>>
      /\ lease' = (IF HeldBy(minted[g], g) THEN NoLease ELSE lease)
  BY DEF ReleaseLease
<1>2. renewer \in [Gens -> {"none", "running", "releasing", "done"}]
  BY DEF Base, TokensOK
<1>3. \A h \in Gens : renewer'[h] = "running" => renewer[h] = "running"
  BY <1>1, <1>2
<1>4. \A h : renewer[h] = "none" => renewer'[h] = "none"
  BY <1>1, <1>2
<1>5. ASSUME NEW k \in Conns, Holding(k) PROVE lease' = lease
  <2>1. renewer[conn[k].gen] = "none" /\ HeldBy(conn[k].home, conn[k].gen)
    BY <1>5 DEF Reach, Held
  <2> QED
    BY <1>1, <2>1 DEF HeldBy
<1>6. Held'
  BY <1>1, <1>4, <1>5 DEF Reach, Held, Holding, HeldBy
<1>7. Unborn'
  BY <1>1, <1>4 DEF Reach, Unborn
<1>8. \A h \in Gens : HeldBy(minted[h], h)' => HeldBy(minted[h], h)
  BY <1>1 DEF HeldBy, NoLease
<1>9. RenewerReachable'
  BY <1>1, <1>3, <1>8 DEF Reach, RenewerReachable, registry
<1>10. Late'
  BY <1>1 DEF Reach, Late, Rechecking, registry
<1> QED
  BY <1>6, <1>7, <1>9, <1>10 DEF Reach

\* With PromptAdmission nobody holds the lease that runs out.
LEMMA ExpiryReach ==
  ASSUME PromptAdmission, Base, Reach, LeaseExpires PROVE Reach'
<1>1. /\ lease # NoLease /\ ~Awaited(lease.gen) /\ lease' = NoLease
      /\ UNCHANGED <<counter, minted, renewer, cancelled, registry, conn>>
  BY DEF LeaseExpires, tokens
<1>2. ASSUME NEW k \in Conns, Holding(k) PROVE FALSE
  <2>1. HeldBy(conn[k].home, conn[k].gen)
    BY <1>2 DEF Reach, Held
  <2>2. conn[k].acquired = lease.gen
    BY <1>2, <2>1, ConnIs DEF HeldBy, ConnInv, Holding
  <2> QED
    BY <1>1, <1>2, <2>2 DEF Awaited, Holding
<1>3. Held'
  BY <1>1, <1>2 DEF Held, Holding
<1>4. Unborn'
  BY <1>1 DEF Reach, Unborn
<1>5. RenewerReachable'
  BY <1>1 DEF RenewerReachable, HeldBy, NoLease
<1>6. Late'
  BY <1>1 DEF Reach, Late, Rechecking, registry
<1> QED
  BY <1>3, <1>4, <1>5, <1>6 DEF Reach

\* A collected entry is not a late one.
LEMMA DrainReach ==
  ASSUME Base, Reach, NEW p \in Pods, DrainFlag(p) \/ DrainCollect(p)
  PROVE  Reach'
<1>1. /\ UNCHANGED <<lease, counter, minted, renewer, cancelled, entry, conn>>
      /\ \/ /\ stage' = [stage EXCEPT ![p] = "flagged"]
            /\ UNCHANGED target
         \/ /\ stage' = [stage EXCEPT ![p] = "collected"]
            /\ target' = [target EXCEPT ![p] = entry[p]]
      /\ stage \in [Pods -> {"serving", "flagged", "collected", "drained", "down"}]
      /\ target \in [Pods -> 0..counter]
  BY DEF DrainFlag, DrainCollect, tokens, redis, Base, RegistryOK
<1>2. Held' /\ Unborn' /\ RenewerReachable'
  BY <1>1 DEF Reach, Held, Unborn, RenewerReachable, Holding, HeldBy
<1>3. \A q \in Pods : q # p => stage'[q] = stage[q] /\ target'[q] = target[q]
  BY <1>1
<1>4. stage'[p] = "flagged" \/ (stage'[p] = "collected" /\ target'[p] = entry[p])
  BY <1>1
<1>5. \A q, h : Rechecking(q, h) => Rechecking(q, h)'
  BY <1>1 DEF Rechecking
<1>6. Late'
  BY <1>1, <1>3, <1>4, <1>5 DEF Reach, Late
<1> QED
  BY <1>2, <1>6 DEF Reach

\* drain removes the entry and stops its renewer; an entry it leaves is a late one.
LEMMA DrainEntryReach ==
  ASSUME Base, Reach, NEW p \in Pods, DrainEntry(p) PROVE Reach'
<1>1. /\ UNCHANGED <<lease, counter, minted, renewer, conn>>
      /\ stage[p] = "collected"
      /\ stage' = [stage EXCEPT ![p] = "drained"]
      /\ target' = [target EXCEPT ![p] = 0]
      /\ stage \in [Pods -> {"serving", "flagged", "collected", "drained", "down"}]
      /\ target \in [Pods -> 0..counter] /\ entry \in [Pods -> 0..counter]
  BY DEF DrainEntry, redis, Base, RegistryOK
<1>2. Held' /\ Unborn'
  BY <1>1 DEF Reach, Held, Unborn, Holding, HeldBy
<1>3. \A q, h : Rechecking(q, h) => Rechecking(q, h)'
  BY <1>1 DEF Rechecking
<1>4. \A q \in Pods : q # p => stage'[q] = stage[q] /\ target'[q] = target[q]
  BY <1>1
<1>5. CASE target[p] # 0 /\ entry[p] = target[p]
  <2>1. entry' = [entry EXCEPT ![p] = 0] /\ cancelled' = cancelled \cup {target[p]}
    BY <1>5 DEF DrainEntry
  <2>2. entry'[p] = 0 /\ \A q \in Pods : q # p => entry'[q] = entry[q]
    BY <1>1, <2>1
  <2>3. RenewerReachable'
    <3>1. SUFFICES ASSUME NEW g \in Gens, renewer[g] = "running", g \notin cancelled',
                          HeldBy(minted[g], g)
                   PROVE  entry'[minted[g]] = g
      BY <1>1 DEF RenewerReachable, HeldBy
    <3>2. entry[minted[g]] = g /\ g # entry[p]
      BY <1>5, <2>1, <3>1 DEF Reach, RenewerReachable
    <3> QED
      BY <2>1, <3>2
  <2>4. Late'
    BY <1>3, <1>4, <2>2 DEF Reach, Late
  <2> QED
    BY <1>2, <2>3, <2>4 DEF Reach
<1>6. CASE ~(target[p] # 0 /\ entry[p] = target[p])
  <2>1. UNCHANGED <<entry, cancelled>>
    BY <1>6 DEF DrainEntry
  <2>2. RenewerReachable'
    BY <1>1, <2>1 DEF Reach, RenewerReachable, HeldBy
  <2>3. entry[p] # 0 => Rechecking(p, entry[p])
    BY <1>1, <1>6 DEF Reach, Late
  <2>4. Late'
    BY <1>3, <1>4, <2>1, <2>3 DEF Reach, Late
  <2> QED
    BY <1>2, <2>2, <2>4 DEF Reach
<1> QED
  BY <1>5, <1>6

\* A crash ends the pod's renewers with its registry.
LEMMA CrashReach ==
  ASSUME Base, Reach, NEW p \in Pods, Crash(p) PROVE Reach'
<1>1. /\ UNCHANGED <<lease, counter, minted, cancelled>>
      /\ stage' = [stage EXCEPT ![p] = "down"]
      /\ entry' = [entry EXCEPT ![p] = 0]
      /\ target' = [target EXCEPT ![p] = 0]
      /\ renewer' = [g \in Gens |-> IF minted[g] = p /\ renewer[g] # "none"
                                    THEN "done" ELSE renewer[g]]
      /\ conn' = [k \in Conns |-> IF conn[k].home = p THEN Over ELSE conn[k]]
  BY DEF Crash, redis
<1>2. /\ stage \in [Pods -> {"serving", "flagged", "collected", "drained", "down"}]
      /\ target \in [Pods -> 0..counter] /\ entry \in [Pods -> 0..counter]
  BY DEF Base, RegistryOK
<1>3. \A k \in Conns : Holding(k)' => Holding(k) /\ conn'[k] = conn[k]
  BY <1>1 DEF Holding, Over, NewConn
<1>4. \A k \in Conns : Holding(k) => conn[k].gen \in Gens
  BY GenInRange DEF Holding, Early
<1>5. \A g \in Gens : renewer[g] = "none" => renewer'[g] = "none"
  BY <1>1
<1>6. Held'
  BY <1>1, <1>3, <1>4, <1>5 DEF Reach, Held, HeldBy
<1>7. Unborn'
  BY <1>1, <1>5 DEF Reach, Unborn
<1>8. RenewerReachable'
  <2>1. SUFFICES ASSUME NEW g \in Gens, renewer'[g] = "running", g \notin cancelled,
                        HeldBy(minted[g], g)
                 PROVE  entry'[minted[g]] = g
    BY <1>1 DEF RenewerReachable, HeldBy
  <2>2. minted[g] # p /\ renewer[g] = "running"
    BY <1>1, <2>1
  <2>3. entry[minted[g]] = g
    BY <2>1, <2>2 DEF Reach, RenewerReachable
  <2> QED
    BY <1>1, <1>2, <2>2, <2>3
<1>9. Late'
  <2>1. SUFFICES ASSUME NEW q \in Pods, stage'[q] \in {"collected", "drained"},
                        entry'[q] # 0, stage'[q] = "collected" => entry'[q] # target'[q]
                 PROVE  Rechecking(q, entry[q])'
    BY DEF Late
  <2>2. q # p /\ stage'[q] = stage[q] /\ entry'[q] = entry[q] /\ target'[q] = target[q]
    BY <1>1, <1>2, <2>1
  <2>3. PICK k \in Conns : conn[k].at = "rechecking" /\ conn[k].gen = entry[q]
                           /\ conn[k].home = q
    BY <2>1, <2>2 DEF Reach, Late, Rechecking
  <2>4. conn'[k] = conn[k]
    BY <1>1, <2>2, <2>3
  <2> QED
    BY <2>2, <2>3, <2>4 DEF Rechecking
<1> QED
  BY <1>6, <1>7, <1>8, <1>9 DEF Reach

\* release is fenced on the generation and stops the renewer it removes.
LEMMA ReleaseEntryReach ==
  ASSUME Base, Reach, NEW k \in Conns, ReleaseEntry(k) PROVE Reach'
<1> DEFINE p == conn[k].home
           g == conn[k].gen
<1>1. conn[k].at = "releasing" /\ UNCHANGED <<lease, counter, minted, renewer, stage, target>>
  BY DEF ReleaseEntry, redis
<1>2. Same(k)
  BY <1>1, EndSame DEF ReleaseEntry
<1>3. Held'
  BY <1>1, <1>2, HeldKept DEF Reach
<1>4. Unborn'
  BY <1>1 DEF Reach, Unborn
<1>5. entry \in [Pods -> 0..counter]
  BY DEF Base, RegistryOK
<1>6. \/ /\ entry[p] = g /\ entry' = [entry EXCEPT ![p] = 0]
         /\ cancelled' = cancelled \cup {g}
      \/ UNCHANGED <<entry, cancelled>>
  BY DEF ReleaseEntry
<1>7. RenewerReachable'
  <2>1. SUFFICES ASSUME NEW h \in Gens, renewer[h] = "running", h \notin cancelled',
                        HeldBy(minted[h], h)
                 PROVE  entry'[minted[h]] = h
    BY <1>1 DEF RenewerReachable, HeldBy
  <2>2. h \notin cancelled
    BY <1>6, <2>1
  <2>3. entry[minted[h]] = h
    BY <2>1, <2>2 DEF Reach, RenewerReachable
  <2>4. CASE UNCHANGED <<entry, cancelled>>
    BY <2>3, <2>4
  <2>5. CASE entry[p] = g /\ entry' = [entry EXCEPT ![p] = 0] /\ cancelled' = cancelled \cup {g}
    <3>1. minted[h] # p
      BY <2>1, <2>3, <2>5
    <3> QED
      BY <2>3, <2>5, <3>1
  <2> QED
    BY <1>6, <2>4, <2>5
<1>8. \A q \in Pods : entry'[q] # 0 => entry'[q] = entry[q]
  BY <1>5, <1>6
<1>9. \A q, h : Rechecking(q, h) => \E l \in Conns :
        conn'[l].at = "rechecking" /\ conn'[l].gen = h /\ conn'[l].home = q
  BY <1>2 DEF Rechecking, Same, Others
<1>10. Late'
  BY <1>1, <1>8, <1>9 DEF Reach, Late, Rechecking
<1> QED
  BY <1>3, <1>4, <1>7, <1>10 DEF Reach

\* Steps on the owner's side of a stream touch none of this.
LEMMA StreamReach ==
  ASSUME Reach, UNCHANGED <<lease, counter, tokens, registry, conn>>
  PROVE  Reach'
<1>1. Held' /\ Unborn' /\ RenewerReachable'
  BY DEF Reach, Held, Unborn, RenewerReachable, Holding, HeldBy, tokens, registry
<1>2. Late'
  BY DEF Reach, Late, Rechecking, registry
<1> QED
  BY <1>1, <1>2 DEF Reach

\* Reach holds initially ...
LEMMA ReachInit == ASSUME Init PROVE Reach
<1>1. Held
  BY DEF Init, Held, Holding, NewConn
<1>2. Unborn
  BY DEF Init, Unborn
<1>3. RenewerReachable
  BY DEF Init, RenewerReachable
<1>4. Late
  BY DEF Init, Late
<1> QED
  BY <1>1, <1>2, <1>3, <1>4 DEF Reach

\* ... and is preserved by every step.
LEMMA ReachNext ==
  ASSUME PromptAdmission, Base, Reach, [Next]_vars PROVE Reach'
<1>1. ASSUME NEW k \in Conns,
             \/ Lookup(k) \/ CheckOwner(k) \/ Validate(k) \/ ArchivedCheck(k)
             \/ Refused(k) \/ Admit(k) \/ PassDrainCheck(k) \/ PassEntryCheck(k)
             \/ Dial(k) \/ DialSucceeds(k)
      PROVE  Reach'
  <2>1. UNCHANGED <<lease, counter, tokens, registry>>
    BY <1>1 DEF Lookup, CheckOwner, Validate, ArchivedCheck, Refused, Admit,
       PassDrainCheck, PassEntryCheck, Dial, DialSucceeds, redis
  <2> QED
    BY <1>1, <2>1, JoinSame, QuietKept
<1>2. ASSUME NEW k \in Conns, (\E p \in Pods : Arrive(k, p)) \/ EnterRoom(k) \/ Reuse(k)
      PROVE  Reach'
  <2>1. UNCHANGED <<lease, counter, tokens, registry>>
    BY <1>2 DEF Arrive, EnterRoom, Reuse, redis
  <2> QED
    BY <1>2, <2>1, ArriveSame, EnterSame, ReuseSame, QuietKept
<1>3. ASSUME NEW k \in Conns, Joining(k) PROVE Reach'
  BY <1>1, <1>2, <1>3, AcquireReach, AttachReach, InsertReach, RecheckReach, Zenon
     DEF Joining
<1>4. ASSUME NEW k \in Conns,
             \/ Leave(k) \/ ClosedForRejoin(k) \/ RemovePeer(k) \/ Archive(k)
             \/ Cleanup(k) \/ DialEnds(k)
             \/ RedisFails(k) \/ ArchivedCheckFails(k) \/ ArchiveFails(k)
      PROVE  Reach'
  <2>1. UNCHANGED <<lease, counter, tokens, registry>>
    BY <1>4 DEF Leave, ClosedForRejoin, RemovePeer, Archive, Cleanup, DialEnds,
       RedisFails, ArchivedCheckFails, ArchiveFails, redis
  <2> QED
    BY <1>4, <2>1, LeaveSame, QuietKept
<1>5. ASSUME NEW k \in Conns, Serving(k) \/ FenceFails(k) \/ RosterSendFails(k)
      PROVE  Reach'
  <2>1. UNCHANGED <<lease, counter, tokens, registry, conn>>
    BY <1>5 DEF Serving, Accept, Register, Fence, FenceFails, RosterSendFails, RegisterRemotePeer,
       StreamEnds, redis
  <2> QED
    BY <2>1, StreamReach
<1>6. ASSUME NEW k \in Conns, Leaving(k) \/ Leave(k) \/ DialEnds(k) \/ Failing(k)
      PROVE  Reach'
  BY <1>4, <1>5, <1>6, ReleaseEntryReach, UnansweredReach, Zenon DEF Leaving, Failing
<1>7. ASSUME NEW g \in Gens, Renewing(g) \/ RenewFails(g) \/ ReleaseFails(g)
      PROVE  Reach'
  BY <1>7, RenewalReach, ReleaseLeaseReach, Zenon DEF Renewing
<1>8. ASSUME NEW p \in Pods, DrainFlag(p) \/ Shutdown(p) \/ Crash(p)
      PROVE  Reach'
  BY <1>8, DrainReach, DrainEntryReach, CrashReach, Zenon DEF Shutdown
<1>9. CASE UNCHANGED vars
  BY <1>9, StreamReach DEF vars, redis
<1> QED
  BY <1>3, <1>5, <1>6, <1>7, <1>8, <1>9, ExpiryReach, Zenon DEF Next

\* After drain_all a renewer that still holds the lease belongs to a late entry.
LEMMA ReachDrained == ASSUME Base, Reach PROVE DrainedNotRenewed
<1> SUFFICES ASSUME NEW g \in Gens, minted[g] # NoPod, stage[minted[g]] = "drained",
                    renewer[g] = "running", g \notin cancelled, HeldBy(minted[g], g)
             PROVE  \E k \in Conns : conn[k].at = "rechecking" /\ conn[k].gen = g
  BY DEF DrainedNotRenewed
<1>1. minted[g] \in Pods /\ entry[minted[g]] = g /\ g # 0
  BY DEF Reach, RenewerReachable, Base, TokensOK
<1>2. Rechecking(minted[g], g)
  BY <1>1 DEF Reach, Late
<1> QED
  BY <1>2 DEF Rechecking

\* If no lease runs out between acquire and attach, a renewer that goes on holding the
\* lease is always the one HuddleOwnerRegistry knows, so release and drain can stop it.
THEOREM RenewersReachable == PromptAdmission => (Spec => []RenewerReachable)
<1> SUFFICES ASSUME PromptAdmission PROVE Spec => []RenewerReachable
  OBVIOUS
<1>1. Init => Base /\ Reach
  BY BaseInit, ReachInit
<1>2. Base /\ Reach /\ [Next]_vars => Base' /\ Reach'
  BY BaseNext, ReachNext
<1>3. Reach => RenewerReachable
  BY DEF Reach
<1> QED
  BY <1>1, <1>2, <1>3, PTL DEF Spec

\* Under the same assumption drain_all leaves no renewer behind that nobody will stop:
\* whatever joins raced it, the only one left is about to be stopped by its own recheck.
THEOREM DrainStopsRenewers == PromptAdmission => (Spec => []DrainedNotRenewed)
<1> SUFFICES ASSUME PromptAdmission PROVE Spec => []DrainedNotRenewed
  OBVIOUS
<1>1. Init => Base /\ Reach
  BY BaseInit, ReachInit
<1>2. Base /\ Reach /\ [Next]_vars => Base' /\ Reach'
  BY BaseNext, ReachNext
<1>3. Base /\ Reach => DrainedNotRenewed
  BY ReachDrained
<1> QED
  BY <1>1, <1>2, <1>3, PTL DEF Spec

(***************************************************************************)
(* No peer outlives its connection                                         *)
(***************************************************************************)
\* Phases in which a local connection is a peer of its room, and those before it dials.
Peered == {"attaching", "inserting", "spawning", "rechecking", "in", "leaving"}

Undialed == {"new", "resolving", "acquiring", "checking", "validating", "entering",
             "entered", "dialing"}

\* A live room is the room of one pod, and who holds on to it belongs to that pod.
OwnRooms ==
    /\ \A p, q \in Pods : live[p] # 0 /\ live[p] = live[q] => p = q
    /\ \A p \in Pods, k \in Conns : live[p] # 0 /\ conn[k].room = live[p] => conn[k].home = p
    /\ \A p \in Pods, k \in Conns : live[p] # 0 /\ ctl[k].room = live[p] => ctl[k].owner = p

\* A connection that has not begun holds no room, one that has not dialled has no stream.
NotBegun ==
    \A k \in Conns : /\ conn[k].at = "new" => conn[k].room = 0
                     /\ conn[k].at \in Undialed => ctl[k] = NoStream

\* k is in the room of p because it is still in it itself, or a stream of it is served.
Attended(k, p) ==
    \/ conn[k].home = p /\ conn[k].at \in Peered /\ conn[k].room = live[p]
    \/ ctl[k].owner = p /\ ctl[k].at \in {"serving", "cut"}

AllAttended == \A p \in Pods : live[p] # 0 => \A k \in rooms[live[p]].peers : Attended(k, p)

GhostInv == OwnRooms /\ NotBegun /\ AllAttended

\* What a step may do to the connection and to the stream of k.
ConnMild(k) ==
    /\ conn'[k].room \in {0, conn[k].room}
    /\ conn'[k].room # 0 => conn'[k].home = conn[k].home
    /\ conn'[k].at \in Undialed => conn[k].at \in Undialed
    /\ conn'[k].at = "new" => conn[k].at = "new"

ConnStays(k) ==
    conn[k].at \in Peered =>
        conn'[k].at \in Peered /\ conn'[k].home = conn[k].home /\ conn'[k].room = conn[k].room

StreamMild(k) ==
    /\ ctl'[k].room \in {0, ctl[k].room}
    /\ ctl'[k].room # 0 => ctl'[k].owner = ctl[k].owner
    /\ ctl[k] = NoStream /\ conn'[k].at \in Undialed => ctl'[k] = NoStream

StreamStays(k) ==
    ctl[k].at \in {"serving", "cut"} => ctl'[k].at \in {"serving", "cut"} /\ ctl'[k].owner = ctl[k].owner

\* No pod gets another room.
NoNewRoom == \A p \in Pods : live'[p] \in {0, live[p]}

\* A step that creates no room keeps the rooms apart, ...
LEMMA RoomsKept ==
  ASSUME GhostInv, NoNewRoom, \A k \in Conns : ConnMild(k) /\ StreamMild(k)
  PROVE  OwnRooms' /\ NotBegun'
<1>1. \A p \in Pods : live'[p] # 0 => live'[p] = live[p] /\ live[p] # 0
  BY DEF NoNewRoom
<1>2. \A k \in Conns : /\ conn'[k].room # 0 => conn'[k].room = conn[k].room /\ conn'[k].home = conn[k].home
                       /\ ctl'[k].room # 0 => ctl'[k].room = ctl[k].room /\ ctl'[k].owner = ctl[k].owner
  BY DEF ConnMild, StreamMild
<1>3. OwnRooms'
  BY <1>1, <1>2 DEF OwnRooms, GhostInv
<1>4. NotBegun'
  <2> SUFFICES ASSUME NEW k \in Conns
               PROVE  /\ conn'[k].at = "new" => conn'[k].room = 0
                      /\ conn'[k].at \in Undialed => ctl'[k] = NoStream
    BY DEF NotBegun, NoStream
  <2> QED
    BY DEF GhostInv, NotBegun, ConnMild, StreamMild
<1> QED
  BY <1>3, <1>4

\* ... and one that adds no peer and attends to those there are keeps the invariant.
LEMMA PeersKept ==
  ASSUME GhostInv, NoNewRoom, \A k \in Conns : ConnMild(k) /\ StreamMild(k),
         \A p \in Pods : live'[p] # 0 =>
             \A k \in rooms'[live'[p]].peers :
                 \/ Attended(k, p)'
                 \/ k \in rooms[live[p]].peers /\ k \in Conns /\ ConnStays(k) /\ StreamStays(k)
  PROVE  GhostInv'
<1>1. SUFFICES ASSUME NEW p \in Pods, live'[p] # 0, NEW k \in rooms'[live'[p]].peers,
                      k \in rooms[live[p]].peers, ConnStays(k), StreamStays(k)
               PROVE  Attended(k, p)'
  BY RoomsKept DEF GhostInv, AllAttended
<1>2. live'[p] = live[p] /\ live[p] # 0
  BY <1>1 DEF NoNewRoom
<1>3. Attended(k, p)
  BY <1>1, <1>2 DEF GhostInv, AllAttended
<1> QED
  BY <1>1, <1>2, <1>3 DEF Attended, ConnStays, StreamStays

\* The steps of one connection: it ends outside the room, ...
LEMMA EndMild ==
  ASSUME Base, NEW k \in Conns, End(k), conn[k].at \notin Peered
  PROVE  \A l \in Conns : ConnMild(l) /\ ConnStays(l)
<1>1. conn' = [conn EXCEPT ![k] = Over] /\ conn \in [Conns -> ConnType]
  BY DEF End, Base, ConnsOK
<1>2. ASSUME NEW l \in Conns, l # k PROVE ConnMild(l) /\ ConnStays(l)
  <2>1. conn'[l] = conn[l]
    BY <1>1, <1>2
  <2> QED
    BY <2>1 DEF ConnMild, ConnStays
<1>3. conn'[k] = Over
  BY <1>1
<1>4. ConnMild(k) /\ ConnStays(k)
  BY <1>3 DEF ConnMild, ConnStays, Over, NewConn, Undialed
<1> QED
  BY <1>2, <1>4

\* ... or keeps room and pod.
LEMMA MoveMild ==
  ASSUME Base, NEW k \in Conns, Others(k),
         conn'[k].room = conn[k].room,
         conn'[k].home = conn[k].home \/ conn[k].room = 0,
         conn'[k].at # "new", conn'[k].at \in Undialed => conn[k].at \in Undialed,
         conn[k].at \in Peered => conn'[k].at \in Peered /\ conn'[k].home = conn[k].home
  PROVE  \A l \in Conns : ConnMild(l) /\ ConnStays(l)
<1>1. ASSUME NEW l \in Conns, l # k PROVE ConnMild(l) /\ ConnStays(l)
  <2>1. conn'[l] = conn[l]
    BY <1>1 DEF Others
  <2> QED
    BY <2>1 DEF ConnMild, ConnStays
<1>2. ConnMild(k) /\ ConnStays(k)
  BY DEF ConnMild, ConnStays
<1> QED
  BY <1>1, <1>2

LEMMA GotoMild ==
  ASSUME Base, NEW k \in Conns, NEW at \in ConnPhases, Goto(k, at), at # "new",
         at \in Undialed => conn[k].at \in Undialed, conn[k].at \in Peered => at \in Peered
  PROVE  \A l \in Conns : ConnMild(l) /\ ConnStays(l)
<1>1. conn' = [conn EXCEPT ![k].at = at] /\ conn \in [Conns -> ConnType]
  BY DEF Goto, Base, ConnsOK
<1>2. Others(k)
  BY <1>1 DEF Others
<1>3. conn'[k].at = at /\ conn'[k].room = conn[k].room /\ conn'[k].home = conn[k].home
  BY <1>1 DEF ConnType
<1> QED
  BY <1>2, <1>3, MoveMild

LEMMA SameConns ==
  ASSUME UNCHANGED conn PROVE \A l \in Conns : ConnMild(l) /\ ConnStays(l)
  BY DEF ConnMild, ConnStays

LEMMA SameStreams ==
  ASSUME UNCHANGED ctl PROVE \A l \in Conns : StreamMild(l) /\ StreamStays(l)
  BY DEF StreamMild, StreamStays

\* A step that does nothing to the rooms but clean up.
LEMMA QuietGhosts ==
  ASSUME Base, GhostInv, NoNewRoom, UNCHANGED rooms,
         \A l \in Conns : ConnMild(l) /\ ConnStays(l) /\ StreamMild(l) /\ StreamStays(l)
  PROVE  GhostInv'
<1>1. \A p \in Pods : live'[p] # 0 => live'[p] = live[p] /\ rooms[live[p]].peers \subseteq Conns
  BY DEF NoNewRoom, Base, SpaceOK
<1>2. \A p \in Pods : live'[p] # 0 =>
        \A k \in rooms'[live'[p]].peers : k \in rooms[live[p]].peers /\ k \in Conns /\ ConnStays(k) /\ StreamStays(k)
  BY <1>1
<1> QED
  BY <1>2, PeersKept

LEMMA CleanupNoNewRoom ==
  ASSUME Base, NEW p \in Pods, CleanupIfEmpty(p) PROVE NoNewRoom
  BY DEF CleanupIfEmpty, NoNewRoom, Base, SpaceOK

LEMMA SameRooms == ASSUME UNCHANGED live PROVE NoNewRoom
  BY DEF NoNewRoom

\* Joining, up to the room, ...
LEMMA ArriveGhosts ==
  ASSUME Base, GhostInv, NEW k \in Conns, NEW p \in Pods, Arrive(k, p) PROVE GhostInv'
<1>1. UNCHANGED <<live, rooms, ctl>> /\ conn[k].at = "new" /\ conn[k].room = 0
  BY DEF Arrive, space, GhostInv, NotBegun
<1>2. CASE End(k)
  BY <1>1, <1>2, EndMild, SameStreams, SameRooms, QuietGhosts DEF Peered
<1>3. CASE ~End(k)
  <2>1. conn' = [conn EXCEPT ![k].home = p, ![k].at = "resolving"] /\ conn \in [Conns -> ConnType]
    BY <1>3 DEF Arrive, Base, ConnsOK
  <2>2. Others(k) /\ conn'[k].at = "resolving" /\ conn'[k].room = conn[k].room
    BY <2>1 DEF Others, ConnType
  <2>3. \A l \in Conns : ConnMild(l) /\ ConnStays(l)
    BY <1>1, <2>2, MoveMild DEF Undialed, Peered
  <2> QED
    BY <1>1, <2>3, SameStreams, SameRooms, QuietGhosts
<1> QED
  BY <1>2, <1>3

LEMMA RouteMild ==
  ASSUME Base, NEW k \in Conns, Route(k), conn[k].at \in Undialed
  PROVE  \A l \in Conns : ConnMild(l) /\ ConnStays(l)
<1>1. conn \in [Conns -> ConnType]
  BY DEF Base, ConnsOK
<1>2. Others(k) /\ conn'[k].room = conn[k].room /\ conn'[k].home = conn[k].home
      /\ conn'[k].at \in {"checking", "validating"}
  BY <1>1 DEF Route, Others, ConnType
<1>3. conn[k].at \notin Peered
  BY DEF Undialed, Peered
<1> QED
  BY <1>2, <1>3, MoveMild

LEMMA AcquireMild ==
  ASSUME Base, NEW k \in Conns, Acquire(k)
  PROVE  \A l \in Conns : ConnMild(l) /\ ConnStays(l)
<1>1. conn[k].at = "acquiring" /\ conn[k].at \in Undialed
  BY DEF Acquire, Undialed
<1>2. CASE Route(k)
  BY <1>1, <1>2, RouteMild
<1>3. CASE ~Route(k)
  <2>1. /\ conn' = [conn EXCEPT ![k].owner = conn[k].home, ![k].gen = counter',
                                ![k].acquired = counter', ![k].at = "entering"]
        /\ conn \in [Conns -> ConnType]
    BY <1>3 DEF Acquire, Base, ConnsOK
  <2>2. Others(k) /\ conn'[k].room = conn[k].room /\ conn'[k].home = conn[k].home /\ conn'[k].at = "entering"
    BY <2>1 DEF Others, ConnType
  <2> QED
    BY <1>1, <2>2, MoveMild DEF Peered
<1> QED
  BY <1>2, <1>3

LEMMA ResolveGhosts ==
  ASSUME Base, GhostInv, NEW k \in Conns,
         \/ Lookup(k) \/ Acquire(k) \/ AcquireUnanswered(k) \/ CheckOwner(k) \/ Validate(k)
         \/ RedisFails(k) \/ Refused(k)
  PROVE  GhostInv'
<1>1. UNCHANGED <<live, rooms, ctl>>
  BY DEF Lookup, Acquire, AcquireUnanswered, CheckOwner, Validate, RedisFails, Refused, space
<1>2. \A l \in Conns : ConnMild(l) /\ ConnStays(l)
  <2>1. CASE Lookup(k)
    <3>1. conn[k].at = "resolving" /\ (Goto(k, "acquiring") \/ Route(k))
      BY <2>1 DEF Lookup
    <3> QED
      BY <3>1, GotoMild, RouteMild DEF Undialed, Peered, ConnPhases
  <2>2. CASE CheckOwner(k)
    <3>1. conn[k].at = "checking" /\ (Goto(k, "entering") \/ Goto(k, "resolving") \/ End(k))
      BY <2>2 DEF CheckOwner
    <3> QED
      BY <3>1, GotoMild, EndMild DEF Undialed, Peered, ConnPhases
  <2>3. CASE Validate(k)
    <3>1. conn[k].at = "validating" /\ (Goto(k, "entering") \/ End(k))
      BY <2>3 DEF Validate
    <3> QED
      BY <3>1, GotoMild, EndMild DEF Undialed, Peered, ConnPhases
  <2>4. CASE AcquireUnanswered(k) \/ RedisFails(k) \/ Refused(k)
    <3>1. End(k) /\ conn[k].at \in {"resolving", "acquiring", "validating", "dialing", "admitting"}
      BY <2>4 DEF AcquireUnanswered, RedisFails, Refused
    <3> QED
      BY <3>1, EndMild DEF Peered
  <2> QED
    BY <2>1, <2>2, <2>3, <2>4, AcquireMild
<1> QED
  BY <1>1, <1>2, SameStreams, SameRooms, QuietGhosts

\* A room that is created is nobody else's, and is empty.
LEMMA CreateGhosts ==
  ASSUME Base, GhostInv, NEW p \in Pods, NEW r \in Rooms, GetOrCreate(p, r),
         \A l \in Conns : conn'[l].room \in {0, conn[l].room} \/ (conn'[l].room = r /\ conn'[l].home = p),
         \A l \in Conns : conn'[l].room \notin {0, r} => conn'[l].home = conn[l].home,
         \A l \in Conns : conn'[l].room = r /\ conn[l].room = r => conn'[l].home = conn[l].home,
         \A l \in Conns : ctl'[l].room \in {0, ctl[l].room} \/ (ctl'[l].room = r /\ ctl'[l].owner = p),
         \A l \in Conns : ctl'[l].room # 0 => ctl'[l].owner = ctl[l].owner,
         \A l \in Conns : ConnStays(l) /\ StreamStays(l), NotBegun'
  PROVE  GhostInv'
<1>1. r # 0 /\ live \in [Pods -> 0..MaxRooms] /\ rooms \in [Rooms -> [peers : SUBSET Conns, ended : BOOLEAN]]
  BY DEF Base, SpaceOK
<1>2. live'[p] = r /\ \A o \in Pods \ {p} : live'[o] = live[o] /\ live'[o] # r
  <2>1. CASE live[p] # 0
    BY <1>1, <2>1 DEF GetOrCreate, GhostInv, OwnRooms
  <2>2. CASE live[p] = 0
    BY <1>1, <2>2 DEF GetOrCreate, Referenced
  <2> QED
    BY <2>1, <2>2
<1>3. live[p] # r => \A l \in Conns : conn[l].room # r /\ ctl[l].room # r
  BY DEF GetOrCreate, Referenced
<1>4. /\ \A l \in Conns : live[p] = r /\ conn[l].room = r => conn[l].home = p
      /\ \A l \in Conns : live[p] = r /\ ctl[l].room = r => ctl[l].owner = p
  BY <1>1 DEF GhostInv, OwnRooms
<1>5. OwnRooms'
  <2>1. \A o, u \in Pods : live'[o] # 0 /\ live'[o] = live'[u] => o = u
    BY <1>2 DEF GhostInv, OwnRooms
  <2>2. ASSUME NEW o \in Pods, NEW l \in Conns, live'[o] # 0, conn'[l].room = live'[o] PROVE conn'[l].home = o
    <3>1. CASE o = p
      BY <1>2, <1>3, <1>4, <2>2, <3>1
    <3>2. CASE o # p
      BY <1>2, <2>2, <3>2 DEF GhostInv, OwnRooms
    <3> QED
      BY <3>1, <3>2
  <2>3. ASSUME NEW o \in Pods, NEW l \in Conns, live'[o] # 0, ctl'[l].room = live'[o] PROVE ctl'[l].owner = o
    <3>1. CASE o = p
      BY <1>2, <1>3, <1>4, <2>3, <3>1
    <3>2. CASE o # p
      BY <1>2, <2>3, <3>2 DEF GhostInv, OwnRooms
    <3> QED
      BY <3>1, <3>2
  <2> QED
    BY <2>1, <2>2, <2>3 DEF OwnRooms
<1>6. AllAttended'
  <2> SUFFICES ASSUME NEW o \in Pods, live'[o] # 0, NEW k \in rooms'[live'[o]].peers
               PROVE  Attended(k, o)'
    BY DEF AllAttended
  <2>1. CASE live[p] = 0 /\ o = p
    <3>1. rooms'[r].peers = {}
      BY <1>1, <2>1 DEF GetOrCreate, EmptyRoom
    <3> QED
      BY <1>2, <2>1, <3>1
  <2>2. CASE live[p] # 0 \/ o # p
    <3>1. live'[o] = live[o] /\ rooms'[live[o]] = rooms[live[o]] /\ live[o] # 0 /\ live[o] \in Rooms
      BY <1>1, <1>2, <2>2 DEF GetOrCreate
    <3>2. Attended(k, o) /\ k \in Conns
      BY <1>1, <3>1 DEF GhostInv, AllAttended
    <3> QED
      BY <3>1, <3>2 DEF Attended, ConnStays, StreamStays
  <2> QED
    BY <2>1, <2>2
<1> QED
  BY <1>5, <1>6 DEF GhostInv

LEMMA EnterGhosts ==
  ASSUME Base, GhostInv, NEW k \in Conns, EnterRoom(k) PROVE GhostInv'
<1>1. conn[k].at = "entering" /\ conn[k].home \in Pods /\ conn \in [Conns -> ConnType] /\ UNCHANGED ctl
  BY ConnIs DEF EnterRoom, ConnInv, Base, ConnsOK
<1>2. PICK r \in Rooms : GetOrCreate(conn[k].home, r)
                         /\ conn' = [conn EXCEPT ![k].room = r, ![k].at = "entered"]
  BY DEF EnterRoom
<1>3. /\ \A l \in Conns : l # k => conn'[l] = conn[l]
      /\ conn'[k].room = r /\ conn'[k].at = "entered" /\ conn'[k].home = conn[k].home
  BY <1>1, <1>2 DEF ConnType
<1>4. \A l \in Conns : ConnStays(l)
  BY <1>1, <1>3 DEF ConnStays, Peered
<1>5. NotBegun'
  BY <1>1, <1>3 DEF GhostInv, NotBegun, Undialed, NoStream
<1>6. \A l \in Conns : conn'[l].home = conn[l].home
                       /\ (conn'[l].room = conn[l].room \/ (conn'[l].room = r /\ conn'[l].home = conn[k].home))
  BY <1>3
<1>7. \A l \in Conns : ctl'[l].room = ctl[l].room /\ ctl'[l].owner = ctl[l].owner /\ StreamStays(l)
  BY <1>1 DEF StreamStays
<1> QED
  BY <1>1, <1>2, <1>4, <1>5, <1>6, <1>7, CreateGhosts

LEMMA RegisterGhosts ==
  ASSUME Base, GhostInv, NEW k \in Conns, Register(k) PROVE GhostInv'
<1>1. ctl[k].at = "open" /\ ctl[k].owner \in Pods /\ ctl \in [Conns -> StreamType] /\ UNCHANGED conn
  BY DEF Register, Base, StreamsOK
<1>2. conn[k].at \notin Undialed
  BY <1>1 DEF GhostInv, NotBegun, NoStream
<1>3. CASE Draining(ctl[k].owner)
  <2>1. ctl' = [ctl EXCEPT ![k] = Closed] /\ UNCHANGED <<live, rooms>>
    BY <1>3 DEF Register
  <2>2. ctl'[k] = Closed /\ \A l \in Conns : l # k => ctl'[l] = ctl[l]
    BY <1>1, <2>1
  <2>3. \A l \in Conns : StreamMild(l) /\ StreamStays(l)
    BY <1>1, <1>2, <2>2 DEF StreamMild, StreamStays, Closed, NoStream
  <2> QED
    BY <1>1, <2>1, <2>3, SameConns, SameRooms, QuietGhosts
<1>4. CASE ~Draining(ctl[k].owner)
  <2>1. PICK r \in Rooms : GetOrCreate(ctl[k].owner, r)
                           /\ ctl' = [ctl EXCEPT ![k].at = "fencing", ![k].room = r]
    BY <1>4 DEF Register
  <2>2. /\ \A l \in Conns : l # k => ctl'[l] = ctl[l]
        /\ ctl'[k].room = r /\ ctl'[k].at = "fencing" /\ ctl'[k].owner = ctl[k].owner
    BY <1>1, <2>1 DEF StreamType
  <2>3. \A l \in Conns : StreamStays(l)
    BY <1>1, <2>2 DEF StreamStays
  <2>4. NotBegun'
    BY <1>1, <1>2, <2>2 DEF GhostInv, NotBegun, NoStream
  <2>5. \A l \in Conns : ctl'[l].owner = ctl[l].owner
                         /\ (ctl'[l].room = ctl[l].room \/ (ctl'[l].room = r /\ ctl'[l].owner = ctl[k].owner))
    BY <2>2
  <2>6. \A l \in Conns : conn'[l].room = conn[l].room /\ conn'[l].home = conn[l].home /\ ConnStays(l)
    BY <1>1 DEF ConnStays
  <2> QED
    BY <1>1, <2>1, <2>3, <2>4, <2>5, <2>6, CreateGhosts
<1> QED
  BY <1>3, <1>4

\* ... the steps around the room that only clean up, ...
LEMMA CleanupGhosts ==
  ASSUME Base, GhostInv, NEW k \in Conns,
         ArchivedCheck(k) \/ ArchivedCheckFails(k) \/ DialEnds(k) \/ Cleanup(k)
  PROVE  GhostInv'
<1>1. conn[k].at \in {"entered", "dialing", "awaiting", "cleaning"} /\ UNCHANGED <<rooms, ctl>>
  BY DEF ArchivedCheck, ArchivedCheckFails, DialEnds, Cleanup
<1>2. conn[k].home \in Pods
  BY <1>1, ConnIs DEF ConnInv
<1>3. NoNewRoom
  BY <1>2, CleanupNoNewRoom, SameRooms DEF ArchivedCheck, ArchivedCheckFails, DialEnds, Cleanup
<1>4. \/ End(k) \/ Goto(k, "releasing")
      \/ conn[k].at = "entered" /\ (Goto(k, "dialing") \/ Goto(k, "admitting"))
  BY DEF ArchivedCheck, ArchivedCheckFails, DialEnds, Cleanup
<1>5. \A l \in Conns : ConnMild(l) /\ ConnStays(l)
  BY <1>1, <1>4, EndMild, GotoMild DEF Undialed, Peered, ConnPhases
<1> QED
  BY <1>1, <1>3, <1>5, SameStreams, QuietGhosts

\* ... being admitted, which makes a peer of the connection, ...
LEMMA AdmitGhosts ==
  ASSUME Base, GhostInv, NEW k \in Conns, Admit(k) PROVE GhostInv'
<1>1. conn[k].at = "admitting" /\ UNCHANGED <<live, ctl>> /\ conn \in [Conns -> ConnType]
  BY DEF Admit, Base, ConnsOK
<1>2. CASE End(k) /\ UNCHANGED rooms
  BY <1>1, <1>2, EndMild, SameStreams, SameRooms, QuietGhosts DEF Peered
<1>3. CASE AddPeer(k, conn[k].room) /\ (Goto(k, "in") \/ Goto(k, "attaching"))
  <2>1. \A l \in Conns : ConnMild(l) /\ ConnStays(l)
    BY <1>1, <1>3, GotoMild DEF Undialed, Peered, ConnPhases
  <2>2. conn'[k].at \in Peered /\ conn'[k].home = conn[k].home /\ conn'[k].room = conn[k].room
    BY <1>1, <1>3 DEF Goto, ConnType, Peered
  <2>3. live \in [Pods -> 0..MaxRooms] /\ rooms \in [Rooms -> [peers : SUBSET Conns, ended : BOOLEAN]]
    BY DEF Base, SpaceOK
  <2>4. ASSUME NEW p \in Pods, live'[p] # 0, NEW l \in rooms'[live'[p]].peers
        PROVE  \/ Attended(l, p)'
               \/ l \in rooms[live[p]].peers /\ l \in Conns /\ ConnStays(l) /\ StreamStays(l)
    <3>1. live[p] \in Rooms /\ live'[p] = live[p]
      BY <1>1, <2>3, <2>4
    <3>2. CASE l \in rooms[live[p]].peers
      BY <1>1, <2>1, <2>3, <3>1, <3>2, SameStreams
    <3>3. CASE l \notin rooms[live[p]].peers
      <4>1. l = k /\ live[p] = conn[k].room
        BY <1>3, <2>3, <2>4, <3>1, <3>3 DEF AddPeer
      <4>2. conn[k].home = p
        BY <2>4, <3>1, <4>1 DEF GhostInv, OwnRooms
      <4> QED
        BY <2>2, <3>1, <4>1, <4>2 DEF Attended
    <3> QED
      BY <3>2, <3>3
  <2> QED
    BY <1>1, <2>1, <2>4, SameStreams, SameRooms, PeersKept
<1> QED
  BY <1>2, <1>3 DEF Admit

LEMMA WatchingMild ==
  ASSUME Base, NEW k \in Conns, NEW g, NEW at \in Peered, Watching(k, g, at), conn[k].at \in Peered
  PROVE  \A l \in Conns : ConnMild(l) /\ ConnStays(l)
<1>1. conn' = [conn EXCEPT ![k].watch = g, ![k].at = at] /\ conn \in [Conns -> ConnType]
  BY DEF Watching, Base, ConnsOK
<1>2. Others(k) /\ conn'[k].at = at /\ conn'[k].room = conn[k].room /\ conn'[k].home = conn[k].home
  BY <1>1 DEF Others, ConnType
<1>3. at # "new" /\ at \notin Undialed
  BY DEF Peered, Undialed
<1> QED
  BY <1>2, <1>3, MoveMild

\* ... attaching, dialling and leaving, up to the removal, ...
LEMMA AttachGhosts ==
  ASSUME Base, GhostInv, NEW k \in Conns,
         \/ AttachDraining(k) \/ PassDrainCheck(k) \/ AttachExisting(k) \/ PassEntryCheck(k)
         \/ InsertEntry(k) \/ Recheck(k) \/ Reuse(k) \/ Leave(k) \/ ClosedForRejoin(k)
         \/ DialSucceeds(k) \/ Archive(k) \/ ReleaseEntry(k)
  PROVE  GhostInv'
<1>1. UNCHANGED <<live, rooms, ctl>>
  BY DEF AttachDraining, PassDrainCheck, AttachExisting, PassEntryCheck, InsertEntry, Recheck, Reuse,
         Leave, ClosedForRejoin, DialSucceeds, Archive, ReleaseEntry, space
<1>2. \A l \in Conns : ConnMild(l) /\ ConnStays(l)
  <2>1. CASE AttachDraining(k) \/ AttachExisting(k) \/ InsertEntry(k) \/ Reuse(k)
    <3>1. /\ conn[k].at \in {"attaching", "inserting", "spawning"}
          /\ (\E g : Watching(k, g, "in")) \/ (\E g : Watching(k, g, "rechecking"))
      BY <2>1 DEF AttachDraining, AttachExisting, InsertEntry, Reuse
    <3> QED
      BY <3>1, WatchingMild DEF Peered
  <2>2. CASE PassDrainCheck(k) \/ PassEntryCheck(k) \/ Recheck(k) \/ Leave(k) \/ ClosedForRejoin(k)
    <3>1. /\ conn[k].at \in {"attaching", "inserting", "rechecking", "in"}
          /\ Goto(k, "inserting") \/ Goto(k, "spawning") \/ Goto(k, "in") \/ Goto(k, "leaving")
      BY <2>2 DEF PassDrainCheck, PassEntryCheck, Recheck, Leave, ClosedForRejoin
    <3> QED
      BY <3>1, GotoMild DEF Peered, Undialed, ConnPhases
  <2>3. CASE DialSucceeds(k) \/ Archive(k) \/ ReleaseEntry(k)
    <3>1. /\ conn[k].at \in {"awaiting", "archiving", "releasing"}
          /\ Goto(k, "admitting") \/ Goto(k, "cleaning") \/ End(k)
      BY <2>3 DEF DialSucceeds, Archive, ReleaseEntry
    <3> QED
      BY <3>1, GotoMild, EndMild DEF Peered, Undialed, ConnPhases
  <2> QED
    BY <2>1, <2>2, <2>3
<1> QED
  BY <1>1, <1>2, SameStreams, SameRooms, QuietGhosts

LEMMA DialGhosts ==
  ASSUME Base, GhostInv, NEW k \in Conns, Dial(k) PROVE GhostInv'
<1>1. conn[k].at = "dialing" /\ Goto(k, "awaiting") /\ UNCHANGED <<live, rooms>>
      /\ ctl \in [Conns -> StreamType] /\ conn \in [Conns -> ConnType]
  BY DEF Dial, space, Base, StreamsOK, ConnsOK
<1>2. \A l \in Conns : ConnMild(l) /\ ConnStays(l)
  BY <1>1, GotoMild DEF Peered, Undialed, ConnPhases
<1>3. ctl[k] = NoStream /\ ctl[k].at = "none" /\ ctl'[k].room = 0 /\ \A l \in Conns : l # k => ctl'[l] = ctl[l]
  BY <1>1 DEF Dial, GhostInv, NotBegun, NoStream, Undialed
<1>4. conn'[k].at = "awaiting"
  BY <1>1 DEF Goto, ConnType
<1>5. StreamMild(k) /\ StreamStays(k)
  BY <1>3, <1>4 DEF StreamMild, StreamStays, Undialed
<1>6. \A l \in Conns : l # k => StreamMild(l) /\ StreamStays(l)
  BY <1>3 DEF StreamMild, StreamStays
<1> QED
  BY <1>1, <1>2, <1>5, <1>6, SameRooms, QuietGhosts

\* ... the removal itself, which finds the peer in the room it was put in, ...
LEMMA RemoveGhosts ==
  ASSUME Base, GhostInv, NEW k \in Conns, RemovePeer(k) PROVE GhostInv'
<1>1. conn[k].at = "leaving" /\ UNCHANGED <<live, ctl>> /\ conn \in [Conns -> ConnType]
  BY DEF RemovePeer, Base, ConnsOK
<1>2. conn'[k].at \in {"archiving", "cleaning"} /\ conn'[k].room = conn[k].room
      /\ conn'[k].home = conn[k].home /\ \A l \in Conns : l # k => conn'[l] = conn[l]
  BY <1>1 DEF RemovePeer, Goto, ConnType
<1>3. \A l \in Conns : ConnMild(l) /\ (l # k => ConnStays(l))
  BY <1>2 DEF ConnMild, ConnStays, Undialed
<1>4. live \in [Pods -> 0..MaxRooms] /\ rooms \in [Rooms -> [peers : SUBSET Conns, ended : BOOLEAN]]
  BY DEF Base, SpaceOK
<1>5. /\ \A r \in Rooms : rooms'[r].peers \subseteq rooms[r].peers
      /\ conn[k].room \in Rooms => k \notin rooms'[conn[k].room].peers
  BY <1>4 DEF RemovePeer
<1>6. ASSUME NEW p \in Pods, live'[p] # 0, NEW l \in rooms'[live'[p]].peers
      PROVE  \/ Attended(l, p)'
             \/ l \in rooms[live[p]].peers /\ l \in Conns /\ ConnStays(l) /\ StreamStays(l)
  <2>1. live'[p] = live[p] /\ live[p] \in Rooms /\ live[p] # 0 /\ l \in rooms[live[p]].peers /\ l \in Conns
    BY <1>1, <1>4, <1>5, <1>6
  <2>2. CASE l # k
    BY <1>1, <1>3, <2>1, <2>2, SameStreams
  <2>3. CASE l = k
    <3>1. Attended(k, p) /\ conn[k].room # live[p]
      BY <1>5, <1>6, <2>1, <2>3 DEF GhostInv, AllAttended
    <3> QED
      BY <1>1, <2>3, <3>1 DEF Attended
  <2> QED
    BY <2>2, <2>3
<1> QED
  BY <1>1, <1>3, <1>6, SameStreams, SameRooms, PeersKept

LEMMA ArchiveFailsGhosts ==
  ASSUME Base, GhostInv, NEW k \in Conns, ArchiveFails(k) PROVE GhostInv'
<1>1. conn[k].at = "archiving" /\ UNCHANGED <<live, ctl>> /\ End(k)
  BY DEF ArchiveFails
<1>2. \A l \in Conns : ConnMild(l) /\ ConnStays(l)
  BY <1>1, EndMild DEF Peered
<1>3. live \in [Pods -> 0..MaxRooms] /\ rooms \in [Rooms -> [peers : SUBSET Conns, ended : BOOLEAN]]
  BY DEF Base, SpaceOK
<1>4. \A r \in Rooms : rooms'[r].peers = rooms[r].peers
  BY <1>3 DEF ArchiveFails
<1>5. \A p \in Pods : live'[p] # 0 =>
        \A l \in rooms'[live'[p]].peers : l \in rooms[live[p]].peers /\ l \in Conns /\ ConnStays(l) /\ StreamStays(l)
  BY <1>1, <1>2, <1>3, <1>4, SameStreams
<1> QED
  BY <1>1, <1>2, <1>5, SameStreams, SameRooms, PeersKept

\* ... and the owner's side of a stream.
LEMMA OneStream ==
  ASSUME Base, GhostInv, NEW k \in Conns, UNCHANGED conn, ctl[k].at # "none",
         \A l \in Conns : l # k => ctl'[l] = ctl[l],
         ctl'[k].room \in {0, ctl[k].room}, ctl'[k].room # 0 => ctl'[k].owner = ctl[k].owner
  PROVE  \A l \in Conns : ConnMild(l) /\ ConnStays(l) /\ StreamMild(l) /\ (l # k => StreamStays(l))
<1>1. ctl[k] # NoStream
  BY DEF NoStream
<1>2. \A l \in Conns : StreamMild(l) /\ (l # k => StreamStays(l))
  BY <1>1 DEF StreamMild, StreamStays
<1> QED
  BY <1>2, SameConns

LEMMA StreamGhosts ==
  ASSUME Base, GhostInv, NEW k \in Conns,
         Accept(k) \/ Fence(k) \/ FenceFails(k) \/ RosterSendFails(k)
  PROVE  GhostInv'
<1>1. UNCHANGED <<conn, live, rooms>> /\ ctl \in [Conns -> StreamType]
      /\ ctl[k].at \in {"hello", "fencing", "serving"}
  BY DEF Accept, Fence, FenceFails, RosterSendFails, space, Base, StreamsOK
<1>2. \A l \in Conns : l # k => ctl'[l] = ctl[l]
  BY <1>1 DEF Accept, Fence, FenceFails, RosterSendFails, Stream
<1>3. /\ ctl'[k].room \in {0, ctl[k].room}
      /\ ctl'[k].room # 0 => ctl'[k].owner = ctl[k].owner
      /\ ctl[k].at = "serving" => ctl'[k].at = "cut" /\ ctl'[k].owner = ctl[k].owner
  <2>1. CASE Accept(k)
    BY <1>1, <2>1 DEF Accept, StreamType
  <2>2. CASE Fence(k)
    BY <1>1, <2>2 DEF Fence, Stream, StreamType
  <2>3. CASE FenceFails(k)
    BY <1>1, <2>3 DEF FenceFails, Closed, NoStream
  <2>4. CASE RosterSendFails(k)
    BY <1>1, <2>4 DEF RosterSendFails, Stream, StreamType
  <2> QED
    BY <2>1, <2>2, <2>3, <2>4
<1>4. StreamStays(k)
  BY <1>1, <1>3 DEF StreamStays
<1> QED
  BY <1>1, <1>2, <1>3, <1>4, OneStream, SameRooms, QuietGhosts

LEMMA RemotePeerGhosts ==
  ASSUME Base, GhostInv, NEW k \in Conns, RegisterRemotePeer(k) PROVE GhostInv'
<1>1. UNCHANGED <<conn, live>> /\ ctl \in [Conns -> StreamType] /\ ctl[k].at = "validated"
  BY DEF RegisterRemotePeer, Base, StreamsOK
<1>2. /\ \A l \in Conns : l # k => ctl'[l] = ctl[l]
      /\ ctl'[k].room = 0 /\ ctl'[k].owner = ctl[k].owner
  BY <1>1 DEF RegisterRemotePeer, StreamType
<1>3. \A l \in Conns : ConnMild(l) /\ ConnStays(l) /\ StreamMild(l) /\ StreamStays(l)
  <2>1. StreamStays(k)
    BY <1>1 DEF StreamStays
  <2> QED
    BY <1>1, <1>2, <2>1, OneStream
<1>4. CASE UNCHANGED rooms
  BY <1>1, <1>3, <1>4, SameRooms, QuietGhosts
<1>5. CASE AddPeer(k, ctl[k].room) /\ ctl' = [ctl EXCEPT ![k].at = "serving", ![k].room = 0]
  <2>1. ctl'[k].at = "serving"
    BY <1>1, <1>5 DEF StreamType
  <2>2. live \in [Pods -> 0..MaxRooms] /\ rooms \in [Rooms -> [peers : SUBSET Conns, ended : BOOLEAN]]
    BY DEF Base, SpaceOK
  <2>3. ASSUME NEW p \in Pods, live'[p] # 0, NEW l \in rooms'[live'[p]].peers
        PROVE  \/ Attended(l, p)'
               \/ l \in rooms[live[p]].peers /\ l \in Conns /\ ConnStays(l) /\ StreamStays(l)
    <3>1. live[p] \in Rooms /\ live'[p] = live[p]
      BY <1>1, <2>2, <2>3
    <3>2. CASE l \in rooms[live[p]].peers
      BY <1>3, <2>2, <3>1, <3>2
    <3>3. CASE l \notin rooms[live[p]].peers
      <4>1. l = k /\ live[p] = ctl[k].room
        BY <1>5, <2>2, <2>3, <3>1, <3>3 DEF AddPeer
      <4>2. ctl[k].owner = p
        BY <2>3, <3>1, <4>1 DEF GhostInv, OwnRooms
      <4> QED
        BY <1>2, <2>1, <4>1, <4>2 DEF Attended
    <3> QED
      BY <3>2, <3>3
  <2> QED
    BY <1>1, <1>3, <2>3, SameRooms, PeersKept
<1> QED
  BY <1>4, <1>5 DEF RegisterRemotePeer

\* A stream that ends takes its peer out of the room the owner has now: if the peer's
\* room was replaced, it is not the one fanned out to.
LEMMA StreamEndGhosts ==
  ASSUME Base, GhostInv, NEW k \in Conns, StreamEnds(k) PROVE GhostInv'
<1>1. UNCHANGED <<conn, live>> /\ ctl \in [Conns -> StreamType] /\ ctl[k].at \in {"open", "refused", "serving"}
      /\ ctl' = [ctl EXCEPT ![k] = Closed]
  BY DEF StreamEnds, Base, StreamsOK
<1>2. ctl'[k] = Closed /\ Closed.room = 0 /\ \A l \in Conns : l # k => ctl'[l] = ctl[l]
  BY <1>1 DEF Closed, NoStream
<1>3. \A l \in Conns : ConnMild(l) /\ ConnStays(l) /\ StreamMild(l) /\ (l # k => StreamStays(l))
  BY <1>1, <1>2, OneStream
<1>4. live \in [Pods -> 0..MaxRooms] /\ rooms \in [Rooms -> [peers : SUBSET Conns, ended : BOOLEAN]]
      /\ ctl[k].owner \in Pods
  BY <1>1 DEF Base, SpaceOK, StreamsOK
<1>5. /\ \A r \in Rooms : rooms'[r].peers \subseteq rooms[r].peers
      /\ live[ctl[k].owner] # 0 => k \notin rooms'[live[ctl[k].owner]].peers
  BY <1>4 DEF StreamEnds, RemoveFromLive
<1>6. ASSUME NEW p \in Pods, live'[p] # 0, NEW l \in rooms'[live'[p]].peers
      PROVE  \/ Attended(l, p)'
             \/ l \in rooms[live[p]].peers /\ l \in Conns /\ ConnStays(l) /\ StreamStays(l)
  <2>1. live'[p] = live[p] /\ live[p] \in Rooms /\ live[p] # 0 /\ l \in rooms[live[p]].peers /\ l \in Conns
    BY <1>1, <1>4, <1>5, <1>6
  <2>2. CASE l # k
    BY <1>3, <2>1, <2>2
  <2>3. CASE l = k
    <3>1. Attended(k, p) /\ ctl[k].owner # p
      BY <1>5, <1>6, <2>1, <2>3 DEF GhostInv, AllAttended
    <3> QED
      BY <1>1, <2>3, <3>1 DEF Attended
  <2> QED
    BY <2>2, <2>3
<1> QED
  BY <1>1, <1>3, <1>6, SameRooms, PeersKept

\* A crash takes the room along with its peers.
LEMMA CrashGhosts ==
  ASSUME Base, GhostInv, NEW p \in Pods, Crash(p) PROVE GhostInv'
<1>1. /\ live' = [live EXCEPT ![p] = 0] /\ UNCHANGED rooms
      /\ conn' = [k \in Conns |-> IF conn[k].home = p THEN Over ELSE conn[k]]
      /\ ctl' = [k \in Conns |-> IF ctl[k].owner = p THEN Closed ELSE ctl[k]]
  BY DEF Crash
<1>2. live \in [Pods -> 0..MaxRooms] /\ rooms \in [Rooms -> [peers : SUBSET Conns, ended : BOOLEAN]]
  BY DEF Base, SpaceOK
<1>3. NoNewRoom /\ live'[p] = 0
  BY <1>1, <1>2 DEF NoNewRoom
<1>4. ASSUME NEW k \in Conns PROVE ConnMild(k) /\ StreamMild(k)
  <2>1. ConnMild(k)
    BY <1>1 DEF ConnMild, Over, NewConn, Undialed
  <2>2. ctl[k] = NoStream => ctl'[k] = ctl[k]
    BY <1>1 DEF NoStream
  <2>3. StreamMild(k)
    BY <1>1, <2>2 DEF StreamMild, Closed, NoStream
  <2> QED
    BY <2>1, <2>3
<1>5. ASSUME NEW o \in Pods, live'[o] # 0, NEW k \in rooms'[live'[o]].peers
      PROVE  Attended(k, o)'
  <2>1. o # p /\ live'[o] = live[o] /\ live[o] \in Rooms /\ k \in rooms[live[o]].peers /\ k \in Conns
    BY <1>1, <1>2, <1>3, <1>5
  <2>2. Attended(k, o)
    BY <1>5, <2>1 DEF GhostInv, AllAttended
  <2>3. CASE conn[k].home = o /\ conn[k].at \in Peered /\ conn[k].room = live[o]
    BY <1>1, <2>1, <2>3 DEF Attended
  <2>4. CASE ctl[k].owner = o /\ ctl[k].at \in {"serving", "cut"}
    BY <1>1, <2>1, <2>4 DEF Attended
  <2> QED
    BY <2>2, <2>3, <2>4 DEF Attended
<1> QED
  BY <1>3, <1>4, <1>5, PeersKept

LEMMA ElsewhereGhosts ==
  ASSUME Base, GhostInv, UNCHANGED <<live, rooms, conn, ctl>> PROVE GhostInv'
  BY SameConns, SameStreams, SameRooms, QuietGhosts

LEMMA GhostInit == ASSUME Init PROVE GhostInv
  BY DEF Init, GhostInv, OwnRooms, NotBegun, AllAttended, NewConn, NoStream

LEMMA GhostNext == ASSUME Base, GhostInv, [Next]_vars PROVE GhostInv'
<1>1. ASSUME NEW k \in Conns, Joining(k) PROVE GhostInv'
  BY <1>1, ArriveGhosts, ResolveGhosts, EnterGhosts, CleanupGhosts, AdmitGhosts, AttachGhosts,
     DialGhosts, Zenon DEF Joining
<1>2. ASSUME NEW k \in Conns, DialEnds(k) \/ Leave(k) \/ Leaving(k) PROVE GhostInv'
  BY <1>2, CleanupGhosts, AttachGhosts, RemoveGhosts, Zenon DEF Leaving
<1>3. ASSUME NEW k \in Conns, Serving(k) PROVE GhostInv'
  BY <1>3, StreamGhosts, RegisterGhosts, RemotePeerGhosts, StreamEndGhosts, Zenon DEF Serving
<1>4. ASSUME NEW k \in Conns, Failing(k) PROVE GhostInv'
  BY <1>4, ResolveGhosts, StreamGhosts, CleanupGhosts, ArchiveFailsGhosts, Zenon DEF Failing
<1>5. ASSUME NEW g \in Gens, Renewing(g) \/ RenewFails(g) \/ ReleaseFails(g) PROVE GhostInv'
  <2>1. UNCHANGED <<live, rooms, conn, ctl>>
    BY <1>5 DEF Renewing, RenewLost, RenewerCancelled, ReleaseLease, RenewFails, ReleaseFails, space
  <2> QED
    BY <2>1, ElsewhereGhosts
<1>6. ASSUME NEW p \in Pods, DrainFlag(p) \/ Shutdown(p) PROVE GhostInv'
  <2>1. UNCHANGED <<live, rooms, conn, ctl>>
    BY <1>6 DEF DrainFlag, Shutdown, DrainCollect, DrainEntry, space
  <2> QED
    BY <2>1, ElsewhereGhosts
<1>7. CASE LeaseExpires \/ UNCHANGED vars
  <2>1. UNCHANGED <<live, rooms, conn, ctl>>
    BY <1>7 DEF LeaseExpires, vars, space
  <2> QED
    BY <2>1, ElsewhereGhosts
<1> QED
  BY <1>1, <1>2, <1>3, <1>4, <1>5, <1>6, <1>7, CrashGhosts, Zenon DEF Next

\* No peer outlives its connection in the room a pod fans out to, whatever rooms were
\* replaced while a connection or a stream held on to the old one, whatever pods crash,
\* and however joins, leaves and streams overlap. It needs no assumption about leases.
THEOREM PeersAttended == Spec => []NoGhostPeers
<1>1. Init => Base /\ GhostInv
  BY BaseInit, GhostInit
<1>2. Base /\ GhostInv /\ [Next]_vars => Base' /\ GhostInv'
  BY BaseNext, GhostNext
<1>3. GhostInv => NoGhostPeers
  BY DEF GhostInv, AllAttended, Attended, Peered, NoGhostPeers
<1> QED
  BY <1>1, <1>2, <1>3, PTL DEF Spec

============================================================================
