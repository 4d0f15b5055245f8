------------------------- MODULE RelayClientProofs -------------------------
(***************************************************************************)
(* Proofs about the harness's connection to its relay: the types of its    *)
(* state, what a replay holds, which subscriptions are due, what the       *)
(* duplicate filter remembers, the membership the harness settles on, and  *)
(* that nothing of a channel the agent never left gets out of reach.       *)
(***************************************************************************)
EXTENDS RelayClient, FiniteSetTheorems, FunctionTheorems, SequenceTheorems, TLAPS

(***************************************************************************)
(* What a replay holds                                                     *)
(***************************************************************************)
\* A one-to-one numbering of a finite set by 1..n uses every number.
LEMMA NumberingOnto ==
    ASSUME NEW D, IsFiniteSet(D), NEW r \in [D -> 1..Cardinality(D)],
           \A i, j \in D : r[i] = r[j] => i = j
    PROVE  \A k \in 1..Cardinality(D) : \E i \in D : r[i] = k
<1> DEFINE n == Cardinality(D)
<1>1. n \in Nat
  BY FS_CardinalityType
<1>2. IsFiniteSet(1..n) /\ Cardinality(1..n) = n
  BY <1>1, FS_Interval
<1>3. r \in Injection(D, 1..n)
  BY Fun_IsInj
<1>4. r \in Surjection(D, 1..n)
  BY <1>2, <1>3, FS_Injection
<1> QED
  BY <1>4, Fun_SurjectionProperties

\* The stored items: finitely many, with numbers and time stamps of their own.
LogOK ==
    /\ log \subseteq Items /\ IsFiniteSet(log) /\ Cardinality(log) <= MaxItems
    /\ clock \in Nat \ {0}
    /\ \A i \in log : i.id <= Cardinality(log) /\ i.ts <= clock /\ i.ts > 1
    /\ \A i, j \in log : i.id = j.id \/ i.ts = j.ts => i = j

Matching(sub, since) == {i \in log : SubOf(i) = sub /\ i.ts >= since}
NoOlder(sub, since, i) == {j \in Matching(sub, since) : j.ts >= i.ts}

LEMMA Positions ==
    ASSUME LogOK, NEW sub, NEW since
    PROVE  /\ IsFiniteSet(Matching(sub, since))
           /\ \A i \in Matching(sub, since) :
                Cardinality(NoOlder(sub, since, i)) \in 1..Cardinality(Matching(sub, since))
           /\ \A i, j \in Matching(sub, since) :
                Cardinality(NoOlder(sub, since, i)) = Cardinality(NoOlder(sub, since, j)) => i = j
<1> DEFINE M == Matching(sub, since)
           B(i) == NoOlder(sub, since, i)
<1>1. M \subseteq log /\ IsFiniteSet(M)
  BY FS_Subset DEF Matching, LogOK
<1>2. ASSUME NEW i \in M
      PROVE  B(i) \subseteq M /\ i \in B(i) /\ IsFiniteSet(B(i)) /\ Cardinality(B(i)) \in 1..Cardinality(M)
  <2>1. i.ts \in Nat
    BY <1>1 DEF LogOK, Items
  <2>2. B(i) \subseteq M /\ i \in B(i)
    BY <2>1 DEF NoOlder
  <2>3. IsFiniteSet(B(i)) /\ Cardinality(B(i)) <= Cardinality(M)
    BY <1>1, <2>2, FS_Subset
  <2>4. Cardinality(B(i)) \in Nat /\ Cardinality(M) \in Nat /\ Cardinality(B(i)) # 0
    BY <1>1, <2>2, <2>3, FS_CardinalityType, FS_EmptySet
  <2> HIDE DEF M, B
  <2> QED
    BY <2>2, <2>3, <2>4
<1>3. ASSUME NEW i \in M, NEW j \in M, i.ts <= j.ts, Cardinality(B(i)) = Cardinality(B(j))
      PROVE  i = j
  <2>1. i \in log /\ j \in log /\ i.ts \in Nat /\ j.ts \in Nat
    BY <1>1 DEF LogOK, Items
  <2>2. \A k \in M : k.ts \in Nat
    BY <1>1 DEF LogOK, Items
  <2>3. B(j) \subseteq B(i)
    BY <1>3, <2>1, <2>2 DEF NoOlder
  <2>4. B(i) = B(j)
    BY <1>2, <1>3, <2>3, FS_Subset
  <2>5. i.ts >= j.ts
    BY <1>2, <2>4 DEF NoOlder
  <2> QED
    BY <1>3, <2>1, <2>5 DEF LogOK
<1>4. ASSUME NEW i \in M, NEW j \in M, Cardinality(B(i)) = Cardinality(B(j)) PROVE i = j
  <2>1. i.ts \in Nat /\ j.ts \in Nat
    BY <1>1 DEF LogOK, Items
  <2> QED
    BY <1>3, <1>4, <2>1
<1> QED
  BY <1>1, <1>2, <1>4

\* A replay sends the stored items of its subscription from since on, each of them.
LEMMA ReplayItems ==
    ASSUME LogOK, NEW sub, NEW since
    PROVE  /\ Replay(sub, since) \in Seq({Pushed(i, TRUE) : i \in Matching(sub, since)})
           /\ \A i \in Matching(sub, since) :
                \E k \in 1..Len(Replay(sub, since)) : Replay(sub, since)[k] = Pushed(i, TRUE)
<1> DEFINE M == Matching(sub, since)
           B(i) == NoOlder(sub, since, i)
           r == [i \in M |-> Cardinality(B(i))]
           At(k) == CHOOSE i \in M : Cardinality(B(i)) = k
<1>1. /\ IsFiniteSet(M) /\ \A i \in M : Cardinality(B(i)) \in 1..Cardinality(M)
      /\ \A i, j \in M : Cardinality(B(i)) = Cardinality(B(j)) => i = j
  BY Positions
<1>2. Cardinality(M) \in Nat
  BY <1>1, FS_CardinalityType
<1>3. Replay(sub, since) = [k \in 1..Cardinality(M) |-> Pushed(At(k), TRUE)]
  BY DEF Replay, Matching, NoOlder
<1> HIDE DEF M, B
<1>4. \A k \in 1..Cardinality(M) : \E i \in M : r[i] = k
  <2>1. r \in [M -> 1..Cardinality(M)] /\ \A i, j \in M : r[i] = r[j] => i = j
    BY <1>1
  <2> HIDE DEF r
  <2> QED
    BY <1>1, <2>1, NumberingOnto
<1>5. \A k \in 1..Cardinality(M) : At(k) \in M
  BY <1>4
<1>6. \A i \in M : At(Cardinality(B(i))) = i
  BY <1>1
<1> HIDE DEF At
<1>7. Replay(sub, since) \in Seq({Pushed(i, TRUE) : i \in M})
  <2> DEFINE P == {Pushed(i, TRUE) : i \in M}
  <2>1. \A k \in 1..Cardinality(M) : Pushed(At(k), TRUE) \in P
    BY <1>5
  <2> HIDE DEF P
  <2>2. Replay(sub, since) \in [1..Cardinality(M) -> P]
    BY <1>3, <2>1
  <2>3. Replay(sub, since) \in Seq(P)
    BY <1>2, <2>2
  <2> QED
    BY <2>3 DEF P
<1>8. Len(Replay(sub, since)) = Cardinality(M)
  BY <1>2, <1>3
<1>9. ASSUME NEW i \in M
      PROVE  \E k \in 1..Len(Replay(sub, since)) : Replay(sub, since)[k] = Pushed(i, TRUE)
  BY <1>1, <1>3, <1>6, <1>8
<1> QED
  BY <1>7, <1>9 DEF M

(***************************************************************************)
(* Types                                                                   *)
(***************************************************************************)
\* What may be on the wire.  Only a channel can be denied.
Messages ==
    {Pushed(i, TRUE) : i \in log} \cup {Pushed(i, FALSE) : i \in log}
    \cup {Closed(sub, "error") : sub \in Subs} \cup {Closed(sub, "rate-limited") : sub \in Subs}
    \cup {Closed(c, "denied") : c \in Channels}
    \cup {SlowDown}

LineOK == wire \in Seq(Messages) /\ subs \subseteq Subs /\ faults \in 0..MaxFaults

QueuesOK ==
    /\ evq \in Seq(log \cup {Lost}) /\ Len(evq) <= EventCap
    /\ cmds \in Seq(Commands) /\ Len(cmds) <= CmdCap

TaskOK ==
    /\ conn \in {"up", "lost", "resub", "drain", "post", "failed"}
    /\ sock \in BOOLEAN /\ fresh \in BOOLEAN /\ todo \subseteq Channels
    /\ bg \in States

HarnessOK ==
    /\ member \subseteq Channels /\ subscribed \subseteq Channels
    /\ newest \in Stamps /\ notices \in TwoGens /\ enqueued \in [Ids -> Nat]

BaseInv == LogOK /\ LineOK /\ QueuesOK /\ TaskOK /\ HarnessOK

CutOK == cut \in [ended : SUBSET Ids, refused : SUBSET Ids]

Excused == cut.ended \cup cut.refused

LEMMA StampTypes ==
    /\ \A a, b \in Nat : OrElse(a, b) \in Nat /\ Earliest(a, b) \in Nat /\ Latest(a, b) \in Nat
    /\ \A a \in Nat : clock \in Nat => SinceTs(a) \in Nat
BY ClientAssumption DEF OrElse, Earliest, Latest, SinceTs

LEMMA SinceTypes ==
    ASSUME NEW s \in States
    PROVE  /\ \A c \in Channels : ChannelSince(s, c) \in Nat
           /\ MembershipSince(s) \in Nat
BY StampTypes DEF ChannelSince, MembershipSince, States, Stamps

LEMMA FilterTypes ==
    ASSUME NEW g \in TwoGens, NEW x \in Ids, NEW half
    PROVE  Insert(g, x, half) \in TwoGens /\ Forget(g, x) \in TwoGens
BY DEF TwoGens, Insert, Rotate, Forget

LEMMA ClearTypes ==
    ASSUME NEW s \in States, NEW c \in Channels
    PROVE  ClearChannel(s, c) \in States
BY DEF ClearChannel, States, Stamps

LEMMA SeedTypes ==
    ASSUME NEW s \in States, NEW c \in Channels, NEW ts \in Nat, clock \in Nat
    PROVE  SeedSince(s, c, ts) \in States
<1>1. OrElse(s.subSince[c], OrElse(ts, OrElse(s.watermark, clock))) \in Nat
  BY StampTypes DEF States, Stamps
<1> QED
  BY <1>1 DEF SeedSince, States, Stamps

LEMMA ApplyTypes ==
    ASSUME NEW s \in States, NEW cmd \in Commands, clock \in Nat
    PROVE  ApplyCommand(s, cmd) \in States
<1>1. CASE cmd.op = "subscribe"
  <2>1. cmd.ch \in Channels /\ cmd.ts \in Nat
    BY <1>1 DEF Commands
  <2>2. SeedSince(s, cmd.ch, cmd.ts) \in States
    BY <2>1, SeedTypes
  <2> QED
    BY <1>1, <2>1, <2>2 DEF ApplyCommand, States
<1>2. CASE cmd.op = "unsubscribe"
  BY <1>2, ClearTypes DEF ApplyCommand, Commands
<1>3. CASE cmd.op = "membership"
  BY <1>3 DEF ApplyCommand, States
<1>4. CASE cmd.op = "watermark"
  <2>1. cmd.ts \in Nat
    BY <1>4 DEF Commands
  <2>2. OrElse(s.mLast, cmd.ts) \in Nat
    BY <2>1, StampTypes DEF States
  <2> QED
    BY <1>4, <2>1, <2>2 DEF ApplyCommand, SetWatermark, States
<1>5. CASE cmd.op = "reconnect"
  BY <1>5 DEF ApplyCommand
<1> QED
  BY <1>1, <1>2, <1>3, <1>4, <1>5 DEF Commands

LEMMA AcceptTypes ==
    ASSUME LogOK, NEW s \in States, NEW i \in log
    PROVE  Accept(s, i) \in States
<1>1. i.id \in Ids /\ i.ch \in Channels /\ i.ts \in Nat
  BY DEF LogOK, Items, Ids
<1>2. Insert(s.seen, i.id, SeenHalf) \in TwoGens
  BY <1>1, FilterTypes DEF States
<1>3. Latest(s.lastSeen[i.ch], i.ts) \in Nat /\ Latest(s.mLast, i.ts) \in Nat
  BY <1>1, StampTypes DEF States, Stamps
<1> QED
  BY <1>1, <1>2, <1>3 DEF Accept, States, Stamps

LEMMA RefuseTypes ==
    ASSUME LogOK, NEW s \in States, NEW i \in log
    PROVE  Refuse(s, i) \in States
<1>1. i.id \in Ids /\ i.ch \in Channels /\ i.ts \in Nat
  BY DEF LogOK, Items, Ids
<1>2. Forget(Insert(s.seen, i.id, SeenHalf), i.id) \in TwoGens
  BY <1>1, FilterTypes DEF States
<1>3. /\ Latest(s.lastSeen[i.ch], i.ts) \in Nat /\ Earliest(s.dropped[i.ch], i.ts) \in Nat
      /\ Earliest(s.mDropped, i.ts) \in Nat
  BY <1>1, StampTypes DEF States, Stamps
<1> QED
  BY <1>1, <1>2, <1>3 DEF Refuse, States, Stamps

LEMMA MessageKinds ==
    /\ \A i \in log : Pushed(i, TRUE) \in Messages /\ Pushed(i, FALSE) \in Messages
    /\ \A sub \in Subs : Closed(sub, "error") \in Messages /\ Closed(sub, "rate-limited") \in Messages
    /\ \A c \in Channels : Closed(c, "denied") \in Messages
    /\ SlowDown \in Messages
BY Zenon DEF Messages

LEMMA Joined ==
    ASSUME NEW S, NEW a \in Seq(S), NEW b \in Seq(S)
    PROVE  a \o b \in Seq(S)
OBVIOUS

LEMMA Single ==
    ASSUME NEW S
    PROVE  <<>> \in Seq(S) /\ \A x \in S : <<x>> \in Seq(S)
OBVIOUS

\* A replay is made of messages.
LEMMA ReplayTypes ==
    ASSUME LogOK, NEW sub, NEW since
    PROVE  Replay(sub, since) \in Seq(Messages)
<1> DEFINE P == {Pushed(i, TRUE) : i \in Matching(sub, since)}
<1>1. \A i \in log : Pushed(i, TRUE) \in Messages
  BY MessageKinds
<1>2. P \subseteq Messages
  BY <1>1 DEF Matching
<1>3. Replay(sub, since) \in Seq(P)
  BY ReplayItems
<1> HIDE DEF P
<1> QED
  BY <1>2, <1>3

LEMMA AnswerTypes ==
    ASSUME LogOK, LineOK, NEW rest \in Seq(Messages), NEW sub \in Subs, NEW ts,
           Answer(rest, sub, ts), UNCHANGED log
    PROVE  LineOK'
<1>1. Messages' = Messages
  BY DEF Messages
<1>2. Replay(sub, SinceTs(ts)) \in Seq(Messages)
  BY ReplayTypes
<1>3. Closed(sub, "rate-limited") \in Messages /\ (sub # Membership => Closed(sub, "denied") \in Messages)
  BY MessageKinds DEF Subs
<1>4. wire' \in Seq(Messages)
  <2>1. CASE sub \notin member \cup {Membership} /\ wire' = Append(rest, Closed(sub, "denied"))
    BY <1>3, <2>1
  <2>2. CASE wire' = Append(rest, Closed(sub, "rate-limited"))
    BY <1>3, <2>2
  <2>3. CASE wire' = rest \o Replay(sub, SinceTs(ts))
    BY <1>2, <2>3
  <2> QED
    BY <2>1, <2>2, <2>3 DEF Answer
<1>5. subs' \subseteq Subs /\ faults' \in 0..MaxFaults
  BY SMTT(30), ClientAssumption DEF Answer, Fault, LineOK
<1> QED
  BY <1>1, <1>4, <1>5 DEF LineOK

LEMMA SendTypes ==
    ASSUME LogOK, LineOK, NEW rest \in Seq(Messages), NEW sub \in Subs, NEW ts,
           SendOk(rest, sub, ts), UNCHANGED log
    PROVE  LineOK'
<1>1. Messages' = Messages
  BY DEF Messages
<1> QED
  BY <1>1, AnswerTypes DEF SendOk, LineOK

LEMMA FailTypes ==
    ASSUME LogOK, LineOK, NEW place, NEW sub \in Subs, NEW ts,
           SendFails(place, sub, ts), UNCHANGED log
    PROVE  LineOK'
<1>1. Messages' = Messages
  BY DEF Messages
<1>2. Replay(sub, SinceTs(ts)) \in Seq(Messages)
  BY ReplayTypes
<1>3. wire' \in Seq(Messages) /\ subs' \subseteq Subs
  <2>1. wire \in Seq(Messages)
    BY DEF LineOK
  <2>2. wire' = wire \/ wire' = wire \o Replay(sub, SinceTs(ts))
    BY DEF SendFails
  <2>3. wire' \in Seq(Messages)
    BY <1>2, <2>1, <2>2, Joined
  <2> QED
    BY <2>3 DEF SendFails, LineOK
<1>4. faults' \in 0..MaxFaults
  BY ClientAssumption DEF SendFails, WriteFails, Fault, LineOK
<1> QED
  BY <1>1, <1>3, <1>4 DEF LineOK

LEMMA GiveUpTypes ==
    ASSUME LineOK, TaskOK, GiveUp, UNCHANGED <<log, fresh, todo, bg>>, UNCHANGED faults \/ Fault
    PROVE  LineOK' /\ TaskOK'
<1>1. wire' \in Seq(Messages') /\ subs' \subseteq Subs /\ conn' = "lost" /\ sock' = FALSE
  BY DEF GiveUp
<1>2. faults' \in 0..MaxFaults
  BY ClientAssumption DEF LineOK, Fault
<1> QED
  BY <1>1, <1>2 DEF LineOK, TaskOK

LEMMA SignalFits ==
    ASSUME QueuesOK, UNCHANGED log, evq' \in {evq, Signal}
    PROVE  evq' \in Seq(log' \cup {Lost}) /\ Len(evq') <= EventCap
<1> DEFINE L == log \cup {Lost}
<1>1. L' = L /\ Lost \in L
  OBVIOUS
<1>2. evq \in Seq(L) /\ EventCap \in Nat /\ Len(evq) <= EventCap
  BY ClientAssumption DEF QueuesOK
<1> HIDE DEF L
<1>3. evq' \in Seq(L) /\ Len(evq') <= EventCap
  BY <1>1, <1>2 DEF Signal
<1> QED
  BY <1>1, <1>3 DEF L

LEMMA SignalTypes ==
    ASSUME QueuesOK, UNCHANGED <<log, cmds>>, evq' \in {evq, Signal}
    PROVE  QueuesOK'
BY SignalFits DEF QueuesOK

LEMMA CloseTypes ==
    ASSUME LineOK, NEW c, SendClose(c), UNCHANGED log
    PROVE  LineOK'
<1>1. wire' = wire /\ subs' \subseteq subs
  BY DEF SendClose
<1>2. faults' \in 0..MaxFaults
  BY ClientAssumption DEF SendClose, WriteFails, Fault, LineOK
<1>3. Messages' = Messages
  BY DEF Messages
<1> QED
  BY <1>1, <1>2, <1>3 DEF LineOK

\* The relay alone: only Publish adds to the log.
LEMMA PublishTypes ==
    ASSUME BaseInv, NEW c \in Channels, NEW kind \in {"event", "added", "removed"}, Publish(c, kind)
    PROVE  BaseInv'
<1> DEFINE i == [id |-> Cardinality(log) + 1, ch |-> c, ts |-> clock + 1, kind |-> kind]
           live == IF SubOf(i) \in subs THEN <<Pushed(i, FALSE)>> ELSE <<>>
           evicted == IF kind = "removed" /\ c \in subs THEN <<Closed(c, "denied")>> ELSE <<>>
<1>1. /\ Cardinality(log) < MaxItems /\ log' = log \cup {i} /\ clock' = i.ts
      /\ wire' = wire \o evicted \o live
  BY DEF Publish
<1>2. /\ member' \subseteq Channels /\ subs' \subseteq subs
      /\ UNCHANGED <<faults, conn, sock, fresh, todo, bg, evq, cmds, harness, enqueued>>
  BY DEF Publish, BaseInv, HarnessOK
<1>3. Cardinality(log) \in Nat /\ clock \in Nat \ {0} /\ MaxItems \in Nat
  BY FS_CardinalityType, ClientAssumption DEF BaseInv, LogOK
<1>4. i \in Items /\ \A j \in log : j.id < i.id /\ j.ts < i.ts
  BY <1>1, <1>3 DEF BaseInv, LogOK, Items
<1>5. i \notin log /\ i.id = Cardinality(log) + 1 /\ i.ts = clock + 1 /\ i.ts > 1
  BY <1>3, <1>4 DEF Items
<1>6. IsFiniteSet(log') /\ Cardinality(log') = Cardinality(log) + 1
  BY <1>1, <1>5, FS_AddElement DEF BaseInv, LogOK
<1>7. SlowDown \in Messages' /\ Pushed(i, FALSE) \in Messages' /\ Closed(c, "denied") \in Messages'
      /\ Messages \subseteq Messages'
  <2>1. i \in log' /\ log \subseteq log'
    BY <1>1
  <2> QED
    BY <2>1, Zenon DEF Messages
<1> HIDE DEF i
<1>8. LogOK'
  <2>1. log' \subseteq Items /\ Cardinality(log') <= MaxItems /\ clock' \in Nat \ {0}
    BY <1>1, <1>3, <1>4, <1>5, <1>6 DEF BaseInv, LogOK
  <2>2. \A j \in log' : j.id <= Cardinality(log') /\ j.ts <= clock' /\ j.ts > 1
    <3>1. \A j \in log : j.id \in Nat /\ j.ts \in Nat
      BY DEF BaseInv, LogOK, Items
    <3> QED
      BY <1>1, <1>3, <1>5, <1>6, <3>1 DEF BaseInv, LogOK
  <2>3. \A j, k \in log' : j.id = k.id \/ j.ts = k.ts => j = k
    <3>1. \A j \in log' : j.id \in Nat /\ j.ts \in Nat
      BY <2>1 DEF Items
    <3> QED
      BY <1>1, <1>4, <3>1 DEF BaseInv, LogOK
  <2> QED
    BY <1>6, <2>1, <2>2, <2>3 DEF LogOK
<1>9. LineOK'
  <2>1. wire \in Seq(Messages')
    BY <1>7 DEF BaseInv, LineOK
  <2>2. <<Pushed(i, FALSE)>> \in Seq(Messages') /\ <<Closed(c, "denied")>> \in Seq(Messages')
        /\ <<>> \in Seq(Messages')
    BY <1>7, Single
  <2> HIDE DEF live, evicted
  <2>5. evicted \in Seq(Messages') /\ live \in Seq(Messages')
    BY <2>2, Zenon DEF evicted, live
  <2>3. wire' \in Seq(Messages')
    BY <1>1, <2>1, <2>5, Joined
  <2> QED
    BY <1>2, <2>3 DEF BaseInv, LineOK
<1>10. QueuesOK'
  <2>1. evq \in Seq(log' \cup {Lost})
    BY <1>1 DEF BaseInv, QueuesOK
  <2> QED
    BY <1>2, <2>1 DEF BaseInv, QueuesOK
<1>11. TaskOK' /\ HarnessOK'
  BY <1>2 DEF BaseInv, TaskOK, HarnessOK, harness
<1> QED
  BY <1>8, <1>9, <1>10, <1>11 DEF BaseInv

\* What leaves the stored items alone keeps their types.
LEMMA LogKept ==
    ASSUME LogOK, UNCHANGED relay
    PROVE  LogOK' /\ Messages' = Messages
BY DEF LogOK, relay, Messages

\* What a message says.
LEMMA MessageParts ==
    ASSUME NEW m \in Messages
    PROVE  /\ m.type \in {"item", "closed", "notice"}
           /\ m.type = "item" => m.item \in log /\ m.sub = SubOf(m.item)
           /\ m.type = "closed" => /\ m.sub \in Subs /\ m.why \in {"denied", "error", "rate-limited"}
                                   /\ m.why = "denied" => m.sub \in Channels
<1>1. \/ \E i \in log : m = Pushed(i, TRUE) \/ m = Pushed(i, FALSE)
      \/ \E sub \in Subs : m = Closed(sub, "error") \/ m = Closed(sub, "rate-limited")
      \/ \E c \in Channels : m = Closed(c, "denied")
      \/ m = SlowDown
  BY Zenon DEF Messages
<1>2. ASSUME NEW i \in log, m = Pushed(i, TRUE) \/ m = Pushed(i, FALSE)
      PROVE  m.type = "item" /\ m.item = i /\ m.sub = SubOf(i)
  BY <1>2 DEF Pushed
<1>3. ASSUME NEW sub \in Subs, m = Closed(sub, "error") \/ m = Closed(sub, "rate-limited")
      PROVE  m.type = "closed" /\ m.sub = sub /\ m.why \in {"error", "rate-limited"}
  BY <1>3 DEF Closed
<1>4. ASSUME NEW c \in Channels, m = Closed(c, "denied")
      PROVE  m.type = "closed" /\ m.sub = c /\ m.why = "denied"
  BY <1>4 DEF Closed
<1>5. ASSUME m = SlowDown PROVE m.type = "notice"
  BY <1>5 DEF SlowDown
<1> QED
  BY <1>1, <1>2, <1>3, <1>4, <1>5 DEF Subs

LEMMA HeadTail ==
    ASSUME NEW S, NEW w \in Seq(S), w # <<>>
    PROVE  /\ Head(w) \in S /\ Tail(w) \in Seq(S) /\ Len(Tail(w)) = Len(w) - 1 /\ Len(w) \in Nat \ {0}
           /\ w[1] = Head(w) /\ \A k \in 1..Len(Tail(w)) : Tail(w)[k] = w[k + 1]
OBVIOUS

LEMMA QueueTails ==
    ASSUME QueuesOK
    PROVE  /\ cmds # <<>> => /\ Head(cmds) \in Commands /\ Tail(cmds) \in Seq(Commands)
                             /\ Len(Tail(cmds)) <= CmdCap
           /\ evq # <<>> => /\ Head(evq) \in log \cup {Lost} /\ Tail(evq) \in Seq(log \cup {Lost})
                            /\ Len(Tail(evq)) <= EventCap
<1>1. CmdCap \in Nat /\ EventCap \in Nat
  BY ClientAssumption
<1>2. ASSUME cmds # <<>>
      PROVE  Head(cmds) \in Commands /\ Tail(cmds) \in Seq(Commands) /\ Len(Tail(cmds)) <= CmdCap
  BY <1>1, <1>2, HeadTail DEF QueuesOK
<1>3. ASSUME evq # <<>>
      PROVE  /\ Head(evq) \in log \cup {Lost} /\ Tail(evq) \in Seq(log \cup {Lost})
             /\ Len(Tail(evq)) <= EventCap
  BY <1>1, <1>3, HeadTail DEF QueuesOK
<1> QED
  BY <1>2, <1>3

LEMMA ExecuteTypes ==
    ASSUME LogOK, LineOK, bg \in States, NEW cmd \in Commands, cmd.op # "reconnect", Execute(cmd),
           UNCHANGED log
    PROVE  LineOK' /\ bg' \in States
<1>1. LineOK /\ UNCHANGED line => LineOK'
  BY DEF LineOK, line, Messages
<1>2. wire \in Seq(Messages) /\ clock \in Nat /\ Membership \in Subs /\ Channels \subseteq Subs
  BY DEF LineOK, LogOK, Subs
<1>3. ApplyCommand(bg, cmd) \in States
  BY <1>2, ApplyTypes
<1>4. CASE cmd.op = "subscribe"
  <2>1. cmd.ch \in Channels
    BY <1>4 DEF Commands
  <2>2. CASE bg.gate
    <3>1. bg' = [ApplyCommand(bg, cmd) EXCEPT !.pending = @ \cup {cmd.ch}] /\ UNCHANGED line
      BY <1>4, <2>2 DEF Execute
    <3> QED
      BY <1>1, <1>3, <2>1, <3>1 DEF States
  <2>3. CASE ~bg.gate
    <3> DEFINE s == ApplyCommand(bg, cmd)
    <3>1. /\ SendOk(wire, cmd.ch, OrElse(s.lastSeen[cmd.ch], s.subSince[cmd.ch]))
          /\ bg' = [s EXCEPT !.pending = @ \ {cmd.ch}, !.retry = @ \ {cmd.ch}]
      BY <1>4, <2>3 DEF Execute
    <3> HIDE DEF s
    <3>2. LineOK'
      BY <1>2, <2>1, <3>1, SendTypes
    <3> QED
      BY <1>3, <2>1, <3>1, <3>2 DEF States, s
  <2> QED
    BY <2>2, <2>3
<1>5. CASE cmd.op = "unsubscribe"
  <2>1. bg' = ApplyCommand(bg, cmd) /\ (SendClose(cmd.ch) \/ UNCHANGED line)
    BY <1>5 DEF Execute
  <2> QED
    BY <1>1, <1>3, <2>1, CloseTypes
<1>6. CASE cmd.op = "membership"
  <2>1. CASE bg.gate
    BY <1>1, <1>6, <2>1 DEF Execute, States
  <2>2. CASE ~bg.gate
    <3> DEFINE since == OrElse(bg.mLast, bg.watermark)
    <3>1. /\ SendOk(wire, Membership, since)
          /\ bg' = [bg EXCEPT !.mActive = TRUE, !.mResub = FALSE, !.mLast = since]
      BY <1>6, <2>2 DEF Execute
    <3>2. since \in Nat
      BY StampTypes DEF States
    <3>3. LineOK'
      BY <1>2, <3>1, SendTypes
    <3> QED
      BY <3>1, <3>2, <3>3 DEF States
  <2> QED
    BY <2>1, <2>2
<1>7. CASE cmd.op = "watermark"
  BY <1>1, <1>3, <1>7 DEF Execute
<1> QED
  BY <1>4, <1>5, <1>6, <1>7 DEF Commands

LEMMA RequestFailsTypes ==
    ASSUME LogOK, QueuesOK, bg \in States, RequestFails
    PROVE  /\ bg' \in States /\ cmds' \in Seq(Commands) /\ Len(cmds') <= CmdCap
           /\ Head(cmds) \in Commands
<1>1. cmds # <<>> /\ cmds' = Tail(cmds) /\ Head(cmds) \in Commands
  BY QueueTails DEF RequestFails
<1>2. ApplyCommand(bg, Head(cmds)) \in States
  BY <1>1, ApplyTypes DEF LogOK
<1>3. bg' \in States
  BY <1>2 DEF RequestFails, States
<1> QED
  BY <1>1, <1>3, QueueTails

LEMMA BaseInit == Init => BaseInv
<1> SUFFICES ASSUME Init PROVE BaseInv
  OBVIOUS
<1> DEFINE n == Cardinality(Founding)
           f == SetToSeq(Founding)
           first == <<[op |-> "watermark", ts |-> 1], [op |-> "membership"]>>
           rest == [k \in 1..n |-> [op |-> "subscribe", ch |-> f[k], ts |-> 0]]
<1>1. n \in Nat /\ IsFiniteSet(Founding) /\ n + 2 <= CmdCap
  BY ClientAssumption, FS_CardinalityType
<1>2. f \in [1..n -> Founding]
  <2>1. \E g \in [1..n -> Founding] : IsInjective(g)
    <3>1. ExistsBijection(1..n, Founding)
      BY <1>1, FS_CardinalityType
    <3> QED
      BY <3>1 DEF ExistsBijection, Bijection, Injection
  <2> QED
    BY <2>1 DEF SetToSeq
<1>3. first \in Seq(Commands) /\ Len(first) = 2
  BY DEF Commands
<1>4. rest \in Seq(Commands) /\ Len(rest) = n
  <2>1. \A k \in 1..n : [op |-> "subscribe", ch |-> f[k], ts |-> 0] \in Commands
    BY <1>2, ClientAssumption DEF Commands
  <2> HIDE DEF f, n
  <2>2. rest \in [1..n -> Commands]
    BY <2>1
  <2> HIDE DEF rest
  <2> QED
    BY <1>1, <2>2
<1>5. cmds = first \o rest
  BY DEF Init
<1>6. LogOK
  BY FS_EmptySet, ClientAssumption DEF Init, LogOK
<1>7. bg \in States
  BY DEF Init, InitialState, States, Stamps, NoStamps, TwoGens, NothingSeen
<1>8. LineOK /\ TaskOK /\ HarnessOK
  BY <1>7, ClientAssumption
     DEF Init, LineOK, TaskOK, HarnessOK, TwoGens, NothingSeen, Stamps, NoStamps, Ids
<1> HIDE DEF first, rest, n
<1>9. cmds \in Seq(Commands) /\ Len(cmds) = n + 2
  <2>1. first \o rest \in Seq(Commands) /\ Len(first \o rest) = Len(first) + Len(rest)
    BY <1>3, <1>4, ConcatProperties
  <2> QED
    BY <1>1, <1>3, <1>4, <1>5, <2>1
<1>10. QueuesOK
  <2>1. evq = <<>> /\ EventCap \in Nat
    BY ClientAssumption DEF Init
  <2>2. evq \in Seq(log \cup {Lost}) /\ Len(evq) <= EventCap
    BY <2>1
  <2> QED
    BY <1>1, <1>9, <2>2 DEF QueuesOK
<1> QED
  BY <1>6, <1>8, <1>10 DEF BaseInv

(***************************************************************************)
(* Types: one lemma per group of actions                                   *)
(***************************************************************************)
LEMMA QueuesKept ==
    ASSUME QueuesOK, UNCHANGED <<log, evq, cmds>>
    PROVE  QueuesOK'
BY DEF QueuesOK

LEMMA LineKept ==
    ASSUME LineOK, UNCHANGED <<log, line>>
    PROVE  LineOK'
BY DEF LineOK, line, Messages

LEMMA HarnessKept ==
    ASSUME HarnessOK, UNCHANGED <<member, harness, enqueued>>
    PROVE  HarnessOK'
BY DEF HarnessOK, harness

\* One command less, and perhaps a signal to the harness.
LEMMA CommandTaken ==
    ASSUME QueuesOK, UNCHANGED log, cmds # <<>>, cmds' = Tail(cmds), evq' \in {evq, Signal}
    PROVE  QueuesOK'
<1>1. cmds' \in Seq(Commands) /\ Len(cmds') <= CmdCap
  BY QueueTails
<1> QED
  BY <1>1, SignalFits DEF QueuesOK

\* A write that fails costs no more than a fault.
LEMMA FaultTypes ==
    ASSUME LineOK, UNCHANGED faults \/ Fault
    PROVE  faults' \in 0..MaxFaults
BY ClientAssumption DEF LineOK, Fault

\* The connection is given up; the intent of a command may have been kept.
LEMMA GiveUpKeeps ==
    ASSUME LineOK, TaskOK, GiveUp, UNCHANGED <<log, fresh, todo>>, bg' \in States,
           UNCHANGED faults \/ Fault
    PROVE  LineOK' /\ TaskOK'
<1>1. wire' \in Seq(Messages') /\ subs' \subseteq Subs /\ conn' = "lost" /\ sock' = FALSE
  BY DEF GiveUp
<1>2. faults' \in 0..MaxFaults
  BY FaultTypes
<1> QED
  BY <1>1, <1>2 DEF LineOK, TaskOK

LEMMA RelayTypes ==
    ASSUME BaseInv, GateExpires \/ SocketDies \/ RelayThrottles \/ \E sub \in Subs : RelayCloses(sub)
    PROVE  BaseInv'
<1>1. UNCHANGED <<relay, conn, fresh, todo, evq, cmds, harness, enqueued>>
  BY DEF GateExpires, SocketDies, RelayThrottles, RelayCloses
<1>2. LogOK' /\ Messages' = Messages /\ UNCHANGED <<log, member>>
  BY <1>1, LogKept DEF BaseInv, relay
<1>3. QueuesOK' /\ HarnessOK'
  BY <1>1, <1>2, QueuesKept, HarnessKept DEF BaseInv
<1>4. LineOK'
  <2>1. wire \in Seq(Messages) /\ subs \subseteq Subs
    BY DEF BaseInv, LineOK
  <2>2. UNCHANGED faults \/ Fault
    BY DEF GateExpires, SocketDies, RelayThrottles, RelayCloses, line
  <2>3. subs' \subseteq Subs
    BY <2>1 DEF GateExpires, SocketDies, RelayThrottles, RelayCloses, line
  <2>4. wire' \in Seq(Messages)
    <3>1. SlowDown \in Messages /\ \A sub \in Subs : Closed(sub, "error") \in Messages
      BY MessageKinds
    <3>2. wire' = wire \/ wire' = Append(wire, SlowDown)
          \/ \E sub \in Subs : wire' = Append(wire, Closed(sub, "error"))
      BY DEF GateExpires, SocketDies, RelayThrottles, RelayCloses, line
    <3>3. \A m \in Messages : Append(wire, m) \in Seq(Messages)
      BY <2>1
    <3> QED
      BY <2>1, <3>1, <3>2, <3>3
  <2> QED
    BY <1>2, <2>2, <2>3, <2>4, FaultTypes DEF BaseInv, LineOK
<1>5. TaskOK'
  BY <1>1 DEF GateExpires, SocketDies, RelayThrottles, RelayCloses, BaseInv, TaskOK, States
<1> QED
  BY <1>2, <1>3, <1>4, <1>5 DEF BaseInv

\* Losing the connection and starting a resubscription.
LEMMA ConnectionTypes ==
    ASSUME BaseInv, DetectLoss \/ Connect \/ ProactiveResubscribe \/ ResubscribeMembershipFails
                    \/ ReadClosedFails
    PROVE  BaseInv'
<1>1. UNCHANGED <<relay, cmds, harness, enqueued>> /\ evq' \in {evq, Signal}
  BY DEF DetectLoss, Connect, ProactiveResubscribe, ResubscribeMembershipFails, ReadClosedFails
<1>2. LogOK' /\ Messages' = Messages /\ UNCHANGED <<log, member>>
  BY <1>1, LogKept DEF BaseInv, relay
<1>3. QueuesOK' /\ HarnessOK'
  BY <1>1, <1>2, SignalTypes, HarnessKept DEF BaseInv
<1>4. CASE DetectLoss \/ ResubscribeMembershipFails \/ ReadClosedFails
  <2>1. GiveUp /\ UNCHANGED <<fresh, todo, bg>> /\ (UNCHANGED faults \/ Fault)
    BY <1>4 DEF DetectLoss, ResubscribeMembershipFails, ReadClosedFails, WriteFails
  <2>2. LineOK' /\ TaskOK'
    BY <1>2, <2>1, GiveUpTypes DEF BaseInv
  <2> QED
    BY <1>2, <1>3, <2>2 DEF BaseInv
<1>5. CASE Connect
  <2>1. LineOK'
    BY <1>2, <1>5, LineKept DEF Connect, BaseInv
  <2>2. TaskOK'
    BY <1>5 DEF Connect, BaseInv, TaskOK, States
  <2> QED
    BY <1>2, <1>3, <2>1, <2>2 DEF BaseInv
<1>6. CASE ProactiveResubscribe
  <2>1. LineOK'
    BY <1>2, <1>6, LineKept DEF ProactiveResubscribe, BaseInv
  <2>2. TaskOK'
    BY <1>6 DEF ProactiveResubscribe, BaseInv, TaskOK, States
  <2> QED
    BY <1>2, <1>3, <2>1, <2>2 DEF BaseInv
<1> QED
  BY <1>4, <1>5, <1>6

\* A resubscription, or a drain, of one channel.
LEMMA ChannelTypes ==
    ASSUME BaseInv, NEW c \in Channels, ResubscribeChannel(c) \/ DrainPending(c) \/ DrainRetry(c)
    PROVE  BaseInv'
<1>1. UNCHANGED <<relay, conn, sock, fresh, evq, cmds, harness, enqueued>>
  BY DEF ResubscribeChannel, DrainPending, DrainRetry
<1>2. LogOK' /\ Messages' = Messages /\ UNCHANGED <<log, member>>
  BY <1>1, LogKept DEF BaseInv, relay
<1>3. QueuesOK' /\ HarnessOK'
  BY <1>1, <1>2, QueuesKept, HarnessKept DEF BaseInv
<1>4. \/ UNCHANGED line
      \/ SendOk(wire, c, ChannelSince(bg, c))
      \/ SendFails("replay", c, ChannelSince(bg, c))
  BY DEF ResubscribeChannel, DrainPending, DrainRetry
<1>5. LineOK'
  <2>1. wire \in Seq(Messages) /\ c \in Subs
    BY DEF BaseInv, LineOK, Subs
  <2> QED
    BY <1>2, <1>4, <2>1, LineKept, SendTypes, FailTypes DEF BaseInv
<1>6. bg' \in States
  <2>1. bg \in States
    BY DEF BaseInv, TaskOK
  <2>2. \/ bg' = bg
        \/ bg' = [bg EXCEPT !.pending = @ \cup {c}]
        \/ bg' = [bg EXCEPT !.dropped[c] = 0]
        \/ bg' = [bg EXCEPT !.retry = @ \cup {c}]
        \/ bg' = [bg EXCEPT !.pending = @ \ {c}]
        \/ bg' = [bg EXCEPT !.pending = @ \ {c}, !.dropped[c] = 0]
        \/ bg' = [bg EXCEPT !.pending = @ \cup {c}, !.retry = @ \ {c}]
        \/ bg' = [bg EXCEPT !.retry = @ \ {c}, !.dropped[c] = 0]
    BY DEF ResubscribeChannel, DrainPending, DrainRetry
  <2>3. bg.dropped \in Stamps /\ [bg.dropped EXCEPT ![c] = 0] \in Stamps
    BY <2>1 DEF States, Stamps
  <2>4. CASE bg' = [bg EXCEPT !.pending = @ \cup {c}]
    BY <2>1, <2>3, <2>4 DEF States
  <2>5. CASE bg' = [bg EXCEPT !.dropped[c] = 0]
    BY <2>1, <2>3, <2>5 DEF States
  <2>6. CASE bg' = [bg EXCEPT !.retry = @ \cup {c}]
    BY <2>1, <2>3, <2>6 DEF States
  <2>7. CASE bg' = [bg EXCEPT !.pending = @ \ {c}]
    BY <2>1, <2>3, <2>7 DEF States
  <2>8. CASE bg' = [bg EXCEPT !.pending = @ \ {c}, !.dropped[c] = 0]
    BY <2>1, <2>3, <2>8 DEF States
  <2>9. CASE bg' = [bg EXCEPT !.pending = @ \cup {c}, !.retry = @ \ {c}]
    BY <2>1, <2>3, <2>9 DEF States
  <2>10. CASE bg' = [bg EXCEPT !.retry = @ \ {c}, !.dropped[c] = 0]
    BY <2>1, <2>3, <2>10 DEF States
  <2> QED
    BY <2>1, <2>2, <2>4, <2>5, <2>6, <2>7, <2>8, <2>9, <2>10
<1>7. todo' \subseteq Channels
  BY DEF ResubscribeChannel, DrainPending, DrainRetry, BaseInv, TaskOK
<1>8. TaskOK'
  BY <1>1, <1>6, <1>7 DEF BaseInv, TaskOK
<1> QED
  BY <1>2, <1>3, <1>5, <1>8 DEF BaseInv

LEMMA MembershipTypes ==
    ASSUME BaseInv, ResubscribeMembership \/ DrainMembership
    PROVE  BaseInv'
<1>1. UNCHANGED <<relay, sock, fresh, todo, evq, cmds, harness, enqueued>>
  BY DEF ResubscribeMembership, DrainMembership
<1>2. LogOK' /\ Messages' = Messages /\ UNCHANGED <<log, member>>
  BY <1>1, LogKept DEF BaseInv, relay
<1>3. QueuesOK' /\ HarnessOK'
  BY <1>1, <1>2, QueuesKept, HarnessKept DEF BaseInv
<1>4. \/ UNCHANGED line
      \/ SendOk(wire, Membership, MembershipSince(bg))
      \/ SendFails("replay", Membership, MembershipSince(bg))
  BY DEF ResubscribeMembership, DrainMembership
<1>5. LineOK'
  <2>1. wire \in Seq(Messages) /\ Membership \in Subs
    BY DEF BaseInv, LineOK, Subs
  <2> QED
    BY <1>2, <1>4, <2>1, LineKept, SendTypes, FailTypes DEF BaseInv
<1>6. bg' \in States
  <2>1. bg \in States
    BY DEF BaseInv, TaskOK
  <2>2. \/ bg' = bg
        \/ bg' = [bg EXCEPT !.mResub = TRUE]
        \/ bg' = [bg EXCEPT !.mDropped = 0, !.mResub = FALSE]
    BY DEF ResubscribeMembership, DrainMembership
  <2>3. CASE bg' = [bg EXCEPT !.mResub = TRUE]
    BY <2>1, <2>3 DEF States
  <2>4. CASE bg' = [bg EXCEPT !.mDropped = 0, !.mResub = FALSE]
    BY <2>1, <2>4 DEF States
  <2> QED
    BY <2>1, <2>2, <2>3, <2>4
<1>7. conn' \in {conn, "drain"}
  BY DEF ResubscribeMembership, DrainMembership
<1>8. TaskOK'
  BY <1>1, <1>6, <1>7 DEF BaseInv, TaskOK
<1> QED
  BY <1>2, <1>3, <1>5, <1>8 DEF BaseInv

\* Commands whose write, if any, succeeds, and those that only leave an intent.
LEMMA CommandTypes ==
    ASSUME BaseInv, RecordIntent \/ UpCommand \/ DrainCommand \/ DrainDone
    PROVE  BaseInv'
<1>1. UNCHANGED <<relay, fresh, todo, evq, harness, enqueued>>
  BY DEF RecordIntent, UpCommand, DrainCommand, DrainDone
<1>2. LogOK' /\ Messages' = Messages /\ UNCHANGED <<log, member>>
  BY <1>1, LogKept DEF BaseInv, relay
<1>3. HarnessOK'
  BY <1>1, <1>2, HarnessKept DEF BaseInv
<1>4. QueuesOK'
  <2>1. UNCHANGED cmds \/ (cmds # <<>> /\ cmds' = Tail(cmds))
    BY DEF RecordIntent, UpCommand, DrainCommand, DrainDone
  <2> QED
    BY <1>1, <1>2, <2>1, QueuesKept, CommandTaken DEF BaseInv
<1>5. bg \in States /\ clock \in Nat /\ (cmds # <<>> => Head(cmds) \in Commands)
  BY QueueTails DEF BaseInv, TaskOK, LogOK
<1>6. CASE RecordIntent
  <2>1. bg' \in States
    BY <1>5, <1>6, ApplyTypes DEF RecordIntent
  <2>2. LineOK'
    BY <1>2, <1>6, LineKept DEF RecordIntent, BaseInv
  <2>3. TaskOK'
    BY <1>6, <2>1 DEF RecordIntent, BaseInv, TaskOK
  <2> QED
    BY <1>2, <1>3, <1>4, <2>2, <2>3 DEF BaseInv
<1>7. ASSUME cmds # <<>>, Head(cmds).op # "reconnect", Execute(Head(cmds)), UNCHANGED <<conn, sock>>
      PROVE  BaseInv'
  <2>1. LineOK' /\ bg' \in States
    BY <1>2, <1>5, <1>7, ExecuteTypes DEF BaseInv
  <2>2. TaskOK'
    BY <1>1, <1>7, <2>1 DEF BaseInv, TaskOK
  <2> QED
    BY <1>2, <1>3, <1>4, <2>1, <2>2 DEF BaseInv
<1>8. ASSUME GiveUp, UNCHANGED <<faults, bg>> PROVE BaseInv'
  <2>1. LineOK' /\ TaskOK'
    BY <1>1, <1>2, <1>8, GiveUpTypes DEF BaseInv
  <2> QED
    BY <1>2, <1>3, <1>4, <2>1 DEF BaseInv
<1>9. ASSUME UNCHANGED <<line, bg, sock>>, conn' \in {conn, "post", "up"} PROVE BaseInv'
  <2>1. LineOK' /\ TaskOK'
    BY <1>1, <1>2, <1>9, LineKept DEF BaseInv, TaskOK
  <2> QED
    BY <1>2, <1>3, <1>4, <2>1 DEF BaseInv
<1>10. CASE UpCommand
  BY <1>7, <1>8, <1>10 DEF UpCommand
<1>11. CASE DrainCommand
  BY <1>7, <1>9, <1>11 DEF DrainCommand
<1>12. CASE DrainDone
  BY <1>9, <1>12 DEF DrainDone
<1> QED
  BY <1>6, <1>10, <1>11, <1>12

LEMMA CommandFailsTypes ==
    ASSUME BaseInv, UpCommandFails \/ DrainCommandFails \/ PostDrainFails
    PROVE  BaseInv'
<1>1. UNCHANGED <<relay, fresh, todo, harness, enqueued>> /\ RequestFails /\ evq' \in {evq, Signal}
  BY DEF UpCommandFails, DrainCommandFails, PostDrainFails
<1>2. LogOK' /\ Messages' = Messages /\ UNCHANGED <<log, member>>
  BY <1>1, LogKept DEF BaseInv, relay
<1>3. HarnessOK'
  BY <1>1, <1>2, HarnessKept DEF BaseInv
<1>4. QueuesOK'
  BY <1>1, <1>2, CommandTaken DEF BaseInv, RequestFails
<1>5. bg' \in States /\ Head(cmds) \in Commands
  BY <1>1, RequestFailsTypes DEF BaseInv, TaskOK
<1>6. CASE UpCommandFails \/ DrainCommandFails
  <2>1. GiveUp /\ (UNCHANGED faults \/ Fault)
    BY <1>6 DEF UpCommandFails, DrainCommandFails, WriteFails
  <2>2. LineOK' /\ TaskOK'
    BY <1>1, <1>2, <1>5, <2>1, GiveUpKeeps DEF BaseInv
  <2> QED
    BY <1>2, <1>3, <1>4, <2>2 DEF BaseInv
<1>7. CASE PostDrainFails
  <2>1. \E sub \in Subs : \E ts : SendFails("post", sub, ts)
    <3>1. Membership \in Subs /\ (Head(cmds).op = "subscribe" => Head(cmds).ch \in Subs)
      BY <1>5 DEF Commands, Subs
    <3> QED
      BY <1>7, <3>1 DEF PostDrainFails
  <2>2. LineOK'
    BY <1>2, <2>1, FailTypes DEF BaseInv
  <2>3. TaskOK'
    BY <1>1, <1>5, <1>7 DEF PostDrainFails, BaseInv, TaskOK
  <2> QED
    BY <1>2, <1>3, <1>4, <2>2, <2>3 DEF BaseInv
<1> QED
  BY <1>6, <1>7

LEMMA ReadTypes ==
    ASSUME BaseInv, ReadRefusal \/ ReadNotice \/ ReadClosed
    PROVE  BaseInv'
<1>1. UNCHANGED <<relay, conn, sock, fresh, todo, evq, cmds, harness, enqueued>>
  BY DEF ReadRefusal, ReadNotice, ReadClosed
<1>2. LogOK' /\ Messages' = Messages /\ UNCHANGED <<log, member>>
  BY <1>1, LogKept DEF BaseInv, relay
<1>3. QueuesOK' /\ HarnessOK'
  BY <1>1, <1>2, QueuesKept, HarnessKept DEF BaseInv
<1>4. wire # <<>> /\ wire \in Seq(Messages)
  BY DEF ReadRefusal, ReadNotice, ReadClosed, BaseInv, LineOK
<1>5. Head(wire) \in Messages /\ Tail(wire) \in Seq(Messages)
  BY <1>4, HeadTail
<1>6. bg \in States
  BY DEF BaseInv, TaskOK
<1>7. LineOK' /\ bg' \in States
  <2>1. ASSUME wire' = Tail(wire), UNCHANGED <<subs, faults>> PROVE LineOK'
    BY <1>2, <1>5, <2>1 DEF BaseInv, LineOK
  <2>2. CASE ReadRefusal
    <3> DEFINE sub == Head(wire).sub
    <3>1. LineOK'
      BY <2>1, <2>2 DEF ReadRefusal
    <3>2. CASE Head(wire).why = "denied" /\ bg' = ClearChannel(bg, sub)
      BY <1>5, <1>6, <2>2, <3>1, <3>2, MessageParts, ClearTypes DEF ReadRefusal
    <3>3. CASE sub \in Channels /\ bg' = [bg EXCEPT !.gate = TRUE, !.pending = @ \cup {sub}]
      BY <1>6, <3>1, <3>3 DEF States
    <3>4. CASE bg' = [bg EXCEPT !.gate = TRUE, !.mResub = TRUE]
      BY <1>6, <3>1, <3>4 DEF States
    <3> QED
      BY <2>2, <3>1, <3>2, <3>3, <3>4 DEF ReadRefusal
  <2>3. CASE ReadNotice
    <3>1. bg' = [bg EXCEPT !.gate = TRUE]
      BY <2>3 DEF ReadNotice
    <3>2. bg' \in States
      BY <1>6, <3>1 DEF States
    <3> QED
      BY <2>1, <2>3, <3>2 DEF ReadNotice
  <2>4. CASE ReadClosed
    <3> DEFINE sub == Head(wire).sub
    <3>1. sub \in Subs
      BY <1>5, <2>4, MessageParts DEF ReadClosed
    <3>2. (\E ts : SendOk(Tail(wire), sub, ts)) \/ (wire' = Tail(wire) /\ UNCHANGED <<subs, faults>>)
      BY <2>4 DEF ReadClosed
    <3>3. LineOK'
      BY <1>2, <1>5, <2>1, <3>1, <3>2, SendTypes DEF BaseInv
    <3>4. CASE bg' = [bg EXCEPT !.mDropped = 0]
      BY <1>6, <3>3, <3>4 DEF States
    <3>5. CASE sub \in bg.active /\ bg' = [bg EXCEPT !.dropped[sub] = 0]
      BY <1>6, <3>3, <3>5 DEF States, Stamps
    <3> QED
      BY <1>6, <2>4, <3>3, <3>4, <3>5 DEF ReadClosed
  <2> QED
    BY <2>2, <2>3, <2>4
<1>8. TaskOK'
  BY <1>1, <1>7 DEF BaseInv, TaskOK
<1> QED
  BY <1>2, <1>3, <1>7, <1>8 DEF BaseInv

LEMMA ReadItemTypes ==
    ASSUME BaseInv, ReadItem
    PROVE  BaseInv' /\ Head(wire) \in Messages /\ Head(wire).item \in log /\ wire' = Tail(wire)
<1> DEFINE i == Head(wire).item
<1>1. UNCHANGED <<relay, subs, conn, sock, fresh, todo, cmds, harness>>
  BY DEF ReadItem
<1>2. LogOK' /\ Messages' = Messages /\ UNCHANGED <<log, member>>
  BY <1>1, LogKept DEF BaseInv, relay
<1>3. wire # <<>> /\ wire' = Tail(wire) /\ Head(wire).type = "item" /\ wire \in Seq(Messages)
  BY DEF ReadItem, BaseInv, LineOK
<1>4. Head(wire) \in Messages /\ Tail(wire) \in Seq(Messages)
  BY <1>3, HeadTail
<1>5. i \in log
  BY <1>3, <1>4, MessageParts
<1>6. bg \in States /\ i.id \in Ids /\ enqueued \in [Ids -> Nat] /\ EventCap \in Nat
  BY <1>5, ClientAssumption DEF BaseInv, TaskOK, HarnessOK, LogOK, Items, Ids
<1>7. /\ evq \in Seq(log \cup {Lost}) /\ Len(evq) <= EventCap
      /\ cmds \in Seq(Commands) /\ Len(cmds) <= CmdCap
  BY DEF BaseInv, QueuesOK
<1>8. faults' \in 0..MaxFaults
  BY FaultTypes DEF ReadItem, BaseInv
<1>9. LineOK'
  BY <1>1, <1>2, <1>3, <1>4, <1>8 DEF BaseInv, LineOK
<1> HIDE DEF i
<1>10. \/ UNCHANGED <<bg, evq, enqueued>>
       \/ /\ Len(evq) < EventCap /\ bg' = Accept(bg, i) /\ evq' = Append(evq, i)
          /\ enqueued' = [enqueued EXCEPT ![i.id] = @ + 1]
       \/ bg' = Refuse(bg, i) /\ UNCHANGED <<evq, enqueued>>
  BY DEF ReadItem, i
<1>11. bg' \in States
  BY <1>5, <1>6, <1>10, AcceptTypes, RefuseTypes DEF BaseInv
<1>12. enqueued' \in [Ids -> Nat]
  BY <1>6, <1>10
<1>13. evq' \in Seq(log \cup {Lost}) /\ Len(evq') <= EventCap
  <2>1. CASE UNCHANGED evq
    BY <1>7, <2>1
  <2>2. CASE Len(evq) < EventCap /\ evq' = Append(evq, i)
    <3> DEFINE L == log \cup {Lost}
    <3>1. i \in L /\ evq \in Seq(L)
      BY <1>5, <1>7
    <3> HIDE DEF L
    <3>2. evq' \in Seq(L) /\ Len(evq') <= EventCap
      BY <1>6, <2>2, <3>1
    <3> QED
      BY <3>2 DEF L
  <2> QED
    BY <1>10, <2>1, <2>2
<1>14. QueuesOK'
  BY <1>1, <1>2, <1>7, <1>13 DEF QueuesOK
<1>15. TaskOK'
  BY <1>1, <1>11 DEF BaseInv, TaskOK
<1>16. HarnessOK'
  BY <1>1, <1>2, <1>12 DEF BaseInv, HarnessOK, harness
<1> QED
  BY <1>2, <1>3, <1>4, <1>5, <1>9, <1>14, <1>15, <1>16 DEF BaseInv, i

\* The harness takes from the event channel.
LEMMA HarnessTypes ==
    ASSUME BaseInv, Harness
    PROVE  BaseInv'
<1>1. Take
  BY DEF Harness, TakeEvent, TakeLoss, SkipNotice, ApplyNotice
<1>2. /\ evq # <<>> /\ evq' = Tail(evq)
      /\ UNCHANGED <<relay, line, conn, sock, fresh, todo, bg, enqueued>>
  BY <1>1 DEF Take
<1>3. LogOK' /\ LineOK' /\ TaskOK' /\ UNCHANGED <<log, member>>
  BY <1>2, LogKept, LineKept DEF BaseInv, relay, TaskOK
<1>4. /\ Head(evq) \in log \cup {Lost}
      /\ evq' \in Seq(log' \cup {Lost}) /\ Len(evq') <= EventCap
  BY <1>2, <1>3, QueueTails DEF BaseInv
<1>5. CmdCap \in Nat /\ cmds \in Seq(Commands) /\ Len(cmds) <= CmdCap
  BY ClientAssumption DEF BaseInv, QueuesOK
<1>6. Head(evq) = Lost => Head(evq).kind = "lost"
  BY DEF Lost
<1>7. IsNotice(Head(evq)) => /\ Head(evq) \in log /\ Head(evq).id \in Ids
                             /\ Head(evq).ch \in Channels /\ Head(evq).ts \in Nat
  BY <1>4, <1>6 DEF IsNotice, BaseInv, LogOK, Items, Ids
<1>8. cmds' \in Seq(Commands) /\ Len(cmds') <= CmdCap
  <2>1. [op |-> "reconnect"] \in Commands
    BY DEF Commands
  <2>2. \A c \in Channels, t \in Nat : /\ [op |-> "subscribe", ch |-> c, ts |-> t] \in Commands
                                       /\ [op |-> "unsubscribe", ch |-> c] \in Commands
    BY DEF Commands
  <2>3. UNCHANGED cmds \/ (Len(cmds) < CmdCap /\ \E m \in Commands : cmds' = Append(cmds, m))
    <3>1. CASE ApplyNotice
      BY <1>7, <2>2, <3>1 DEF ApplyNotice
    <3>2. CASE ~ApplyNotice
      BY <2>1, <3>2 DEF Harness, TakeEvent, TakeLoss, SkipNotice
    <3> QED
      BY <3>1, <3>2
  <2>4. \A m \in Commands : /\ Append(cmds, m) \in Seq(Commands)
                            /\ Len(Append(cmds, m)) = Len(cmds) + 1
    BY <1>5
  <2>5. Len(cmds) \in Nat
    BY <1>5
  <2> HIDE DEF Commands
  <2> QED
    BY <1>5, <2>3, <2>4, <2>5
<1>9. subscribed' \subseteq Channels /\ newest' \in Stamps /\ notices' \in TwoGens
  <2>1. subscribed \subseteq Channels /\ newest \in Stamps /\ notices \in TwoGens
    BY DEF BaseInv, HarnessOK
  <2>2. CASE TakeEvent \/ TakeLoss
    BY <2>1, <2>2 DEF TakeEvent, TakeLoss, harness
  <2>3. CASE SkipNotice
    BY <1>7, <2>1, <2>3, FilterTypes DEF SkipNotice
  <2>4. CASE ApplyNotice
    <3>1. subscribed' \subseteq Channels
      BY <1>7, <2>1, <2>4 DEF ApplyNotice
    <3>2. newest' \in Stamps
      BY <1>7, <2>1, <2>4 DEF ApplyNotice, Stamps
    <3>3. notices' \in TwoGens
      BY <1>7, <2>1, <2>4, FilterTypes DEF ApplyNotice
    <3> QED
      BY <3>1, <3>2, <3>3
  <2> QED
    BY <2>2, <2>3, <2>4 DEF Harness
<1>10. HarnessOK'
  BY <1>2, <1>3, <1>9 DEF BaseInv, HarnessOK
<1>11. QueuesOK'
  BY <1>4, <1>8 DEF QueuesOK
<1> QED
  BY <1>3, <1>10, <1>11 DEF BaseInv

LEMMA BaseStep == BaseInv /\ [Next]_vars => BaseInv'
<1> SUFFICES ASSUME BaseInv, [Next]_vars PROVE BaseInv'
  OBVIOUS
<1>1. CASE UNCHANGED vars
  <2>1. UNCHANGED <<relay, line, conn, sock, fresh, todo, bg, evq, cmds, harness, enqueued>>
    BY <1>1 DEF vars
  <2>2. LogOK' /\ LineOK' /\ UNCHANGED <<log, member>>
    BY <2>1, LogKept, LineKept DEF BaseInv, relay
  <2> QED
    BY <2>1, <2>2, QueuesKept, HarnessKept DEF BaseInv, TaskOK
<1>2. CASE Task
  BY <1>2, ConnectionTypes, ChannelTypes, MembershipTypes, CommandTypes, CommandFailsTypes,
     ReadTypes, ReadItemTypes DEF Task
<1>3. CASE Next /\ ~Task
  BY <1>3, HarnessTypes, RelayTypes, PublishTypes DEF Next, Subs
<1> QED
  BY <1>1, <1>2, <1>3

LEMMA BaseAlways == Spec => []BaseInv
BY BaseInit, BaseStep, PTL DEF Spec

\* What is cut off is only added to.
Excuse ==
    \/ UNCHANGED cut
    \/ \E S \in SUBSET Ids : \/ cut' = [cut EXCEPT !.ended = @ \cup S]
                             \/ cut' = [cut EXCEPT !.refused = @ \cup S]

LEMMA SendExcuse ==
    ASSUME LogOK, NEW rest, NEW sub, NEW ts, SendOk(rest, sub, ts)
    PROVE  Excuse
<1>1. Marked(sub) \in SUBSET Ids
  BY DEF Marked, Undelivered, LogOK, Items, Ids
<1> QED
  BY <1>1 DEF SendOk, Answer, Excuse

LEMMA GiveUpExcuse ==
    ASSUME LogOK, GiveUp
    PROVE  Excuse
<1>1. {i.id : i \in {j \in Undelivered : OnItsWay(j) /\ ~AskedNext(j)}} \in SUBSET Ids
  BY DEF Undelivered, LogOK, Items, Ids
<1> QED
  BY <1>1 DEF GiveUp, Excuse

LEMMA ExecuteExcuse ==
    ASSUME LogOK, NEW cmd \in Commands, Execute(cmd)
    PROVE  Excuse \/ cmd.op = "reconnect"
<1>1. UNCHANGED line => Excuse
  BY DEF line, Excuse
<1>2. CASE cmd.op = "subscribe"
  BY <1>1, <1>2, SendExcuse DEF Execute
<1>3. CASE cmd.op = "unsubscribe"
  BY <1>1, <1>3 DEF Execute, SendClose, Excuse
<1>4. CASE cmd.op = "membership"
  BY <1>1, <1>4, SendExcuse DEF Execute
<1>5. CASE cmd.op = "watermark"
  BY <1>1, <1>5 DEF Execute
<1> QED
  BY <1>2, <1>3, <1>4, <1>5 DEF Commands

LEMMA NextExcuse ==
    ASSUME BaseInv, [Next]_vars
    PROVE  Excuse
<1>1. LogOK /\ (cmds # <<>> => Head(cmds) \in Commands)
  <2>1. cmds \in Seq(Commands)
    BY DEF BaseInv, QueuesOK
  <2>2. cmds # <<>> => Head(cmds) \in Commands
    BY <2>1
  <2> QED
    BY <2>2 DEF BaseInv
<1>2. UNCHANGED line \/ UNCHANGED cut => Excuse
  BY DEF line, Excuse
<1>3. CASE DetectLoss \/ ResubscribeMembershipFails \/ UpCommandFails \/ DrainCommandFails \/ ReadClosedFails
  BY <1>1, <1>3, GiveUpExcuse DEF DetectLoss, ResubscribeMembershipFails, UpCommandFails,
                                  DrainCommandFails, ReadClosedFails
<1>4. CASE UpCommand \/ DrainCommand
  <2>1. cmds # <<>> /\ (Execute(Head(cmds)) \/ GiveUp \/ UNCHANGED line)
    BY <1>4 DEF UpCommand, DrainCommand
  <2>2. Head(cmds).op = "reconnect" => GiveUp \/ UNCHANGED line
    BY <1>4 DEF UpCommand, DrainCommand
  <2> QED
    BY <1>1, <1>2, <2>1, <2>2, GiveUpExcuse, ExecuteExcuse
<1>5. CASE Connect \/ ProactiveResubscribe \/ RecordIntent \/ DrainDone \/ GateExpires
  BY <1>2, <1>5 DEF Connect, ProactiveResubscribe, RecordIntent, DrainDone, GateExpires
<1>6. CASE ResubscribeMembership \/ DrainMembership \/ ReadClosed \/ PostDrainFails
  BY <1>1, <1>2, <1>6, SendExcuse DEF ResubscribeMembership, DrainMembership, ReadClosed, PostDrainFails,
                                      SendFails
<1>7. CASE ReadItem \/ ReadRefusal \/ ReadNotice \/ SocketDies \/ RelayThrottles
  BY <1>2, <1>7 DEF ReadItem, ReadRefusal, ReadNotice, SocketDies, RelayThrottles
<1>8. CASE \E c \in Channels : ResubscribeChannel(c) \/ DrainPending(c) \/ DrainRetry(c)
  BY <1>1, <1>2, <1>8, SendExcuse DEF ResubscribeChannel, DrainPending, DrainRetry, SendFails
<1>9. CASE Harness
  BY <1>2, <1>9 DEF Harness, TakeEvent, TakeLoss, SkipNotice, ApplyNotice, Take
<1>10. CASE \/ \E c \in Channels, k \in {"event", "added", "removed"} : Publish(c, k)
            \/ \E sub \in Channels \cup {Membership} : RelayCloses(sub)
  BY <1>2, <1>10 DEF Publish, RelayCloses
<1>11. CASE UNCHANGED vars
  BY <1>2, <1>11 DEF vars
<1> QED
  BY <1>3, <1>4, <1>5, <1>6, <1>7, <1>8, <1>9, <1>10, <1>11 DEF Next, Task

LEMMA CutStep ==
    ASSUME BaseInv, CutOK, [Next]_vars
    PROVE  CutOK' /\ Excused \subseteq Excused'
<1>1. Excuse
  BY NextExcuse
<1>2. CASE UNCHANGED cut
  BY <1>2 DEF CutOK, Excused, Ids
<1>3. ASSUME NEW S \in SUBSET Ids, \/ cut' = [cut EXCEPT !.ended = @ \cup S]
                                   \/ cut' = [cut EXCEPT !.refused = @ \cup S]
      PROVE  CutOK' /\ Excused \subseteq Excused'
  BY <1>3 DEF CutOK, Excused, Ids
<1> QED
  BY <1>1, <1>2, <1>3 DEF Excuse

LEMMA CutAlways == Spec => []CutOK
<1>1. Init => CutOK
  BY DEF Init, CutOK
<1> QED
  BY <1>1, CutStep, BaseAlways, PTL DEF Spec

\* Every reachable state of the connection has its types, and neither the event
\* channel nor the command channel ever holds more than its capacity, whatever
\* the relay sends and the socket does.
THEOREM ClientTypes == Spec => []TypeOK
<1>1. BaseInv /\ CutOK => TypeOK
  <2> SUFFICES ASSUME BaseInv, CutOK PROVE TypeOK
    OBVIOUS
  <2>1. \A k \in DOMAIN evq : evq[k] \in Items \cup {Lost}
    <3>1. log \subseteq Items /\ evq \in Seq(log \cup {Lost})
      BY DEF BaseInv, LogOK, QueuesOK
    <3> QED
      BY <3>1
  <2>2. \A k \in DOMAIN cmds : cmds[k] \in Commands
    <3>1. cmds \in Seq(Commands)
      BY DEF BaseInv, QueuesOK
    <3> QED
      BY <3>1
  <2> QED
    BY <2>1, <2>2 DEF BaseInv, CutOK, LogOK, LineOK, QueuesOK, TaskOK, HarnessOK, TypeOK
<1> QED
  BY <1>1, BaseAlways, CutAlways, PTL

(***************************************************************************)
(* No subscription comes back                                              *)
(***************************************************************************)
\* What a resubscription has still to do and what is to be retried is wanted.
WantedOnly == (conn = "resub" => todo \subseteq bg.active) /\ bg.retry \subseteq bg.active

\* What a command's intent does to the sets of channels.
LEMMA ApplyFields ==
    ASSUME NEW s \in States, NEW cmd \in Commands
    PROVE  LET t == ApplyCommand(s, cmd) IN
           /\ t.gate = s.gate /\ t.proactive = s.proactive /\ t.mResub = s.mResub /\ t.seen = s.seen
           /\ cmd.op # "unsubscribe" => t.pending = s.pending /\ t.retry = s.retry
           /\ cmd.op = "unsubscribe" => /\ t.pending = s.pending \ {cmd.ch} /\ t.retry = s.retry \ {cmd.ch}
                                        /\ t.active = s.active \ {cmd.ch}
           /\ cmd.op = "subscribe" => t.active = s.active \cup {cmd.ch}
           /\ cmd.op \in {"membership", "watermark", "reconnect"} => t.active = s.active
           /\ t.mActive = (s.mActive \/ cmd.op = "membership")
<1>1. CASE cmd.op = "subscribe"
  BY <1>1 DEF ApplyCommand, SeedSince, States
<1>2. CASE cmd.op = "unsubscribe"
  BY <1>2 DEF ApplyCommand, ClearChannel, States
<1>3. CASE cmd.op = "membership"
  BY <1>3 DEF ApplyCommand, States
<1>4. CASE cmd.op = "watermark"
  BY <1>4 DEF ApplyCommand, SetWatermark, States
<1>5. CASE cmd.op = "reconnect"
  BY <1>5 DEF ApplyCommand, States
<1> QED
  BY <1>1, <1>2, <1>3, <1>4, <1>5 DEF Commands

LEMMA ReadFields ==
    ASSUME LogOK, NEW s \in States, NEW i \in log
    PROVE  LET a == Accept(s, i) r == Refuse(s, i) IN
           /\ a.active = s.active /\ a.pending = s.pending /\ a.retry = s.retry
           /\ a.proactive = s.proactive /\ a.mResub = s.mResub /\ a.mActive = s.mActive
           /\ r.active = s.active /\ r.retry = s.retry /\ r.proactive
           /\ a.seen = Insert(s.seen, i.id, SeenHalf)
           /\ r.seen = Forget(Insert(s.seen, i.id, SeenHalf), i.id)
<1>1. i.ch \in Channels
  BY DEF LogOK, Items
<1> QED
  BY <1>1 DEF Accept, Refuse, States

\* Which channels a write can add to the relay's subscriptions.
LEMMA WriteAdds ==
    /\ \A rest, sub, ts : SendOk(rest, sub, ts) => subs' \subseteq subs \cup {sub}
    /\ \A place, sub, ts : SendFails(place, sub, ts) => subs' \subseteq subs \cup {sub}
    /\ \A c : SendClose(c) => subs' \subseteq subs
BY DEF SendOk, Answer, SendFails, SendClose

\* A command adds no channel but the one it makes active.
LEMMA ExecuteAdds ==
    ASSUME LogOK, bg \in States, NEW cmd \in Commands, cmd.op # "reconnect", Execute(cmd),
           bg.retry \subseteq bg.active
    PROVE  /\ \A c \in Channels : c \in subs' \ subs => c \in bg'.active
           /\ bg'.retry \subseteq bg'.active
<1> DEFINE s == ApplyCommand(bg, cmd)
<1>1. /\ cmd.op # "unsubscribe" => s.retry = bg.retry
      /\ cmd.op = "unsubscribe" => s.retry = bg.retry \ {cmd.ch} /\ s.active = bg.active \ {cmd.ch}
      /\ cmd.op = "subscribe" => s.active = bg.active \cup {cmd.ch}
      /\ cmd.op \in {"membership", "watermark"} => s.active = bg.active
  BY ApplyFields
<1>2. s \in States
  BY ApplyTypes DEF LogOK
<1>3. CASE cmd.op = "subscribe"
  <2>1. /\ \/ bg' = [s EXCEPT !.pending = @ \cup {cmd.ch}]
           \/ bg' = [s EXCEPT !.pending = @ \ {cmd.ch}, !.retry = @ \ {cmd.ch}]
        /\ subs' \subseteq subs \cup {cmd.ch}
    BY <1>3, WriteAdds DEF Execute, line
  <2> HIDE DEF s
  <2>2. bg'.active = s.active /\ bg'.retry \subseteq s.retry
    BY <1>2, <2>1 DEF States
  <2> QED
    BY <1>1, <1>3, <2>1, <2>2
<1>4. CASE cmd.op = "unsubscribe"
  <2>1. bg' = s /\ subs' \subseteq subs
    BY <1>4, WriteAdds DEF Execute, line
  <2> QED
    BY <1>1, <1>4, <2>1
<1>5. CASE cmd.op = "membership"
  <2>1. subs' \subseteq subs \cup {Membership} /\ bg'.active = bg.active /\ bg'.retry = bg.retry
    BY <1>5, WriteAdds DEF Execute, line, States
  <2> QED
    BY <2>1, ClientAssumption
<1>6. CASE cmd.op = "watermark"
  <2>1. bg' = s /\ subs' \subseteq subs
    BY <1>6 DEF Execute, line
  <2> QED
    BY <1>1, <1>6, <2>1
<1> QED
  BY <1>3, <1>4, <1>5, <1>6 DEF Commands

LEMMA WantedInit == Init => WantedOnly
BY DEF Init, InitialState, WantedOnly

\* A step keeps what is due wanted, and adds at the relay only what is wanted.
LEMMA WantedStep ==
    ASSUME BaseInv, WantedOnly, Next
    PROVE  WantedOnly' /\ \A c \in Channels : c \in subs' \ subs => c \in bg'.active
<1> USE DEF WantedOnly
<1>0. bg \in States /\ todo \subseteq Channels /\ LogOK /\ Membership \notin Channels
  BY ClientAssumption DEF BaseInv, TaskOK
<1>1. CASE RelayThrottles \/ SocketDies \/ GateExpires \/ \E sub \in Subs : RelayCloses(sub)
  <2>1. subs' \subseteq subs /\ UNCHANGED <<conn, todo>>
    BY <1>1 DEF RelayThrottles, SocketDies, GateExpires, RelayCloses, line
  <2>2. bg'.active = bg.active /\ bg'.retry = bg.retry
    BY <1>0, <1>1 DEF RelayThrottles, SocketDies, GateExpires, RelayCloses, States
  <2> QED
    BY <2>1, <2>2
<1>2. CASE \E c \in Channels, k \in {"event", "added", "removed"} : Publish(c, k)
  <2>1. subs' \subseteq subs /\ UNCHANGED <<conn, todo, bg>>
    BY <1>2 DEF Publish
  <2> QED
    BY <2>1
<1>3. CASE Harness
  <2>1. UNCHANGED <<subs, conn, todo, bg>>
    BY <1>3 DEF Harness, TakeEvent, TakeLoss, SkipNotice, ApplyNotice, Take, line
  <2> QED
    BY <2>1
<1>4. CASE DetectLoss \/ ResubscribeMembershipFails \/ ReadClosedFails
  <2>1. subs' = {} /\ conn' = "lost" /\ UNCHANGED bg
    BY <1>4 DEF DetectLoss, ResubscribeMembershipFails, ReadClosedFails, GiveUp
  <2> QED
    BY <2>1
<1>5. CASE Connect \/ ProactiveResubscribe
  <2>1. subs' = subs /\ todo' = bg.active
    BY <1>5 DEF Connect, ProactiveResubscribe, line
  <2>2. bg'.active = bg.active /\ bg'.retry \subseteq bg.retry
    BY <1>0, <1>5 DEF Connect, ProactiveResubscribe, States
  <2> QED
    BY <2>1, <2>2
<1>6. CASE ResubscribeMembership \/ DrainMembership
  <2>1. subs' \subseteq subs \cup {Membership}
    BY <1>6, WriteAdds DEF ResubscribeMembership, DrainMembership, line
  <2>2. bg'.active = bg.active /\ bg'.retry = bg.retry
    BY <1>0, <1>6 DEF ResubscribeMembership, DrainMembership, States
  <2>3. UNCHANGED todo /\ (conn' = "resub" => conn = "resub")
    BY <1>6 DEF ResubscribeMembership, DrainMembership
  <2> QED
    BY <1>0, <2>1, <2>2, <2>3
<1>7. ASSUME NEW c \in Channels, ResubscribeChannel(c) \/ DrainPending(c) \/ DrainRetry(c)
      PROVE  WantedOnly' /\ \A d \in Channels : d \in subs' \ subs => d \in bg'.active
  <2>1. subs' \subseteq subs \cup {c} /\ (c \notin bg.active => subs' = subs)
    BY <1>7, WriteAdds DEF ResubscribeChannel, DrainPending, DrainRetry, line
  <2>2. bg'.active = bg.active
    BY <1>0, <1>7 DEF ResubscribeChannel, DrainPending, DrainRetry, States
  <2>3. bg'.retry \subseteq bg.retry \cup {c} /\ (c \notin bg.active => bg'.retry \subseteq bg.retry)
    BY <1>0, <1>7 DEF ResubscribeChannel, DrainPending, DrainRetry, States
  <2>4. UNCHANGED conn /\ todo' \subseteq todo
    BY <1>7 DEF ResubscribeChannel, DrainPending, DrainRetry
  <2> QED
    BY <2>1, <2>2, <2>3, <2>4
<1>8. CASE RecordIntent
  <2>1. bg' = ApplyCommand(bg, Head(cmds)) /\ conn' # "resub" /\ UNCHANGED subs
    BY <1>8 DEF RecordIntent, line
  <2>2. Head(cmds) \in Commands
    BY <1>8, QueueTails DEF RecordIntent, BaseInv
  <2>3. bg'.retry \subseteq bg'.active
    BY <1>0, <2>1, <2>2, ApplyFields DEF Commands
  <2> QED
    BY <2>1, <2>3
<1>9. CASE UpCommand \/ DrainCommand
  <2>1. Head(cmds) \in Commands /\ conn' # "resub"
    BY <1>9, QueueTails DEF UpCommand, DrainCommand, BaseInv, GiveUp
  <2>2. CASE Head(cmds).op # "reconnect"
    <3>1. Execute(Head(cmds))
      BY <1>9, <2>2 DEF UpCommand, DrainCommand
    <3> QED
      BY <1>0, <2>1, <2>2, <3>1, ExecuteAdds
  <2>3. CASE Head(cmds).op = "reconnect"
    <3>1. subs' \subseteq subs /\ UNCHANGED bg
      BY <1>9, <2>3 DEF UpCommand, DrainCommand, GiveUp, line
    <3> QED
      BY <2>1, <3>1
  <2> QED
    BY <2>2, <2>3
<1>10. CASE UpCommandFails \/ DrainCommandFails \/ PostDrainFails
  <2> DEFINE cmd == Head(cmds)
             s == ApplyCommand(bg, cmd)
  <2>1. /\ cmds # <<>> /\ cmd.op \in {"subscribe", "membership"} /\ conn' # "resub"
        /\ bg' = IF cmd.op = "subscribe" THEN s ELSE [bg EXCEPT !.mActive = TRUE, !.mResub = TRUE]
    BY <1>10 DEF UpCommandFails, DrainCommandFails, PostDrainFails, RequestFails, GiveUp
  <2>2. cmd \in Commands
    BY <2>1, QueueTails DEF BaseInv
  <2>3. cmd.op = "subscribe" => bg'.active = bg.active \cup {cmd.ch} /\ bg'.retry = bg.retry
    BY <1>0, <2>1, <2>2, ApplyFields
  <2>4. cmd.op = "membership" => bg'.active = bg.active /\ bg'.retry = bg.retry
    BY <1>0, <2>1 DEF States
  <2>5. subs' \subseteq subs \cup {IF cmd.op = "subscribe" THEN cmd.ch ELSE Membership}
    BY <1>10, WriteAdds DEF UpCommandFails, DrainCommandFails, PostDrainFails, GiveUp
  <2> HIDE DEF cmd
  <2> QED
    BY <1>0, <2>1, <2>3, <2>4, <2>5
<1>11. CASE DrainDone
  BY <1>11 DEF DrainDone, line
<1>12. CASE ReadItem
  <2>1. UNCHANGED <<subs, conn, todo>>
    BY <1>12 DEF ReadItem
  <2>2. bg'.active = bg.active /\ bg'.retry = bg.retry
    <3>1. Head(wire).item \in log
      BY <1>12, ReadItemTypes
    <3> QED
      BY <1>0, <1>12, <3>1, ReadFields DEF ReadItem
  <2> QED
    BY <2>1, <2>2
<1>13. CASE ReadRefusal \/ ReadNotice
  <2>1. UNCHANGED <<subs, conn, todo>> /\ conn # "resub"
    BY <1>13 DEF ReadRefusal, ReadNotice, Ready
  <2>2. \/ bg' = ClearChannel(bg, Head(wire).sub)
        \/ bg'.retry = bg.retry /\ bg'.active = bg.active
    BY <1>0, <1>13 DEF ReadRefusal, ReadNotice, States
  <2>3. LET t == ClearChannel(bg, Head(wire).sub) IN
        t.retry = bg.retry \ {Head(wire).sub} /\ t.active = bg.active \ {Head(wire).sub}
    BY <1>0 DEF ClearChannel, States
  <2> QED
    BY <2>1, <2>2, <2>3
<1>14. CASE ReadClosed
  <2> DEFINE sub == Head(wire).sub
  <2>1. UNCHANGED <<conn, todo>> /\ conn # "resub"
    BY <1>14 DEF ReadClosed, Ready
  <2>2. bg'.active = bg.active /\ bg'.retry = bg.retry
    BY <1>0, <1>14 DEF ReadClosed, States
  <2>3. subs' \subseteq subs \cup {sub} /\ (sub \in Channels \ bg.active => subs' = subs)
    BY <1>0, <1>14, WriteAdds DEF ReadClosed
  <2> QED
    BY <2>1, <2>2, <2>3
<1> QED
  BY <1>1, <1>2, <1>3, <1>4, <1>5, <1>6, <1>7, <1>8, <1>9, <1>10, <1>11, <1>12, <1>13, <1>14
     DEF Next, Task, Subs

\* No late CLOSED, no parked and no retried entry and no resubscription under
\* way brings back a channel that the harness gave up: whatever the task sends,
\* a channel that becomes live at the relay is one that is active.
THEOREM GivenUpStaysGone == Spec => NoResurrection
<1> DEFINE Inv == BaseInv /\ WantedOnly
           Adds == \A c \in Channels : c \in subs' \ subs => c \in bg'.active
<1>1. Init => Inv
  BY BaseInit, WantedInit
<1>2. Inv /\ [Next]_vars => Inv' /\ [Adds]_vars
  <2> SUFFICES ASSUME Inv, [Next]_vars PROVE Inv' /\ [Adds]_vars
    OBVIOUS
  <2>1. CASE Next
    BY <2>1, BaseStep, WantedStep
  <2>2. CASE UNCHANGED vars
    BY <2>2, BaseStep DEF vars, WantedOnly
  <2> QED
    BY <2>1, <2>2
<1> QED
  BY <1>1, <1>2, PTL DEF Spec, NoResurrection

(***************************************************************************)
(* A wanted subscription is live or due                                    *)
(***************************************************************************)
Covered(sub) == sub \in subs \/ ResubscribeDue(sub)
WantedSubs == bg.active \cup (IF bg.mActive THEN {Membership} ELSE {})

\* After a failed write of the second drain the socket is dead.
DeadAfterFailure == conn = "failed" => ~sock

\* The wire goes on with w: every message of w keeps its place.
GoesOnWith(w) == \A k \in 1..Len(w) : k \in DOMAIN wire' /\ wire'[k] = w[k]

LEMMA Prefix ==
    ASSUME NEW S, NEW a \in Seq(S), NEW b \in Seq(S)
    PROVE  \A k \in 1..Len(a) : k \in DOMAIN (a \o b) /\ (a \o b)[k] = a[k]
OBVIOUS

LEMMA Pushing ==
    ASSUME NEW S, NEW a \in Seq(S), NEW x \in S
    PROVE  /\ \A k \in 1..Len(a) : k \in DOMAIN Append(a, x) /\ Append(a, x)[k] = a[k]
           /\ Len(a) + 1 \in DOMAIN Append(a, x) /\ Append(a, x)[Len(a) + 1] = x
OBVIOUS

LEMMA ClosedKept ==
    ASSUME NEW sub, OnWire(sub, "closed"), wire \in Seq(Messages), GoesOnWith(wire)
    PROVE  OnWire(sub, "closed")'
<1>1. PICK k \in DOMAIN wire : wire[k].type = "closed" /\ wire[k].sub = sub
  BY DEF OnWire
<1>2. k \in 1..Len(wire)
  BY <1>1
<1>3. k \in DOMAIN wire' /\ wire'[k] = wire[k]
  BY <1>2 DEF GoesOnWith
<1> QED
  BY <1>1, <1>3 DEF OnWire

LEMMA ClosedAfterRead ==
    ASSUME NEW sub, OnWire(sub, "closed"), wire \in Seq(Messages), wire # <<>>, GoesOnWith(Tail(wire)),
           ~(Head(wire).type = "closed" /\ Head(wire).sub = sub)
    PROVE  OnWire(sub, "closed")'
<1>1. PICK k \in DOMAIN wire : wire[k].type = "closed" /\ wire[k].sub = sub
  BY DEF OnWire
<1>2. k \in 1..Len(wire) /\ Len(wire) \in Nat /\ Len(Tail(wire)) = Len(wire) - 1
      /\ Head(wire) = wire[1] /\ \A j \in 1..Len(Tail(wire)) : Tail(wire)[j] = wire[j + 1]
  BY <1>1, HeadTail
<1>3. k # 1
  BY <1>1, <1>2
<1>4. k - 1 \in 1..Len(Tail(wire)) /\ Tail(wire)[k - 1] = wire[k]
  BY <1>2, <1>3
<1>5. k - 1 \in DOMAIN wire' /\ wire'[k - 1] = wire[k]
  BY <1>4 DEF GoesOnWith
<1> QED
  BY <1>1, <1>5 DEF OnWire

\* A REQ that is written makes the subscription live, or is answered with a
\* CLOSED, or was swallowed by a dead socket; it disturbs no other.
LEMMA SentCovers ==
    ASSUME LogOK, LineOK, NEW rest \in Seq(Messages), NEW sub \in Subs, NEW ts, SendOk(rest, sub, ts)
    PROVE  /\ subs \subseteq subs' /\ GoesOnWith(rest)
           /\ sub \in subs' \/ ~sock \/ OnWire(sub, "closed")'
<1>1. Replay(sub, SinceTs(ts)) \in Seq(Messages)
  BY ReplayTypes
<1>2. /\ Closed(sub, "rate-limited") \in Messages
      /\ sub # Membership => Closed(sub, "denied") \in Messages
  BY MessageKinds DEF Subs
<1>3. \A why : Closed(sub, why).type = "closed" /\ Closed(sub, why).sub = sub
  BY DEF Closed
<1>4. CASE sock /\ wire' = rest \o Replay(sub, SinceTs(ts)) /\ subs' = subs \cup {sub}
  BY <1>1, <1>4, Prefix DEF GoesOnWith
<1>5. ASSUME NEW why, Closed(sub, why) \in Messages, wire' = Append(rest, Closed(sub, why)), UNCHANGED subs
      PROVE  subs \subseteq subs' /\ GoesOnWith(rest) /\ OnWire(sub, "closed")'
  <2>1. /\ \A k \in 1..Len(rest) : k \in DOMAIN wire' /\ wire'[k] = rest[k]
        /\ Len(rest) + 1 \in DOMAIN wire' /\ wire'[Len(rest) + 1] = Closed(sub, why)
    BY <1>5, Pushing
  <2> QED
    BY <1>3, <1>5, <2>1 DEF GoesOnWith, OnWire
<1>6. CASE ~sock /\ wire' = rest /\ UNCHANGED subs
  BY <1>6 DEF GoesOnWith
<1> QED
  BY <1>2, <1>4, <1>5, <1>6 DEF SendOk, Answer

\* A REQ whose write fails disturbs nothing either.
LEMMA FailedWriteKeeps ==
    ASSUME LogOK, LineOK, NEW place, NEW sub, NEW ts, SendFails(place, sub, ts)
    PROVE  subs \subseteq subs' /\ GoesOnWith(wire)
<1>1. Replay(sub, SinceTs(ts)) \in Seq(Messages) /\ wire \in Seq(Messages)
  BY ReplayTypes DEF LineOK
<1>2. wire' = wire \/ wire' = wire \o Replay(sub, SinceTs(ts))
  BY DEF SendFails
<1>3. GoesOnWith(wire)
  BY <1>1, <1>2, Prefix DEF GoesOnWith
<1> QED
  BY <1>3 DEF SendFails

\* What keeps a subscription covered.
LEMMA StaysCovered ==
    ASSUME NEW sub, Covered(sub), subs \subseteq subs',
           OnWire(sub, "closed") => OnWire(sub, "closed")',
           sock' => sock, bg.proactive => bg'.proactive, conn = "lost" => conn' = "lost",
           conn = "resub" => conn' = "resub" /\ (sub \in todo => sub \in todo'),
           sub \in bg.pending \cup bg.retry => sub \in bg'.pending \cup bg'.retry,
           sub = Membership /\ bg.mResub => bg'.mResub
    PROVE  Covered(sub)'
BY DEF Covered, ResubscribeDue

CoverInv == DeadAfterFailure /\ \A sub \in WantedSubs : Covered(sub)

LEMMA PublishSends ==
    ASSUME NEW c, NEW kind, Publish(c, kind)
    PROVE  LET i == [id |-> Cardinality(log) + 1, ch |-> c, ts |-> clock + 1, kind |-> kind]
               live == IF SubOf(i) \in subs THEN <<Pushed(i, FALSE)>> ELSE <<>>
               evicted == IF kind = "removed" /\ c \in subs THEN <<Closed(c, "denied")>> ELSE <<>>
           IN  wire' = wire \o evicted \o live
BY DEF Publish

LEMMA RelayCovers ==
    ASSUME BaseInv, CoverInv,
           \/ GateExpires \/ SocketDies \/ RelayThrottles \/ \E sub \in Subs : RelayCloses(sub)
           \/ \E c \in Channels, k \in {"event", "added", "removed"} : Publish(c, k)
           \/ Harness
    PROVE  CoverInv'
<1>0. UNCHANGED <<conn, todo>> /\ (SocketDies \/ UNCHANGED sock)
  <2>1. Harness => UNCHANGED <<conn, todo, sock>>
    BY DEF Harness, TakeEvent, TakeLoss, SkipNotice, ApplyNotice, Take
  <2> QED
    BY <2>1 DEF GateExpires, SocketDies, RelayThrottles, RelayCloses, Publish
<1>1. UNCHANGED <<conn, todo>> /\ (sock' => sock) /\ DeadAfterFailure'
  BY <1>0 DEF SocketDies, CoverInv, DeadAfterFailure
<1>2. bg \in States /\ wire \in Seq(Messages) /\ LogOK
  BY DEF BaseInv, TaskOK, LineOK
<1>3. /\ bg'.active = bg.active /\ bg'.mActive = bg.mActive /\ bg'.pending = bg.pending
      /\ bg'.retry = bg.retry /\ bg'.proactive = bg.proactive /\ bg'.mResub = bg.mResub
  <2>1. GateExpires \/ bg' = bg
    BY DEF SocketDies, RelayThrottles, RelayCloses, Publish, Harness, TakeEvent, TakeLoss,
           SkipNotice, ApplyNotice, Take
  <2>2. GateExpires => bg' = [bg EXCEPT !.gate = FALSE]
    BY DEF GateExpires
  <2> QED
    BY <1>2, <2>1, <2>2 DEF States
<1>4. WantedSubs' = WantedSubs
  BY <1>3 DEF WantedSubs
<1>5. ASSUME NEW sub, Covered(sub), subs \subseteq subs', GoesOnWith(wire)
      PROVE  Covered(sub)'
  <2>1. OnWire(sub, "closed") => OnWire(sub, "closed")'
    BY <1>2, <1>5, ClosedKept
  <2> QED
    BY <1>1, <1>3, <1>5, <2>1, StaysCovered
<1>6. \A x \in Messages : wire' = Append(wire, x) => GoesOnWith(wire) /\ Len(wire) + 1 \in DOMAIN wire'
                                                     /\ wire'[Len(wire) + 1] = x
  BY <1>2, Pushing DEF GoesOnWith
<1>7. GoesOnWith(wire) \/ UNCHANGED wire => GoesOnWith(wire)
  BY <1>2 DEF GoesOnWith
<1>8. CASE GateExpires \/ Harness
  <2>1. UNCHANGED <<subs, wire>>
    BY <1>8 DEF GateExpires, Harness, TakeEvent, TakeLoss, SkipNotice, ApplyNotice, Take, line
  <2> QED
    BY <1>1, <1>4, <1>5, <1>7, <2>1 DEF CoverInv
<1>9. CASE SocketDies
  <2>1. ~sock'
    BY <1>9 DEF SocketDies
  <2> QED
    BY <1>1, <2>1 DEF CoverInv, Covered, ResubscribeDue
<1>10. CASE RelayThrottles
  <2>1. wire' = Append(wire, SlowDown) /\ UNCHANGED subs
    BY <1>10 DEF RelayThrottles
  <2>2. GoesOnWith(wire)
    BY <1>6, <2>1, MessageKinds
  <2> QED
    BY <1>1, <1>4, <1>5, <2>1, <2>2 DEF CoverInv
<1>11. ASSUME NEW gone \in Subs, RelayCloses(gone)
       PROVE  CoverInv'
  <2>1. wire' = Append(wire, Closed(gone, "error")) /\ subs' = subs \ {gone}
    BY <1>11 DEF RelayCloses
  <2>2. GoesOnWith(wire) /\ Len(wire) + 1 \in DOMAIN wire' /\ wire'[Len(wire) + 1] = Closed(gone, "error")
    BY <1>6, <2>1, MessageKinds
  <2>3. OnWire(gone, "closed")'
    BY <2>2 DEF OnWire, Closed
  <2>4. Covered(gone)'
    BY <2>3 DEF Covered, ResubscribeDue
  <2>5. ASSUME NEW sub \in WantedSubs, sub # gone PROVE Covered(sub)'
    <3>1. CASE sub \in subs
      BY <2>1, <2>5, <3>1 DEF Covered
    <3>2. CASE ResubscribeDue(sub)
      <4>1. OnWire(sub, "closed") => OnWire(sub, "closed")'
        BY <1>2, <2>2, ClosedKept
      <4> QED
        BY <1>1, <1>3, <3>2, <4>1 DEF Covered, ResubscribeDue
    <3> QED
      BY <2>5, <3>1, <3>2 DEF CoverInv, Covered
  <2> QED
    BY <1>1, <1>4, <2>4, <2>5 DEF CoverInv
<1>12. ASSUME NEW c \in Channels, NEW kind \in {"event", "added", "removed"}, Publish(c, kind)
       PROVE  CoverInv'
  <2> DEFINE i == [id |-> Cardinality(log) + 1, ch |-> c, ts |-> clock + 1, kind |-> kind]
             live == IF SubOf(i) \in subs THEN <<Pushed(i, FALSE)>> ELSE <<>>
             evicted == IF kind = "removed" /\ c \in subs THEN <<Closed(c, "denied")>> ELSE <<>>
  <2>0. subs' = IF kind = "removed" THEN subs \ {c} ELSE subs
    BY <1>12 DEF Publish
  <2>1. wire' = wire \o evicted \o live
    BY <1>12, PublishSends
  <2>2. \E S : wire \in Seq(S) /\ evicted \in Seq(S) /\ live \in Seq(S)
    <3> DEFINE S == Messages \cup {Closed(c, "denied"), Pushed(i, FALSE)}
    <3>2. Messages \subseteq S /\ Closed(c, "denied") \in S /\ Pushed(i, FALSE) \in S
      OBVIOUS
    <3> HIDE DEF S
    <3>1. wire \in Seq(S)
      BY <1>2, <3>2
    <3>3. evicted \in Seq(S) /\ live \in Seq(S)
      BY <3>2, Single, Zenon
    <3> QED
      BY <3>1, <3>3
  <2> HIDE DEF live
  <2>3. PICK S : wire \in Seq(S) /\ evicted \in Seq(S) /\ live \in Seq(S)
    BY <2>2
  <2>4. wire \o evicted \in Seq(S) /\ Len(wire \o evicted) = Len(wire) + Len(evicted)
    BY <2>3
  <2>5. \A k \in 1..Len(wire \o evicted) : k \in DOMAIN wire' /\ wire'[k] = (wire \o evicted)[k]
    BY <2>1, <2>3, <2>4, Prefix
  <2>6. GoesOnWith(wire)
    BY <2>3, <2>4, <2>5, Prefix DEF GoesOnWith
  <2>7. kind = "removed" /\ c \in subs => Covered(c)'
    <3> SUFFICES ASSUME kind = "removed" /\ c \in subs PROVE Covered(c)'
      OBVIOUS
    <3>1. evicted = <<Closed(c, "denied")>>
      OBVIOUS
    <3>2. Len(wire) + 1 \in 1..Len(wire \o evicted) /\ (wire \o evicted)[Len(wire) + 1] = Closed(c, "denied")
      BY <2>3, <3>1
    <3>3. OnWire(c, "closed")'
      BY <2>5, <3>2 DEF OnWire, Closed
    <3> QED
      BY <3>3 DEF Covered, ResubscribeDue
  <2>8. ASSUME NEW sub \in WantedSubs, ~(sub = c /\ kind = "removed" /\ c \in subs) PROVE Covered(sub)'
    <3>1. CASE sub \in subs
      BY <2>0, <2>8, <3>1 DEF Covered
    <3>2. CASE ResubscribeDue(sub)
      <4>1. OnWire(sub, "closed") => OnWire(sub, "closed")'
        BY <1>2, <2>6, ClosedKept
      <4> QED
        BY <1>1, <1>3, <3>2, <4>1 DEF Covered, ResubscribeDue
    <3> QED
      BY <2>8, <3>1, <3>2 DEF CoverInv, Covered
  <2> QED
    BY <1>1, <1>4, <2>7, <2>8 DEF CoverInv
<1> QED
  BY <1>8, <1>9, <1>10, <1>11, <1>12

\* A lost connection, and a resubscription that is starting, cover everything.
LEMMA ConnectionCovers ==
    ASSUME BaseInv, \/ conn' = "lost"
                    \/ Connect \/ ProactiveResubscribe
    PROVE  CoverInv'
<1>1. CASE conn' = "lost"
  BY <1>1 DEF CoverInv, DeadAfterFailure, Covered, ResubscribeDue
<1>2. CASE Connect \/ ProactiveResubscribe
  <2>1. bg \in States
    BY DEF BaseInv, TaskOK
  <2>2. conn' = "resub" /\ todo' = bg.active
    BY <1>2 DEF Connect, ProactiveResubscribe
  <2>3. bg'.active = bg.active
    BY <1>2, <2>1 DEF Connect, ProactiveResubscribe, States
  <2> QED
    BY <2>2, <2>3 DEF CoverInv, DeadAfterFailure, WantedSubs, Covered, ResubscribeDue
<1> QED
  BY <1>1, <1>2

LEMMA ChannelCovers ==
    ASSUME BaseInv, CoverInv, NEW c \in Channels,
           ResubscribeChannel(c) \/ DrainPending(c) \/ DrainRetry(c)
    PROVE  CoverInv'
<1>1. UNCHANGED <<conn, sock>> /\ DeadAfterFailure'
  BY DEF ResubscribeChannel, DrainPending, DrainRetry, CoverInv, DeadAfterFailure
<1>2. bg \in States /\ wire \in Seq(Messages) /\ LogOK /\ LineOK /\ c \in Subs /\ c # Membership
  BY ClientAssumption DEF BaseInv, TaskOK, LineOK, Subs
<1>3. /\ bg'.active = bg.active /\ bg'.mActive = bg.mActive
      /\ bg'.proactive = bg.proactive /\ bg'.mResub = bg.mResub
  BY <1>2 DEF ResubscribeChannel, DrainPending, DrainRetry, States
<1>4. bg.pending \subseteq bg'.pending \cup {c} /\ bg.retry \subseteq bg'.retry \cup {c}
  BY ZenonT(40), <1>2 DEF ResubscribeChannel, DrainPending, DrainRetry, States
<1>5. todo \subseteq todo' \cup {c}
  BY DEF ResubscribeChannel, DrainPending, DrainRetry
<1>6. \/ UNCHANGED line
      \/ SendOk(wire, c, ChannelSince(bg, c))
      \/ SendFails("replay", c, ChannelSince(bg, c))
  BY DEF ResubscribeChannel, DrainPending, DrainRetry
<1>7. subs \subseteq subs' /\ GoesOnWith(wire)
  <2>1. UNCHANGED line => subs \subseteq subs' /\ GoesOnWith(wire)
    BY <1>2 DEF line, GoesOnWith
  <2> QED
    BY <1>2, <1>6, <2>1, SentCovers, FailedWriteKeeps
<1>8. ASSUME NEW sub \in WantedSubs, sub # c PROVE Covered(sub)'
  <2>1. OnWire(sub, "closed") => OnWire(sub, "closed")'
    BY <1>2, <1>7, ClosedKept
  <2>2. Covered(sub)
    BY <1>8 DEF CoverInv
  <2> QED
    BY <1>1, <1>3, <1>4, <1>5, <1>7, <1>8, <2>1, <2>2, StaysCovered
<1>9. ASSUME c \in bg.active PROVE Covered(c)'
  <2>1. CASE SendOk(wire, c, ChannelSince(bg, c))
    BY <1>1, <1>2, <2>1, SentCovers DEF Covered, ResubscribeDue
  <2>2. CASE c \in bg'.pending \cup bg'.retry
    BY <2>2 DEF Covered, ResubscribeDue
  <2> QED
    BY <1>2, <1>9, <2>1, <2>2 DEF ResubscribeChannel, DrainPending, DrainRetry, States
<1>10. WantedSubs' = WantedSubs /\ (c \in WantedSubs => c \in bg.active)
  BY <1>2, <1>3 DEF WantedSubs
<1> QED
  BY <1>1, <1>8, <1>9, <1>10 DEF CoverInv

LEMMA MembershipCovers ==
    ASSUME BaseInv, CoverInv, ResubscribeMembership \/ DrainMembership
    PROVE  CoverInv'
<1>1. UNCHANGED <<sock, todo>> /\ conn' \in {"drain", "up"} /\ DeadAfterFailure'
  BY DEF ResubscribeMembership, DrainMembership, Ready, DeadAfterFailure
<1>2. bg \in States /\ wire \in Seq(Messages) /\ LogOK /\ LineOK /\ Membership \in Subs
      /\ Membership \notin Channels /\ bg.active \subseteq Channels
  BY ClientAssumption DEF BaseInv, TaskOK, LineOK, Subs, States
<1>3. /\ bg'.active = bg.active /\ bg'.mActive = bg.mActive /\ bg'.pending = bg.pending
      /\ bg'.proactive = bg.proactive /\ bg'.retry = bg.retry
  BY <1>2 DEF ResubscribeMembership, DrainMembership, States
<1>4. \/ UNCHANGED line
      \/ SendOk(wire, Membership, MembershipSince(bg))
      \/ SendFails("replay", Membership, MembershipSince(bg))
  BY DEF ResubscribeMembership, DrainMembership
<1>5. subs \subseteq subs' /\ GoesOnWith(wire)
  <2>1. UNCHANGED line => subs \subseteq subs' /\ GoesOnWith(wire)
    BY <1>2 DEF line, GoesOnWith
  <2> QED
    BY <1>2, <1>4, <2>1, SentCovers, FailedWriteKeeps
<1>6. ASSUME NEW c \in bg.active PROVE Covered(c)'
  <2>1. OnWire(c, "closed") => OnWire(c, "closed")'
    BY <1>2, <1>5, ClosedKept
  <2>2. Covered(c) /\ c # Membership
    BY <1>2 DEF CoverInv, WantedSubs
  <2>3. conn = "resub" => c \notin todo
    BY DEF ResubscribeMembership, DrainMembership, Ready
  <2>4. conn # "lost"
    BY DEF ResubscribeMembership, DrainMembership, Ready
  <2> QED
    BY <1>1, <1>3, <1>5, <2>1, <2>2, <2>3, <2>4 DEF Covered, ResubscribeDue
<1>7. ASSUME bg.mActive PROVE Covered(Membership)'
  <2>1. CASE SendOk(wire, Membership, MembershipSince(bg))
    BY <1>1, <1>2, <2>1, SentCovers DEF Covered, ResubscribeDue
  <2>2. CASE bg'.mResub
    BY <2>2 DEF Covered, ResubscribeDue
  <2> QED
    BY <1>2, <1>7, <2>1, <2>2 DEF ResubscribeMembership, DrainMembership, States
<1> QED
  BY <1>1, <1>3, <1>6, <1>7 DEF CoverInv, WantedSubs

\* A command covers the subscription it asks for and uncovers only what it gives up.
LEMMA ExecuteCovers ==
    ASSUME BaseInv, CoverInv, NEW cmd \in Commands, cmd.op # "reconnect", Execute(cmd),
           UNCHANGED <<conn, sock, todo>>
    PROVE  CoverInv'
<1> DEFINE s == ApplyCommand(bg, cmd)
<1>1. DeadAfterFailure'
  BY DEF CoverInv, DeadAfterFailure
<1>2. bg \in States /\ wire \in Seq(Messages) /\ LogOK /\ LineOK /\ s \in States
  BY ApplyTypes DEF BaseInv, TaskOK, LineOK, LogOK
<1>3. /\ s.proactive = bg.proactive /\ s.mResub = bg.mResub
      /\ cmd.op # "unsubscribe" => s.pending = bg.pending /\ s.retry = bg.retry
      /\ cmd.op = "unsubscribe" => /\ s.pending = bg.pending \ {cmd.ch} /\ s.retry = bg.retry \ {cmd.ch}
                                   /\ s.active = bg.active \ {cmd.ch}
      /\ cmd.op = "subscribe" => s.active = bg.active \cup {cmd.ch}
      /\ cmd.op \in {"membership", "watermark"} => s.active = bg.active
      /\ s.mActive = (bg.mActive \/ cmd.op = "membership")
  BY <1>2, ApplyFields
<1>4. bg.active \subseteq Channels /\ Membership \notin Channels
      /\ (cmd.op \in {"subscribe", "unsubscribe"} => cmd.ch \in Channels)
  BY <1>2, ClientAssumption DEF States, Commands
<1> HIDE DEF s
<1>5. UNCHANGED line => subs \subseteq subs' /\ GoesOnWith(wire)
  BY <1>2 DEF line, GoesOnWith
<1>6. ASSUME NEW sub \in WantedSubs, subs \subseteq subs' \cup {cmd.ch}, sub # cmd.ch, GoesOnWith(wire),
             bg'.proactive = bg.proactive, bg.pending \subseteq bg'.pending \cup {cmd.ch},
             bg.retry \subseteq bg'.retry \cup {cmd.ch}, bg'.mResub = bg.mResub
      PROVE  Covered(sub)'
  <2>1. OnWire(sub, "closed") => OnWire(sub, "closed")'
    BY <1>2, <1>6, ClosedKept
  <2>2. Covered(sub)
    BY <1>6 DEF CoverInv
  <2> QED
    BY <1>6, <2>1, <2>2 DEF Covered, ResubscribeDue
<1>7. CASE cmd.op = "subscribe"
  <2>1. /\ bg'.active = s.active /\ bg'.mActive = s.mActive /\ bg'.proactive = s.proactive
        /\ bg'.mResub = s.mResub /\ s.pending \subseteq bg'.pending \cup {cmd.ch}
        /\ s.retry \subseteq bg'.retry \cup {cmd.ch}
        /\ bg.gate => cmd.ch \in bg'.pending
    <3>1. \/ bg.gate /\ bg' = [s EXCEPT !.pending = @ \cup {cmd.ch}]
          \/ ~bg.gate /\ bg' = [s EXCEPT !.pending = @ \ {cmd.ch}, !.retry = @ \ {cmd.ch}]
      BY <1>7 DEF Execute, s
    <3>2. CASE bg.gate /\ bg' = [s EXCEPT !.pending = @ \cup {cmd.ch}]
      BY <1>2, <3>2 DEF States
    <3>3. CASE ~bg.gate /\ bg' = [s EXCEPT !.pending = @ \ {cmd.ch}, !.retry = @ \ {cmd.ch}]
      BY <1>2, <3>3 DEF States
    <3> QED
      BY <3>1, <3>2, <3>3
  <2>2. /\ bg.gate => UNCHANGED line
        /\ ~bg.gate => SendOk(wire, cmd.ch, OrElse(s.lastSeen[cmd.ch], s.subSince[cmd.ch]))
    BY <1>7 DEF Execute, s
  <2>3. /\ subs \subseteq subs' /\ GoesOnWith(wire)
        /\ ~bg.gate => cmd.ch \in subs' \/ ~sock \/ OnWire(cmd.ch, "closed")'
    <3>1. cmd.ch \in Subs
      BY <1>4, <1>7 DEF Subs
    <3> QED
      BY <1>2, <1>5, <2>2, <3>1, SentCovers
  <2>4. Covered(cmd.ch)'
    BY <2>1, <2>3 DEF Covered, ResubscribeDue
  <2>5. \A sub \in WantedSubs : sub # cmd.ch => Covered(sub)'
    BY <1>3, <1>6, <1>7, <2>1, <2>3
  <2>6. WantedSubs' = WantedSubs \cup {cmd.ch}
    BY <1>3, <1>7, <2>1 DEF WantedSubs
  <2> QED
    BY <1>1, <2>4, <2>5, <2>6 DEF CoverInv
<1>8. CASE cmd.op = "unsubscribe"
  <2>1. bg' = s /\ (SendClose(cmd.ch) \/ UNCHANGED line)
    BY <1>8 DEF Execute, s
  <2>2. subs \subseteq subs' \cup {cmd.ch} /\ UNCHANGED wire
    BY <2>1 DEF SendClose, line
  <2>3. GoesOnWith(wire)
    BY <1>2, <2>2 DEF GoesOnWith
  <2>4. \A sub \in WantedSubs : sub # cmd.ch => Covered(sub)'
    BY <1>3, <1>6, <1>8, <2>1, <2>2, <2>3
  <2>5. WantedSubs' = WantedSubs \ {cmd.ch}
    BY <1>3, <1>4, <1>8, <2>1 DEF WantedSubs
  <2> QED
    BY <1>1, <2>4, <2>5 DEF CoverInv
<1>9. CASE cmd.op = "membership"
  <2>1. /\ bg'.active = bg.active /\ bg'.mActive /\ bg'.proactive = bg.proactive
        /\ bg'.pending = bg.pending /\ bg'.retry = bg.retry /\ (bg.gate => bg'.mResub)
    BY <1>2, <1>9 DEF Execute, States
  <2>2. /\ bg.gate => UNCHANGED line
        /\ ~bg.gate => SendOk(wire, Membership, OrElse(bg.mLast, bg.watermark))
    BY <1>9 DEF Execute
  <2>3. /\ subs \subseteq subs' /\ GoesOnWith(wire)
        /\ ~bg.gate => Membership \in subs' \/ ~sock \/ OnWire(Membership, "closed")'
    <3>1. Membership \in Subs
      BY DEF Subs
    <3> QED
      BY <1>2, <1>5, <2>2, <3>1, SentCovers
  <2>4. Covered(Membership)'
    BY <2>1, <2>3 DEF Covered, ResubscribeDue
  <2>5. ASSUME NEW c \in bg.active PROVE Covered(c)'
    <3>1. OnWire(c, "closed") => OnWire(c, "closed")'
      BY <1>2, <2>3, ClosedKept
    <3>2. Covered(c) /\ c # Membership
      BY <1>4 DEF CoverInv, WantedSubs
    <3> QED
      BY <2>1, <2>3, <3>1, <3>2 DEF Covered, ResubscribeDue
  <2> QED
    BY <1>1, <2>1, <2>4, <2>5 DEF CoverInv, WantedSubs
<1>10. CASE cmd.op = "watermark"
  <2>1. bg' = s /\ UNCHANGED line
    BY <1>10 DEF Execute, s
  <2>2. ASSUME NEW sub \in WantedSubs PROVE Covered(sub)'
    <3>1. OnWire(sub, "closed") => OnWire(sub, "closed")'
      BY <1>2, <1>5, <2>1, ClosedKept
    <3>2. Covered(sub)
      BY DEF CoverInv
    <3> QED
      BY <1>3, <1>5, <1>10, <2>1, <3>1, <3>2 DEF Covered, ResubscribeDue
  <2>3. WantedSubs' = WantedSubs
    BY <1>3, <1>10, <2>1 DEF WantedSubs
  <2> QED
    BY <1>1, <2>2, <2>3 DEF CoverInv
<1> QED
  BY <1>7, <1>8, <1>9, <1>10 DEF Commands

\* Reading a message loses nothing: a CLOSED is answered, parked or given up on.
LEMMA ReadCovers ==
    ASSUME BaseInv, CoverInv, ReadItem \/ ReadRefusal \/ ReadNotice \/ ReadClosed
    PROVE  CoverInv'
<1>0. PICK sub : sub = Head(wire).sub
  OBVIOUS
<1>1. UNCHANGED <<conn, sock, todo>> /\ conn = "up" /\ DeadAfterFailure'
  BY DEF ReadItem, ReadRefusal, ReadNotice, ReadClosed, Ready, DeadAfterFailure
<1>2. bg \in States /\ wire \in Seq(Messages) /\ LogOK /\ LineOK /\ wire # <<>>
      /\ bg.active \subseteq Channels /\ Membership \notin Channels
  BY ClientAssumption DEF ReadItem, ReadRefusal, ReadNotice, ReadClosed, BaseInv, TaskOK, LineOK, States
<1>3. Head(wire) \in Messages /\ Tail(wire) \in Seq(Messages)
  BY <1>2, HeadTail
<1>4. wire' = Tail(wire) => GoesOnWith(Tail(wire))
  BY <1>3 DEF GoesOnWith
<1>5. ASSUME NEW x \in WantedSubs, ~(Head(wire).type = "closed" /\ Head(wire).sub = x),
             GoesOnWith(Tail(wire)), subs \subseteq subs', bg.proactive => bg'.proactive,
             x \in bg.pending \cup bg.retry => x \in bg'.pending \cup bg'.retry,
             bg.mResub => bg'.mResub
      PROVE  Covered(x)'
  <2>1. OnWire(x, "closed") => OnWire(x, "closed")'
    BY <1>2, <1>5, ClosedAfterRead
  <2>2. Covered(x)
    BY <1>5 DEF CoverInv
  <2> QED
    BY <1>1, <1>5, <2>1, <2>2, StaysCovered
<1>6. CASE ReadItem
  <2>1. Head(wire).item \in log /\ wire' = Tail(wire) /\ Head(wire).type = "item" /\ UNCHANGED subs
    BY <1>6, ReadItemTypes DEF ReadItem
  <2>2. CASE bg' = Refuse(bg, Head(wire).item)
    <3>1. bg'.proactive
      BY <1>2, <2>1, <2>2, ReadFields
    <3> QED
      BY <1>1, <3>1 DEF CoverInv, Covered, ResubscribeDue
  <2>3. CASE bg' \in {bg, Accept(bg, Head(wire).item)}
    <3>1. /\ bg'.active = bg.active /\ bg'.mActive = bg.mActive /\ bg'.proactive = bg.proactive
          /\ bg'.pending = bg.pending /\ bg'.retry = bg.retry /\ bg'.mResub = bg.mResub
      BY <1>2, <2>1, <2>3, ReadFields
    <3>2. WantedSubs' = WantedSubs
      BY <3>1 DEF WantedSubs
    <3>3. \A x \in WantedSubs : Covered(x)'
      BY <1>0, <1>4, <1>5, <2>1, <3>1
    <3> QED
      BY <1>1, <3>2, <3>3 DEF CoverInv
  <2> QED
    BY <1>6, <2>2, <2>3 DEF ReadItem
<1>7. CASE ReadNotice
  <2>1. /\ wire' = Tail(wire) /\ UNCHANGED subs /\ bg' = [bg EXCEPT !.gate = TRUE]
        /\ Head(wire).type = "notice"
    BY <1>7 DEF ReadNotice, SlowDown
  <2>2. /\ bg'.active = bg.active /\ bg'.mActive = bg.mActive /\ bg'.proactive = bg.proactive
        /\ bg'.pending = bg.pending /\ bg'.retry = bg.retry /\ bg'.mResub = bg.mResub
    BY <1>2, <2>1 DEF States
  <2>3. WantedSubs' = WantedSubs
    BY <2>2 DEF WantedSubs
  <2>4. \A x \in WantedSubs : Covered(x)'
    BY <1>4, <1>5, <2>1, <2>2
  <2> QED
    BY <1>1, <2>3, <2>4 DEF CoverInv
<1>8. CASE ReadRefusal
  <2>1. wire' = Tail(wire) /\ UNCHANGED subs /\ Head(wire).type = "closed"
    BY <1>8 DEF ReadRefusal
  <2>2. Head(wire).why = "denied" => sub \in Channels
    BY <1>0, <1>3, <2>1, MessageParts
  <2>3. CASE Head(wire).why = "denied" /\ bg' = ClearChannel(bg, sub)
    <3>1. /\ bg'.active = bg.active \ {sub} /\ bg'.mActive = bg.mActive /\ bg'.proactive = bg.proactive
          /\ bg'.pending = bg.pending \ {sub} /\ bg'.retry = bg.retry \ {sub} /\ bg'.mResub = bg.mResub
      BY <1>2, <2>3 DEF ClearChannel, States
    <3>2. WantedSubs' = WantedSubs \ {sub}
      BY <1>2, <2>2, <2>3, <3>1 DEF WantedSubs
    <3>3. \A x \in WantedSubs : x # sub => Covered(x)'
      BY <1>0, <1>4, <1>5, <2>1, <3>1
    <3> QED
      BY <1>1, <3>2, <3>3 DEF CoverInv
  <2>4. CASE bg' = [bg EXCEPT !.gate = TRUE, !.pending = @ \cup {sub}]
    <3>1. /\ bg'.active = bg.active /\ bg'.mActive = bg.mActive /\ bg'.proactive = bg.proactive
          /\ bg'.pending = bg.pending \cup {sub} /\ bg'.retry = bg.retry /\ bg'.mResub = bg.mResub
      BY <1>2, <2>4 DEF States
    <3>2. WantedSubs' = WantedSubs
      BY <3>1 DEF WantedSubs
    <3>3. \A x \in WantedSubs : x # sub => Covered(x)'
      BY <1>0, <1>4, <1>5, <2>1, <3>1
    <3>4. Covered(sub)'
      BY <3>1 DEF Covered, ResubscribeDue
    <3> QED
      BY <1>1, <3>2, <3>3, <3>4 DEF CoverInv
  <2>5. CASE sub = Membership /\ bg' = [bg EXCEPT !.gate = TRUE, !.mResub = TRUE]
    <3>1. /\ bg'.active = bg.active /\ bg'.mActive = bg.mActive /\ bg'.proactive = bg.proactive
          /\ bg'.pending = bg.pending /\ bg'.retry = bg.retry /\ bg'.mResub
      BY <1>2, <2>5 DEF States
    <3>2. WantedSubs' = WantedSubs
      BY <3>1 DEF WantedSubs
    <3>3. \A x \in WantedSubs : x # sub => Covered(x)'
      BY <1>0, <1>4, <1>5, <2>1, <3>1
    <3>4. Covered(sub)'
      BY <2>5, <3>1 DEF Covered, ResubscribeDue
    <3> QED
      BY <1>1, <3>2, <3>3, <3>4 DEF CoverInv
  <2> QED
    BY <1>0, <1>8, <2>3, <2>4, <2>5 DEF ReadRefusal
<1>9. CASE ReadClosed
  <2>1. Head(wire).type = "closed" /\ sub \in Subs
    BY <1>0, <1>3, <1>9, MessageParts DEF ReadClosed
  <2>2. /\ bg'.active = bg.active /\ bg'.mActive = bg.mActive /\ bg'.proactive = bg.proactive
        /\ bg'.pending = bg.pending /\ bg'.retry = bg.retry /\ bg'.mResub = bg.mResub
    BY <1>2, <1>9 DEF ReadClosed, States
  <2>3. WantedSubs' = WantedSubs
    BY <2>2 DEF WantedSubs
  <2>4. CASE \E ts : SendOk(Tail(wire), sub, ts)
    <3>1. /\ subs \subseteq subs' /\ GoesOnWith(Tail(wire))
          /\ sub \in subs' \/ ~sock \/ OnWire(sub, "closed")'
      BY <1>2, <1>3, <2>1, <2>4, SentCovers
    <3>2. Covered(sub)'
      BY <1>1, <3>1 DEF Covered, ResubscribeDue
    <3>3. \A x \in WantedSubs : x # sub => Covered(x)'
      BY <1>0, <1>5, <2>2, <3>1
    <3> QED
      BY <1>1, <2>3, <3>2, <3>3 DEF CoverInv
  <2>5. CASE sub \in Channels \ bg.active /\ wire' = Tail(wire) /\ UNCHANGED subs
    <3>1. \A x \in WantedSubs : x # sub
      BY <1>2, <2>5 DEF WantedSubs
    <3>2. \A x \in WantedSubs : Covered(x)'
      BY <1>0, <1>4, <1>5, <2>2, <2>5, <3>1
    <3> QED
      BY <1>1, <2>3, <3>2 DEF CoverInv
  <2> QED
    BY <1>0, <1>9, <2>4, <2>5 DEF ReadClosed
<1> QED
  BY <1>6, <1>7, <1>8, <1>9

LEMMA CoverStep ==
    ASSUME "post" \notin SlowSends, BaseInv, CoverInv, [Next]_vars
    PROVE  CoverInv'
<1>1. CASE UNCHANGED vars
  BY <1>1 DEF vars, line, CoverInv, DeadAfterFailure, WantedSubs, Covered, ResubscribeDue, OnWire
<1>2. CASE DetectLoss \/ ResubscribeMembershipFails \/ ReadClosedFails \/ UpCommandFails
           \/ DrainCommandFails
  <2>1. conn' = "lost"
    BY <1>2 DEF DetectLoss, ResubscribeMembershipFails, ReadClosedFails, UpCommandFails,
                DrainCommandFails, GiveUp
  <2> QED
    BY <2>1, ConnectionCovers
<1>3. CASE Connect \/ ProactiveResubscribe
  BY <1>3, ConnectionCovers
<1>4. CASE RecordIntent
  <2>1. conn' = "lost" \/ (conn' = "failed" /\ ~sock')
    BY <1>4 DEF RecordIntent, CoverInv, DeadAfterFailure
  <2> QED
    BY <2>1 DEF CoverInv, DeadAfterFailure, Covered, ResubscribeDue
<1>5. CASE PostDrainFails
  <2>1. ~sock'
    BY <1>5 DEF PostDrainFails, SendFails, WriteFails
  <2> QED
    BY <2>1 DEF CoverInv, DeadAfterFailure, Covered, ResubscribeDue
<1>6. CASE UpCommand \/ DrainCommand
  <2>1. Head(cmds) \in Commands
    BY <1>6, QueueTails DEF UpCommand, DrainCommand, BaseInv
  <2>2. CASE Head(cmds).op # "reconnect"
    BY <1>6, <2>1, <2>2, ExecuteCovers DEF UpCommand, DrainCommand
  <2>3. CASE UpCommand /\ Head(cmds).op = "reconnect"
    <3>1. conn' = "lost"
      BY <2>3 DEF UpCommand, GiveUp
    <3> QED
      BY <3>1, ConnectionCovers
  <2>4. CASE DrainCommand /\ Head(cmds).op = "reconnect"
    <3>1. UNCHANGED <<subs, wire, bg, conn, sock, todo>>
      BY <2>4 DEF DrainCommand, line
    <3> QED
      BY <3>1 DEF CoverInv, DeadAfterFailure, WantedSubs, Covered, ResubscribeDue, OnWire
  <2> QED
    BY <1>6, <2>2, <2>3, <2>4
<1>7. CASE DrainDone
  <2>1. UNCHANGED <<subs, wire, bg, sock, todo>> /\ conn \notin {"lost", "resub"} /\ conn' # "failed"
    BY <1>7 DEF DrainDone, line
  <2> QED
    BY <2>1 DEF CoverInv, DeadAfterFailure, WantedSubs, Covered, ResubscribeDue, OnWire
<1>8. CASE ResubscribeMembership \/ DrainMembership
  BY <1>8, MembershipCovers
<1>9. CASE ReadItem \/ ReadRefusal \/ ReadNotice \/ ReadClosed
  BY <1>9, ReadCovers
<1>10. CASE \E c \in Channels : ResubscribeChannel(c) \/ DrainPending(c) \/ DrainRetry(c)
  BY <1>10, ChannelCovers
<1>11. CASE Next /\ ~Task
  BY <1>11, RelayCovers DEF Next, Subs
<1> QED
  BY <1>1, <1>2, <1>3, <1>4, <1>5, <1>6, <1>7, <1>8, <1>9, <1>10, <1>11 DEF Next, Task

\* A subscription that the harness wants is live at the relay, or something is on
\* its way to make it so, whatever is lost, refused, closed or throttled: no race
\* of the rate-limit gate, the parked and retried entries, the reconnect path and
\* the commands forgets one.  A write of the drain that follows a reconnect must
\* not time out on a live socket: its failure is swallowed there.
THEOREM NoneForgotten ==
    ASSUME "post" \notin SlowSends
    PROVE  Spec => []ActiveCovered
<1>1. Init => CoverInv
  BY DEF Init, InitialState, CoverInv, DeadAfterFailure, WantedSubs
<1>2. BaseInv /\ CoverInv /\ [Next]_vars => CoverInv'
  BY CoverStep
<1>3. CoverInv => ActiveCovered
  BY DEF CoverInv, WantedSubs, Covered, ActiveCovered
<1> QED
  BY <1>1, <1>2, <1>3, BaseAlways, PTL DEF Spec

(***************************************************************************)
(* The membership the harness settles on                                   *)
(***************************************************************************)
NoticesOf(c) == {i \in log : IsNotice(i) /\ i.ch = c}

SeenOf(g) == g.current \cup g.previous

\* A notice that was seen is no newer than what the harness knows of its channel.
SeenIsOld ==
    /\ SeenOf(notices) \subseteq 1..Cardinality(log)
    /\ \A i \in log : IsNotice(i) /\ i.id \in SeenOf(notices) => i.ts <= newest[i.ch]

\* What the harness is subscribed to follows from the newest notice it applied ...
FollowsNewest ==
    \A c \in Channels :
        \/ newest[c] = 0 /\ (c \in subscribed <=> c \in Founding)
        \/ \E i \in NoticesOf(c) : i.ts = newest[c] /\ (i.kind = "added" <=> c \in subscribed)

\* ... and what the agent is a member of from the newest one that the relay stores.
NewestDecides ==
    \A c \in Channels :
        \/ NoticesOf(c) = {} /\ (c \in member <=> c \in Founding)
        \/ \E i \in NoticesOf(c) : /\ \A j \in NoticesOf(c) : j.ts <= i.ts
                                   /\ i.kind = "added" <=> c \in member

SettlingInv == SeenIsOld /\ FollowsNewest /\ NewestDecides

LEMMA InsertKeeps ==
    ASSUME NEW g \in TwoGens, NEW x, NEW half
    PROVE  SeenOf(Insert(g, x, half)) \subseteq SeenOf(g) \cup {x}
BY DEF Insert, Rotate, SeenOf, TwoGens

\* Everything but a publication and a notice leaves the membership alone.
LEMMA MembershipLeft ==
    ASSUME Next, ~SkipNotice, ~ApplyNotice,
           ~(\E c \in Channels, k \in {"event", "added", "removed"} : Publish(c, k))
    PROVE  UNCHANGED <<log, member, newest, notices, subscribed>>
<1>1. CASE Task
  <2>1. CASE \E c \in Channels : ResubscribeChannel(c) \/ DrainPending(c) \/ DrainRetry(c)
    BY <2>1 DEF ResubscribeChannel, DrainPending, DrainRetry, relay, harness
  <2>2. CASE DetectLoss \/ Connect \/ ProactiveResubscribe \/ ResubscribeMembership
             \/ ResubscribeMembershipFails \/ RecordIntent
    BY <2>2 DEF DetectLoss, Connect, ProactiveResubscribe, ResubscribeMembership,
                ResubscribeMembershipFails, RecordIntent, relay, harness
  <2>3. CASE UpCommand \/ UpCommandFails \/ DrainCommand \/ DrainCommandFails \/ PostDrainFails
             \/ DrainDone
    BY <2>3 DEF UpCommand, UpCommandFails, DrainCommand, DrainCommandFails, PostDrainFails, DrainDone,
                relay, harness
  <2>4. CASE DrainMembership \/ ReadItem \/ ReadRefusal \/ ReadNotice \/ ReadClosed \/ ReadClosedFails
    BY <2>4 DEF DrainMembership, ReadItem, ReadRefusal, ReadNotice, ReadClosed, ReadClosedFails,
                relay, harness
  <2> QED
    BY <1>1, <2>1, <2>2, <2>3, <2>4 DEF Task
<1>2. CASE Harness
  BY <1>2 DEF Harness, TakeEvent, TakeLoss, Take, relay, harness
<1>3. CASE GateExpires \/ SocketDies \/ RelayThrottles
           \/ \E sub \in Channels \cup {Membership} : RelayCloses(sub)
  BY <1>3 DEF GateExpires, SocketDies, RelayThrottles, RelayCloses, relay, harness
<1> QED
  BY <1>1, <1>2, <1>3 DEF Next

LEMMA SettlingInit == Init => SettlingInv
<1> SUFFICES ASSUME Init PROVE SettlingInv
  OBVIOUS
<1>1. SeenIsOld
  BY DEF Init, SeenIsOld, SeenOf, NothingSeen
<1>2. FollowsNewest
  BY DEF Init, FollowsNewest, NoStamps
<1>3. NewestDecides
  BY DEF Init, NewestDecides, NoticesOf
<1> QED
  BY <1>1, <1>2, <1>3 DEF SettlingInv

LEMMA PublishSettles ==
    ASSUME BaseInv, SettlingInv, NEW c \in Channels, NEW kind \in {"event", "added", "removed"},
           Publish(c, kind)
    PROVE  SettlingInv'
<1>1. PICK i : i = [id |-> Cardinality(log) + 1, ch |-> c, ts |-> clock + 1, kind |-> kind]
  OBVIOUS
<1>2. /\ log' = log \cup {i} /\ UNCHANGED <<newest, notices, subscribed>>
      /\ member' = CASE kind = "added" -> member \cup {c}
                     [] kind = "removed" -> member \ {c}
                     [] OTHER -> member
  BY <1>1 DEF Publish, harness
<1>3. LogOK /\ Cardinality(log) \in Nat /\ clock \in Nat
  BY FS_CardinalityType DEF BaseInv, LogOK
<1>4. /\ i.id = Cardinality(log) + 1 /\ i.ch = c /\ i.kind = kind /\ i.ts \in Nat
      /\ \A j \in log : j.id < i.id /\ j.ts < i.ts /\ j.ts \in Nat
  BY <1>1, <1>3 DEF LogOK, Items
<1>5. Cardinality(log') = Cardinality(log) + 1
  <2>1. i \notin log
    BY <1>3, <1>4
  <2> QED
    BY <1>2, <1>3, <2>1, FS_AddElement DEF LogOK
<1>6. IsNotice(i) <=> kind # "event"
  BY <1>4 DEF IsNotice
<1>7. SeenIsOld'
  <2>1. SeenOf(notices)' = SeenOf(notices) /\ i.id \notin SeenOf(notices)
    BY <1>2, <1>3, <1>4 DEF SettlingInv, SeenIsOld, SeenOf
  <2>2. SeenOf(notices) \subseteq 1..Cardinality(log')
    BY <1>3, <1>5 DEF SettlingInv, SeenIsOld
  <2>3. \A j \in log' : IsNotice(j) /\ j.id \in SeenOf(notices) => j.ts <= newest[j.ch]
    BY <1>2, <2>1 DEF SettlingInv, SeenIsOld
  <2> QED
    BY <1>2, <2>1, <2>2, <2>3 DEF SeenIsOld
<1>8. \A d \in Channels : NoticesOf(d)' = IF IsNotice(i) /\ d = c THEN NoticesOf(d) \cup {i} ELSE NoticesOf(d)
  BY <1>2, <1>4 DEF NoticesOf
<1>9. FollowsNewest'
  BY <1>2, <1>8 DEF SettlingInv, FollowsNewest
<1>10. ASSUME NEW d \in Channels
       PROVE  \/ NoticesOf(d)' = {} /\ (d \in member' <=> d \in Founding)
              \/ \E x \in NoticesOf(d)' : /\ \A j \in NoticesOf(d)' : j.ts <= x.ts
                                          /\ x.kind = "added" <=> d \in member'
  <2>1. CASE IsNotice(i) /\ d = c
    <3>1. NoticesOf(d)' = NoticesOf(d) \cup {i}
      BY <1>8, <2>1
    <3>2. \A j \in NoticesOf(d) \cup {i} : j.ts <= i.ts
      BY <1>4 DEF NoticesOf
    <3>3. i.kind = "added" <=> d \in member'
      BY <1>2, <1>4, <1>6, <2>1
    <3> QED
      BY <3>1, <3>2, <3>3
  <2>2. CASE ~(IsNotice(i) /\ d = c)
    <3>1. NoticesOf(d)' = NoticesOf(d)
      BY <1>8, <2>2
    <3>2. d \in member' <=> d \in member
      BY <1>2, <1>6, <2>2
    <3> QED
      BY <3>1, <3>2 DEF SettlingInv, NewestDecides
  <2> QED
    BY <2>1, <2>2
<1> QED
  BY <1>7, <1>9, <1>10 DEF SettlingInv, NewestDecides

LEMMA NoticeSettles ==
    ASSUME BaseInv, SettlingInv, SkipNotice \/ ApplyNotice
    PROVE  SettlingInv'
<1>1. PICK i : i = Head(evq)
  OBVIOUS
<1>2. evq # <<>> /\ IsNotice(i) /\ UNCHANGED <<log, member>>
  BY <1>1 DEF SkipNotice, ApplyNotice, Take, relay
<1>3. i \in log
  <2>1. Head(evq) \in log \cup {Lost}
    BY <1>2, QueueTails DEF BaseInv
  <2> QED
    BY <1>1, <1>2, <2>1 DEF IsNotice, Lost
<1>4. LogOK /\ i.id \in Nat \ {0} /\ i.id <= Cardinality(log) /\ Cardinality(log) \in Nat
      /\ i.ch \in Channels /\ i.ts \in Nat
  BY <1>3, FS_CardinalityType DEF BaseInv, LogOK, Items
<1>5. newest \in Stamps /\ notices \in TwoGens /\ newest[i.ch] \in Nat
  BY <1>4 DEF BaseInv, HarnessOK, Stamps
<1>6. SeenOf(notices') \subseteq SeenOf(notices) \cup {i.id}
  BY <1>1, <1>5, InsertKeeps DEF SkipNotice, ApplyNotice
<1>7. \A c \in Channels : newest[c] <= newest'[c]
  <2>1. SkipNotice => newest' = newest
    BY DEF SkipNotice
  <2>2. ApplyNotice => newest' = [newest EXCEPT ![i.ch] = i.ts] /\ ~(i.ts < newest[i.ch])
    BY <1>1 DEF ApplyNotice, Stale
  <2> QED
    BY <1>4, <1>5, <2>1, <2>2 DEF Stamps
<1>8. i.ts <= newest'[i.ch]
  <2>1. CASE ApplyNotice
    BY <1>1, <1>4, <1>5, <2>1 DEF ApplyNotice, Stamps
  <2>2. CASE SkipNotice
    <3>1. i.id \in SeenOf(notices) \/ i.ts < newest[i.ch]
      BY <1>1, <2>2 DEF SkipNotice, Stale, SeenBefore, SeenOf
    <3>2. i.ts <= newest[i.ch]
      BY <1>2, <1>3, <1>4, <1>5, <3>1 DEF SettlingInv, SeenIsOld
    <3> QED
      BY <2>2, <3>2 DEF SkipNotice
  <2> QED
    BY <2>1, <2>2
<1>9. SeenIsOld'
  <2>1. SeenOf(notices') \subseteq 1..Cardinality(log)
    BY <1>4, <1>6 DEF SettlingInv, SeenIsOld
  <2>2. ASSUME NEW j \in log, IsNotice(j), j.id \in SeenOf(notices') PROVE j.ts <= newest'[j.ch]
    <3>1. j.ch \in Channels /\ j.ts \in Nat /\ newest[j.ch] \in Nat /\ newest'[j.ch] \in Nat
      <4>1. newest' \in Stamps
        BY HarnessTypes DEF Harness, BaseInv, HarnessOK
      <4> QED
        BY <1>4, <1>5, <4>1 DEF LogOK, Items, Stamps
    <3>2. CASE j.id = i.id
      BY <1>3, <1>4, <1>8, <3>2 DEF LogOK
    <3>3. CASE j.id \in SeenOf(notices)
      <4>1. j.ts <= newest[j.ch]
        BY <2>2, <3>3 DEF SettlingInv, SeenIsOld
      <4> QED
        BY <1>7, <3>1, <4>1
    <3> QED
      BY <1>6, <2>2, <3>2, <3>3
  <2> QED
    BY <1>2, <2>1, <2>2 DEF SeenIsOld
<1>10. \A c \in Channels : NoticesOf(c)' = NoticesOf(c)
  BY <1>2 DEF NoticesOf
<1>11. NewestDecides'
  BY <1>2, <1>10 DEF SettlingInv, NewestDecides
<1>12. FollowsNewest'
  <2>1. CASE SkipNotice
    BY <1>10, <2>1 DEF SkipNotice, SettlingInv, FollowsNewest
  <2>2. CASE ApplyNotice
    <3>1. newest' = [newest EXCEPT ![i.ch] = i.ts]
      BY <1>1, <2>2 DEF ApplyNotice
    <3>2. /\ i.kind = "added" <=> i.ch \in subscribed'
          /\ \A c \in Channels : c # i.ch => (c \in subscribed' <=> c \in subscribed)
      BY <1>1, <2>2 DEF ApplyNotice
    <3>3. i \in NoticesOf(i.ch)
      BY <1>2, <1>3 DEF NoticesOf
    <3>4. newest'[i.ch] = i.ts /\ \A c \in Channels : c # i.ch => newest'[c] = newest[c]
      BY <1>4, <1>5, <3>1 DEF Stamps
    <3> QED
      BY <1>10, <3>2, <3>3, <3>4 DEF SettlingInv, FollowsNewest
  <2> QED
    BY <2>1, <2>2
<1> QED
  BY <1>9, <1>11, <1>12 DEF SettlingInv

LEMMA SettlingStep == BaseInv /\ SettlingInv /\ [Next]_vars => SettlingInv'
<1> SUFFICES ASSUME BaseInv, SettlingInv, [Next]_vars PROVE SettlingInv'
  OBVIOUS
<1>1. CASE UNCHANGED <<log, member, newest, notices, subscribed>>
  <2>1. \A c \in Channels : NoticesOf(c)' = NoticesOf(c)
    BY <1>1 DEF NoticesOf
  <2>2. SeenIsOld'
    BY <1>1 DEF SettlingInv, SeenIsOld, SeenOf
  <2>3. FollowsNewest' /\ NewestDecides'
    BY <1>1, <2>1 DEF SettlingInv, FollowsNewest, NewestDecides
  <2> QED
    BY <2>2, <2>3 DEF SettlingInv
<1>2. CASE UNCHANGED vars
  BY <1>1, <1>2 DEF vars, relay, harness
<1>3. CASE Next
  BY <1>1, <1>3, PublishSettles, NoticeSettles, MembershipLeft
<1> QED
  BY <1>2, <1>3

\* Once every membership notice has been worked off, the harness is subscribed to
\* exactly the channels its agent is a member of, in whatever order replays brought
\* the notices and whatever the two-generation filter has forgotten of them.
THEOREM SubscribedAsMember == Spec => []MembershipSettled
<1>1. BaseInv /\ SettlingInv => MembershipSettled
  <2> SUFFICES ASSUME BaseInv, SettlingInv,
                      \A i \in log : i.kind # "event" => SeenBefore(notices, i.id)
               PROVE  subscribed = member
    BY DEF MembershipSettled
  <2>1. subscribed \subseteq Channels /\ member \subseteq Channels /\ newest \in Stamps /\ LogOK
    BY DEF BaseInv, HarnessOK
  <2>2. ASSUME NEW c \in Channels PROVE c \in subscribed <=> c \in member
    <3>1. CASE NoticesOf(c) = {}
      BY <3>1 DEF SettlingInv, FollowsNewest, NewestDecides
    <3>2. CASE NoticesOf(c) # {}
      <4>1. PICK i \in NoticesOf(c) : /\ \A j \in NoticesOf(c) : j.ts <= i.ts
                                      /\ i.kind = "added" <=> c \in member
        BY <3>2 DEF SettlingInv, NewestDecides
      <4>2. i \in log /\ IsNotice(i) /\ i.ch = c /\ i.ts \in Nat /\ i.ts > 1
        BY <2>1, <4>1 DEF NoticesOf, LogOK, Items
      <4>3. i.id \in SeenOf(notices)
        BY <4>2 DEF IsNotice, SeenBefore, SeenOf
      <4>4. i.ts <= newest[c] /\ newest[c] \in Nat
        BY <2>1, <4>2, <4>3 DEF SettlingInv, SeenIsOld, Stamps
      <4>5. PICK j \in NoticesOf(c) : j.ts = newest[c] /\ (j.kind = "added" <=> c \in subscribed)
        BY <4>2, <4>4 DEF SettlingInv, FollowsNewest
      <4>6. j.ts = i.ts /\ j \in log
        BY <4>1, <4>2, <4>4, <4>5 DEF NoticesOf
      <4>7. j = i
        BY <2>1, <4>2, <4>6 DEF LogOK
      <4> QED
        BY <4>1, <4>5, <4>7
    <3> QED
      BY <3>1, <3>2
  <2> QED
    BY <2>1, <2>2
<1> QED
  BY <1>1, SettlingInit, SettlingStep, BaseAlways, PTL DEF Spec

(***************************************************************************)
(* What the duplicate filter remembers                                     *)
(***************************************************************************)
\* As long as fewer than 2 * SeenHalf - 1 items have been published the two
\* generations together hold every id that was let through.
FewItems == Cardinality(log) < 2 * SeenHalf - 1

\* The generations are disjoint, and an older one came from a rotation, which
\* finds SeenHalf ids; a refused item may have taken its own away again.
Generations(g) ==
    /\ g.current \cap g.previous = {}
    /\ g.previous = {} \/ Cardinality(g.previous) >= SeenHalf - 1
    /\ SeenOf(g) \subseteq 1..Cardinality(log)

LetThroughOnce ==
    \A n \in Ids : enqueued[n] <= 1 /\ (enqueued[n] = 1 => n \in SeenOf(bg.seen))

FilterInv == Generations(bg.seen) /\ (FewItems => LetThroughOnce)

\* Inserting a new id: nothing is forgotten while there are few items.
LEMMA InsertNew ==
    ASSUME LogOK, NEW g \in TwoGens, Generations(g), NEW i \in log, ~SeenBefore(g, i.id)
    PROVE  /\ Generations(Insert(g, i.id, SeenHalf))
           /\ Generations(Forget(Insert(g, i.id, SeenHalf), i.id))
           /\ SeenOf(Insert(g, i.id, SeenHalf)) \subseteq SeenOf(g) \cup {i.id}
           /\ FewItems => SeenOf(Insert(g, i.id, SeenHalf)) = SeenOf(g) \cup {i.id}
           /\ FewItems => SeenOf(Forget(Insert(g, i.id, SeenHalf), i.id)) = SeenOf(g)
<1> DEFINE x == i.id
           n == Cardinality(log)
           C == g.current \cup {x}
           h == Insert(g, x, SeenHalf)
<1>1. n \in Nat /\ x \in 1..n /\ SeenHalf \in Nat \ {0}
  BY FS_CardinalityType, ClientAssumption DEF LogOK, Items
<1>2. x \notin g.current /\ x \notin g.previous /\ g.current \cap g.previous = {}
      /\ g.current \subseteq 1..n /\ g.previous \subseteq 1..n
  BY DEF SeenBefore, Generations, SeenOf
<1>3. C \subseteq 1..n /\ C \cap g.previous = {}
  BY <1>1, <1>2
<1>4. IsFiniteSet(1..n) /\ Cardinality(1..n) = n
  BY <1>1, FS_Interval
<1>5. /\ IsFiniteSet(C) /\ IsFiniteSet(g.previous) /\ IsFiniteSet(g.current)
      /\ Cardinality(C) \in Nat /\ Cardinality(g.previous) \in Nat /\ Cardinality(g.current) \in Nat
  BY <1>2, <1>3, <1>4, FS_Subset, FS_CardinalityType
<1>6. Cardinality(C) = Cardinality(g.current) + 1
  BY <1>2, <1>5, FS_AddElement
<1>7. Cardinality(C) + Cardinality(g.previous) <= n
  <2>1. IsFiniteSet(C \cup g.previous) /\ C \cup g.previous \subseteq 1..n
    BY <1>2, <1>3, <1>4, FS_Subset
  <2>2. Cardinality(C \cup g.previous) <= n
    BY <1>4, <2>1, FS_Subset
  <2>3. Cardinality(C \cap g.previous) = 0
    BY <1>3, FS_EmptySet
  <2>4. Cardinality(C \cup g.previous) = Cardinality(C) + Cardinality(g.previous) - Cardinality(C \cap g.previous)
    BY <1>5, FS_Union
  <2> HIDE DEF C, n
  <2> QED
    BY <1>5, <2>2, <2>3, <2>4
<1>8. [g EXCEPT !.current = @ \cup {x}] = [current |-> C, previous |-> g.previous]
  BY DEF TwoGens
<1>9. h = IF Cardinality(C) >= SeenHalf THEN [current |-> {}, previous |-> C]
                                        ELSE [current |-> C, previous |-> g.previous]
  BY <1>8 DEF Insert, Rotate
<1>10. C \ {x} = g.current
  BY <1>2
<1> HIDE DEF C, h, n, x
<1>11. CASE Cardinality(C) >= SeenHalf
  <2>1. h.current = {} /\ h.previous = C
    BY <1>9, <1>11
  <2>2. Forget(h, x).current = {} /\ Forget(h, x).previous = g.current
    BY <1>10, <2>1 DEF Forget
  <2>3. Cardinality(g.current) >= SeenHalf - 1
    BY <1>1, <1>5, <1>6, <1>11
  <2>4. n < 2 * SeenHalf - 1 => g.previous = {}
    <3>1. g.previous = {} \/ Cardinality(g.previous) >= SeenHalf - 1
      BY DEF Generations
    <3> QED
      BY <1>1, <1>5, <1>7, <1>11, <3>1
  <2>5. Generations(h)
    BY <1>1, <1>3, <1>5, <1>11, <2>1 DEF Generations, SeenOf, n
  <2>6. Generations(Forget(h, x))
    BY <1>2, <2>2, <2>3 DEF Generations, SeenOf, n
  <2>7. SeenOf(h) = C /\ SeenOf(Forget(h, x)) = g.current
    BY <2>1, <2>2 DEF SeenOf
  <2> QED
    BY <2>4, <2>5, <2>6, <2>7 DEF SeenOf, C, n, FewItems, h, x
<1>12. CASE ~(Cardinality(C) >= SeenHalf)
  <2>1. h.current = C /\ h.previous = g.previous
    BY <1>9, <1>12
  <2>2. Forget(h, x).current = g.current /\ Forget(h, x).previous = g.previous
    BY <1>2, <1>10, <2>1 DEF Forget
  <2>5. Generations(h)
    BY <1>2, <1>3, <2>1 DEF Generations, SeenOf, n
  <2>6. Generations(Forget(h, x))
    BY <1>2, <2>2 DEF Generations, SeenOf, n
  <2>7. SeenOf(h) = C \cup g.previous /\ SeenOf(Forget(h, x)) = SeenOf(g)
    BY <2>1, <2>2 DEF SeenOf
  <2> QED
    BY <2>5, <2>6, <2>7 DEF SeenOf, C, h, x
<1> QED
  BY <1>11, <1>12

\* Only an item that is read touches the filter and the event channel's history.
LEMMA SeenLeft ==
    ASSUME BaseInv, Next, ~ReadItem
    PROVE  bg'.seen = bg.seen /\ UNCHANGED enqueued
<1>1. bg \in States /\ (cmds # <<>> => Head(cmds) \in Commands)
  BY QueueTails DEF BaseInv, TaskOK
<1>2. UNCHANGED bg => bg'.seen = bg.seen
  OBVIOUS
<1>3. cmds # <<>> => ApplyCommand(bg, Head(cmds)).seen = bg.seen /\ ApplyCommand(bg, Head(cmds)) \in States
  BY <1>1, ApplyFields, ApplyTypes DEF BaseInv, LogOK
<1>4. CASE \E c \in Channels : ResubscribeChannel(c) \/ DrainPending(c) \/ DrainRetry(c)
  BY <1>1, <1>4 DEF ResubscribeChannel, DrainPending, DrainRetry, States
<1>5. CASE DetectLoss \/ Connect \/ ProactiveResubscribe \/ ResubscribeMembershipFails
           \/ ReadClosedFails \/ DrainDone
  BY <1>1, <1>5 DEF DetectLoss, Connect, ProactiveResubscribe, ResubscribeMembershipFails,
                    ReadClosedFails, DrainDone, States
<1>6. CASE ResubscribeMembership \/ DrainMembership
  BY <1>1, <1>6 DEF ResubscribeMembership, DrainMembership, States
<1>7. CASE RecordIntent
  BY <1>3, <1>7 DEF RecordIntent
<1>8. CASE UpCommand \/ DrainCommand
  <2>1. UNCHANGED enqueued /\ cmds # <<>> /\ (Execute(Head(cmds)) \/ UNCHANGED bg)
        /\ (Execute(Head(cmds)) => Head(cmds).op # "reconnect" \/ UNCHANGED bg)
    BY <1>8 DEF UpCommand, DrainCommand
  <2>2. ASSUME Execute(Head(cmds)), Head(cmds).op # "reconnect" PROVE bg'.seen = bg.seen
    <3> DEFINE s == ApplyCommand(bg, Head(cmds))
    <3>1. \/ bg' = [s EXCEPT !.pending = @ \cup {Head(cmds).ch}]
          \/ bg' = [s EXCEPT !.pending = @ \ {Head(cmds).ch}, !.retry = @ \ {Head(cmds).ch}]
          \/ bg' = s
          \/ bg' = [bg EXCEPT !.mActive = TRUE, !.mResub = TRUE]
          \/ bg' = [bg EXCEPT !.mActive = TRUE, !.mResub = FALSE,
                              !.mLast = OrElse(bg.mLast, bg.watermark)]
      BY <1>1, <2>1, <2>2 DEF Execute, Commands
    <3>2. s \in States /\ s.seen = bg.seen
      BY <1>3, <2>1
    <3> HIDE DEF s
    <3> QED
      BY <1>1, <3>1, <3>2 DEF States
  <2> QED
    BY <1>2, <2>1, <2>2
<1>9. CASE UpCommandFails \/ DrainCommandFails \/ PostDrainFails
  <2>1. UNCHANGED enqueued /\ RequestFails
    BY <1>9 DEF UpCommandFails, DrainCommandFails, PostDrainFails
  <2> QED
    BY <1>1, <1>3, <2>1 DEF RequestFails, States
<1>10. CASE ReadRefusal \/ ReadNotice \/ ReadClosed
  BY <1>1, <1>10 DEF ReadRefusal, ReadNotice, ReadClosed, ClearChannel, States
<1>11. CASE Next /\ ~Task
  <2>1. Harness => UNCHANGED <<bg, enqueued>>
    BY DEF Harness, TakeEvent, TakeLoss, SkipNotice, ApplyNotice, Take
  <2>2. CASE GateExpires
    BY <1>1, <2>2 DEF GateExpires, States
  <2> QED
    BY <1>2, <1>11, <2>1, <2>2 DEF Next, SocketDies, RelayThrottles, Publish, RelayCloses
<1> QED
  BY <1>4, <1>5, <1>6, <1>7, <1>8, <1>9, <1>10, <1>11 DEF Next, Task

LEMMA FilterStep ==
    ASSUME BaseInv, FilterInv, Next
    PROVE  FilterInv'
<1>1. LogOK /\ Cardinality(log) \in Nat /\ bg \in States /\ bg.seen \in TwoGens
  BY FS_CardinalityType DEF BaseInv, LogOK, TaskOK, States
<1>2. CASE ~ReadItem
  <2>1. bg'.seen = bg.seen /\ UNCHANGED enqueued
    BY <1>2, SeenLeft
  <2>2. Cardinality(log) <= Cardinality(log') /\ Cardinality(log') \in Nat
    <3>1. log \subseteq log'
      BY MembershipLeft DEF SkipNotice, ApplyNotice, Take, relay, Publish
    <3>2. IsFiniteSet(log')
      BY BaseStep DEF BaseInv, LogOK
    <3> QED
      BY <3>1, <3>2, FS_Subset, FS_CardinalityType
  <2>3. FewItems' => FewItems
    BY <1>1, <2>2, ClientAssumption DEF FewItems
  <2>4. Generations(bg.seen)'
    BY <1>1, <2>1, <2>2 DEF FilterInv, Generations, SeenOf
  <2> QED
    BY <2>1, <2>3, <2>4 DEF FilterInv, LetThroughOnce, SeenOf
<1>3. CASE ReadItem
  <2>1. PICK i : i = Head(wire).item
    OBVIOUS
  <2>2. i \in log /\ UNCHANGED log /\ i.id \in Ids
    BY <1>1, <1>3, <2>1, ReadItemTypes DEF ReadItem, relay, LogOK, Items, Ids
  <2>3. FewItems' = FewItems /\ \A g : Generations(g)' <=> Generations(g)
    BY <2>2 DEF FewItems, Generations
  <2>4. /\ Accept(bg, i).seen = Insert(bg.seen, i.id, SeenHalf)
        /\ Refuse(bg, i).seen = Forget(Insert(bg.seen, i.id, SeenHalf), i.id)
    BY <1>1, <2>2, ReadFields
  <2>5. CASE UNCHANGED <<bg, enqueued>>
    BY <2>2, <2>5 DEF FilterInv, FewItems, Generations, LetThroughOnce
  <2>6. CASE ~SeenBefore(bg.seen, i.id) /\ bg' = Accept(bg, i) /\ enqueued' = [enqueued EXCEPT ![i.id] = @ + 1]
    <3>1. /\ Generations(bg'.seen)
          /\ FewItems => SeenOf(bg'.seen) = SeenOf(bg.seen) \cup {i.id}
      BY <1>1, <2>2, <2>4, <2>6, InsertNew DEF FilterInv
    <3>2. ASSUME FewItems, NEW n \in Ids
          PROVE  enqueued'[n] <= 1 /\ (enqueued'[n] = 1 => n \in SeenOf(bg'.seen))
      <4>1. enqueued \in [Ids -> Nat] /\ enqueued[n] <= 1 /\ (enqueued[n] = 1 => n \in SeenOf(bg.seen))
        BY <3>2 DEF FilterInv, LetThroughOnce, BaseInv, HarnessOK
      <4>2. n = i.id => enqueued[n] # 1
        BY <2>6, <4>1 DEF SeenBefore, SeenOf
      <4> QED
        BY <2>2, <2>6, <3>1, <3>2, <4>1, <4>2
    <3>3. FewItems => LetThroughOnce'
      BY <3>2 DEF LetThroughOnce
    <3> QED
      BY <2>2, <2>3, <3>1, <3>3 DEF FilterInv, Generations
  <2>7. CASE ~SeenBefore(bg.seen, i.id) /\ bg' = Refuse(bg, i) /\ UNCHANGED enqueued
    <3>1. /\ Generations(bg'.seen)
          /\ FewItems => SeenOf(bg'.seen) = SeenOf(bg.seen)
      BY <1>1, <2>2, <2>4, <2>7, InsertNew DEF FilterInv
    <3>2. FewItems => LetThroughOnce'
      BY <2>7, <3>1 DEF FilterInv, LetThroughOnce
    <3> QED
      BY <2>2, <2>3, <3>1, <3>2 DEF FilterInv, Generations
  <2> QED
    BY <1>3, <2>1, <2>5, <2>6, <2>7 DEF ReadItem
<1> QED
  BY <1>2, <1>3

\* No replay hands an item to the harness twice, over any number of reconnects,
\* resubscriptions and refused reads, until as many items have been published as
\* it takes to push one out of both generations of the duplicate filter.  A
\* refused item takes its id out again, which is why one less than two full
\* generations suffice.
THEOREM NoReplayTwice == Spec => [](Cardinality(log) < 2 * SeenHalf - 1 => NoDoubleDelivery)
<1>1. Init => FilterInv
  BY FS_EmptySet, ClientAssumption
     DEF Init, InitialState, NothingSeen, FilterInv, Generations, SeenOf, LetThroughOnce, Ids
<1>2. BaseInv /\ FilterInv /\ [Next]_vars => FilterInv'
  <2> SUFFICES ASSUME BaseInv, FilterInv, UNCHANGED vars PROVE FilterInv'
    BY FilterStep
  <2> QED
    BY DEF vars, relay, FilterInv, Generations, FewItems, LetThroughOnce
<1>3. FilterInv => (Cardinality(log) < 2 * SeenHalf - 1 => NoDoubleDelivery)
  BY DEF FilterInv, FewItems, LetThroughOnce, NoDoubleDelivery
<1> QED
  BY <1>1, <1>2, <1>3, BaseAlways, PTL DEF Spec

(***************************************************************************)
(* Nothing is out of reach                                                 *)
(***************************************************************************)
\* What the task keeps of a subscription, be it a channel's or the notices'.
OnIn(s, sub) == (sub = Membership /\ s.mActive) \/ (sub # Membership /\ sub \in s.active)
FromIn(s, sub) == IF sub = Membership THEN 0 ELSE s.subSince[sub]
UptoIn(s, sub) == IF sub = Membership THEN s.mLast ELSE s.lastSeen[sub]
DropIn(s, sub) == IF sub = Membership THEN s.mDropped ELSE s.dropped[sub]
SinceIn(s, sub) == IF sub = Membership THEN MembershipSince(s) ELSE ChannelSince(s, sub)

SameStamps(s, t, sub) ==
    /\ OnIn(t, sub) <=> OnIn(s, sub)
    /\ FromIn(t, sub) = FromIn(s, sub)
    /\ UptoIn(t, sub) = UptoIn(s, sub) /\ DropIn(t, sub) = DropIn(s, sub)

\* The messages of a sequence, those of a subscription, and an item among them.
Sent(w) == {w[k] : k \in 1..Len(w)}
About(sub) == {m \in Sent(wire) : m.type # "notice" /\ m.sub = sub}
Awaited(i) == \E m \in About(SubOf(i)) : m.type = "item" /\ m.item = i

\* Live items follow the order of their time stamps, and nothing the task has
\* seen of their subscription is newer.
Live(m) == m.type = "item" /\ ~m.replay

InOrder(w) ==
    \A k \in 1..Len(w) : Live(w[k]) =>
        \A j \in 1..k : w[j].type = "item" /\ w[j].sub = w[k].sub => w[j].item.ts <= w[k].item.ts

Ahead == \A m \in Sent(wire) : Live(m) => UptoIn(bg, m.sub) <= m.item.ts

\* What the filter remembers was handed to the harness.
SeenIn == \A n \in SeenOf(bg.seen) : enqueued[n] > 0

\* No stamp is of the future, and there is one where a REQ needs it.
StampOf(s, sub) ==
    /\ UptoIn(s, sub) <= clock
    /\ sub = Membership /\ OnIn(s, sub) => UptoIn(s, sub) # 0
    /\ sub # Membership /\ OnIn(s, sub) => FromIn(s, sub) # 0
    /\ sub # Membership /\ DropIn(s, sub) # 0 => UptoIn(s, sub) # 0

\* The watermark is set before anything else.
StampsOK ==
    /\ \A sub \in Subs : StampOf(bg, sub)
    /\ \A k \in 1..Len(cmds) : cmds[k].op = "watermark" => k = 1 /\ cmds[k].ts = 1 /\ bg.mLast = 0
    /\ bg.mLast = 0 => cmds # <<>> /\ cmds[1].op = "watermark"

\* A subscription is asked for by one command at most, and is never denied.
AsksFor(cmd, sub) ==
    IF sub = Membership THEN cmd.op = "membership" ELSE cmd.op = "subscribe" /\ cmd.ch = sub

AskedOnce(sub) ==
    /\ \A k \in 1..Len(cmds) : AsksFor(cmds[k], sub) =>
        /\ ~OnIn(bg, sub) /\ (sub # Membership => sub \in subscribed)
        /\ \A j \in 1..Len(cmds) : AsksFor(cmds[j], sub) => j = k
    /\ \A k \in 1..Len(cmds) : ~(cmds[k].op = "unsubscribe" /\ cmds[k].ch = sub)
    /\ sub # Membership /\ OnIn(bg, sub) => sub \in subscribed

NotDenied(sub) == \A m \in About(sub) : m.type = "closed" => m.why # "denied"

\* Nothing is known of a subscription that was not asked for yet.
Untouched(sub) ==
    ~OnIn(bg, sub) =>
        /\ sub \notin subs /\ About(sub) = {}
        /\ DropIn(bg, sub) = 0 /\ FromIn(bg, sub) = 0
        /\ UptoIn(bg, sub) <= 1 /\ (sub # Membership => UptoIn(bg, sub) = 0)

\* What was dropped is going to be asked for again.
DropDue(sub) == OnIn(bg, sub) /\ DropIn(bg, sub) # 0 => ResubscribeDue(sub)

\* An item that was neither handed over nor is on its way, and was not cut off
\* either, is covered by the mark of what was dropped, or was published or lost
\* while the subscription was not live, with nothing much newer read or on its
\* way: a REQ from there on, less the skew allowance, asks for it.
Reach(i) == i.ts + Skew

Missing(i) ==
    /\ OnIn(bg, SubOf(i)) /\ i.ts >= FromIn(bg, SubOf(i))
    /\ enqueued[i.id] = 0 /\ ~Awaited(i) /\ i.id \notin Excused

InReach(sub) ==
    \A i \in log : SubOf(i) = sub /\ Missing(i) =>
        \/ DropIn(bg, sub) \in 1..Reach(i)
        \/ /\ UptoIn(bg, sub) <= Reach(i) /\ sub \notin subs
           /\ \A j \in log : SubOf(j) = sub /\ Awaited(j) => j.ts <= Reach(i)

Fine(sub) == NotDenied(sub) /\ Untouched(sub) /\ DropDue(sub) /\ InReach(sub)

\* Only notices that were asked for are asked for again.
ResubOn == bg.mResub => bg.mActive

ReachInv ==
    /\ StampsOK /\ SeenIn /\ ResubOn /\ InOrder(wire) /\ Ahead
    /\ \A sub \in Subs : Stayed(sub) => AskedOnce(sub) /\ Fine(sub)

-----------------------------------------------------------------------------
LEMMA SentParts ==
    ASSUME NEW S, NEW a \in Seq(S)
    PROVE  /\ \A b \in Seq(S) : Sent(a \o b) = Sent(a) \cup Sent(b)
           /\ \A x \in S : Sent(Append(a, x)) = Sent(a) \cup {x}
           /\ a # <<>> => Sent(a) = {Head(a)} \cup Sent(Tail(a))
           /\ Sent(<<>>) = {} /\ Sent(a) \subseteq S
<1>1. ASSUME NEW b \in Seq(S) PROVE Sent(a \o b) = Sent(a) \cup Sent(b)
  <2>1. /\ Len(a) \in Nat /\ Len(b) \in Nat /\ Len(a \o b) = Len(a) + Len(b)
        /\ \A k \in 1..Len(a) + Len(b) : (a \o b)[k] = IF k <= Len(a) THEN a[k] ELSE b[k - Len(a)]
    OBVIOUS
  <2>2. \A m : m \in Sent(a \o b) => m \in Sent(a) \/ m \in Sent(b)
    <3> SUFFICES ASSUME NEW k \in 1..Len(a) + Len(b)
                 PROVE  (a \o b)[k] \in Sent(a) \/ (a \o b)[k] \in Sent(b)
      BY <2>1 DEF Sent
    <3>1. k <= Len(a) \/ k - Len(a) \in 1..Len(b)
      BY <2>1
    <3> QED
      BY <2>1, <3>1 DEF Sent
  <2>3. \A k \in 1..Len(a) : k \in 1..Len(a \o b) /\ (a \o b)[k] = a[k]
    BY <2>1
  <2>4. \A k \in 1..Len(b) : k + Len(a) \in 1..Len(a \o b) /\ (a \o b)[k + Len(a)] = b[k]
    BY <2>1
  <2> QED
    BY <2>2, <2>3, <2>4 DEF Sent
<1>2. ASSUME NEW x \in S PROVE Sent(Append(a, x)) = Sent(a) \cup {x}
  <2>1. /\ Len(a) \in Nat /\ Len(Append(a, x)) = Len(a) + 1 /\ Append(a, x)[Len(a) + 1] = x
        /\ \A k \in 1..Len(a) : Append(a, x)[k] = a[k]
    OBVIOUS
  <2> QED
    BY <2>1 DEF Sent
<1>3. ASSUME a # <<>> PROVE Sent(a) = {Head(a)} \cup Sent(Tail(a))
  <2>1. /\ Len(Tail(a)) = Len(a) - 1 /\ Len(a) \in Nat \ {0} /\ a[1] = Head(a)
        /\ \A k \in 1..Len(Tail(a)) : Tail(a)[k] = a[k + 1]
    BY <1>3, HeadTail
  <2>2. \A k \in 1..Len(a) : k = 1 \/ (k - 1 \in 1..Len(Tail(a)) /\ a[k] = Tail(a)[k - 1])
    BY <2>1
  <2>3. \A k \in 1..Len(Tail(a)) : k + 1 \in 1..Len(a) /\ a[k + 1] = Tail(a)[k]
    BY <2>1
  <2> QED
    BY <2>1, <2>2, <2>3 DEF Sent
<1>4. Sent(<<>>) = {} /\ Sent(a) \subseteq S
  BY DEF Sent
<1> QED
  BY <1>1, <1>2, <1>3, <1>4

LEMMA SentReplay ==
    ASSUME LogOK, NEW sub, NEW since
    PROVE  Sent(Replay(sub, since)) = {Pushed(i, TRUE) : i \in Matching(sub, since)}
<1> DEFINE P == {Pushed(i, TRUE) : i \in Matching(sub, since)}
<1>1. /\ Replay(sub, since) \in Seq(P)
      /\ \A m \in P : \E k \in 1..Len(Replay(sub, since)) : Replay(sub, since)[k] = m
  BY ReplayItems
<1> HIDE DEF P
<1>2. Sent(Replay(sub, since)) \subseteq P
  BY <1>1, SentParts
<1>3. P \subseteq Sent(Replay(sub, since))
  BY <1>1 DEF Sent
<1> QED
  BY <1>2, <1>3 DEF P

LEMMA OrderedParts ==
    ASSUME NEW S, NEW a \in Seq(S), InOrder(a)
    PROVE  /\ \A b \in Seq(S) : (\A m \in Sent(b) : ~Live(m)) => InOrder(a \o b)
           /\ \A x \in S : ~Live(x) => InOrder(Append(a, x))
           /\ a # <<>> => InOrder(Tail(a))
           /\ InOrder(<<>>)
<1>1. ASSUME NEW b \in Seq(S), \A m \in Sent(b) : ~Live(m) PROVE InOrder(a \o b)
  <2>1. /\ Len(a) \in Nat /\ Len(b) \in Nat /\ Len(a \o b) = Len(a) + Len(b)
        /\ \A k \in 1..Len(a) + Len(b) : (a \o b)[k] = IF k <= Len(a) THEN a[k] ELSE b[k - Len(a)]
    OBVIOUS
  <2>2. ASSUME NEW k \in 1..Len(a) + Len(b), Live((a \o b)[k]) PROVE k \in 1..Len(a)
    <3>1. k \in 1..Len(a) \/ (k - Len(a) \in 1..Len(b) /\ (a \o b)[k] = b[k - Len(a)])
      BY <2>1
    <3> QED
      BY <1>1, <2>2, <3>1 DEF Sent
  <2>3. \A k \in 1..Len(a) : (a \o b)[k] = a[k] /\ \A j \in 1..k : (a \o b)[j] = a[j] /\ j \in 1..Len(a)
    BY <2>1
  <2> QED
    BY <2>1, <2>2, <2>3 DEF InOrder
<1>2. ASSUME NEW x \in S, ~Live(x) PROVE InOrder(Append(a, x))
  <2>1. <<x>> \in Seq(S) /\ Append(a, x) = a \o <<x>> /\ Sent(<<x>>) = {x}
    BY DEF Sent
  <2> QED
    BY <1>1, <1>2, <2>1
<1>3. ASSUME a # <<>> PROVE InOrder(Tail(a))
  <2>1. /\ Len(Tail(a)) = Len(a) - 1 /\ Len(a) \in Nat \ {0}
        /\ \A k \in 1..Len(Tail(a)) : Tail(a)[k] = a[k + 1]
    BY <1>3, HeadTail
  <2>2. ASSUME NEW k \in 1..Len(Tail(a)), Live(Tail(a)[k]), NEW j \in 1..k,
               Tail(a)[j].type = "item", Tail(a)[j].sub = Tail(a)[k].sub
        PROVE  Tail(a)[j].item.ts <= Tail(a)[k].item.ts
    <3>1. /\ k + 1 \in 1..Len(a) /\ j + 1 \in 1..(k + 1)
          /\ Tail(a)[k] = a[k + 1] /\ Tail(a)[j] = a[j + 1]
      BY <2>1
    <3> QED
      BY <2>2, <3>1 DEF InOrder
  <2> QED
    BY <2>2 DEF InOrder
<1>4. InOrder(<<>>)
  BY DEF InOrder
<1> QED
  BY <1>1, <1>2, <1>3, <1>4


-----------------------------------------------------------------------------
\* What a command's intent does to the stamps of a subscription.
LEMMA ApplyStamps ==
    ASSUME clock \in Nat \ {0}, NEW s \in States, NEW cmd \in Commands, NEW d \in Subs
    PROVE  LET t == ApplyCommand(s, cmd) IN
           /\ \/ AsksFor(cmd, d)
              \/ cmd.op = "unsubscribe" /\ cmd.ch = d
              \/ cmd.op = "watermark" /\ d = Membership
              \/ SameStamps(s, t, d)
           /\ AsksFor(cmd, d) => /\ OnIn(t, d) /\ UptoIn(t, d) = UptoIn(s, d) /\ DropIn(t, d) = DropIn(s, d)
                                 /\ d # Membership => FromIn(t, d) # 0
           /\ cmd.op = "unsubscribe" /\ cmd.ch = d => UptoIn(t, d) = 0 /\ DropIn(t, d) = 0 /\ ~OnIn(t, d)
           /\ cmd.op = "watermark" => /\ UptoIn(t, Membership) = OrElse(s.mLast, cmd.ts)
                                      /\ (OnIn(t, d) <=> OnIn(s, d)) /\ DropIn(t, d) = DropIn(s, d)
           /\ t.watermark \in Nat /\ (cmd.op # "watermark" => t.watermark = s.watermark)
<1> USE DEF OnIn, FromIn, UptoIn, DropIn, SameStamps, AsksFor
<1>0. Membership \notin Channels /\ (d # Membership => d \in Channels)
  BY ClientAssumption DEF Subs
<1>1. CASE cmd.op = "subscribe"
  <2>1. cmd.ch \in Channels /\ cmd.ts \in Nat
    BY <1>1 DEF Commands
  <2>2. PICK n : n = OrElse(s.subSince[cmd.ch], OrElse(cmd.ts, OrElse(s.watermark, clock)))
    OBVIOUS
  <2>3. n # 0
    BY <2>1, <2>2 DEF OrElse
  <2>4. ApplyCommand(s, cmd) = [s EXCEPT !.subSince[cmd.ch] = n, !.active = @ \cup {cmd.ch}]
    BY <1>1, <2>2 DEF ApplyCommand, SeedSince, States
  <2> QED
    BY <1>0, <1>1, <2>1, <2>3, <2>4 DEF States, Stamps
<1>2. CASE cmd.op = "unsubscribe"
  <2>1. cmd.ch \in Channels
    BY <1>2 DEF Commands
  <2>2. ApplyCommand(s, cmd) = ClearChannel(s, cmd.ch)
    BY <1>2 DEF ApplyCommand
  <2> QED
    BY <1>0, <1>2, <2>1, <2>2 DEF ClearChannel, States, Stamps
<1>3. CASE cmd.op = "membership"
  <2>1. ApplyCommand(s, cmd) = [s EXCEPT !.mActive = TRUE]
    BY <1>3 DEF ApplyCommand
  <2>2. PICK u : u = ApplyCommand(s, cmd)
    OBVIOUS
  <2>3. /\ u.active = s.active /\ u.lastSeen = s.lastSeen /\ u.dropped = s.dropped /\ u.subSince = s.subSince
        /\ u.mActive = TRUE /\ u.mLast = s.mLast /\ u.mDropped = s.mDropped /\ u.watermark = s.watermark
        /\ s.watermark \in Nat
    BY <2>1, <2>2 DEF States
  <2> QED
    BY <1>0, <1>3, <2>2, <2>3
<1>4. CASE cmd.op = "watermark"
  <2>1. ApplyCommand(s, cmd) = [s EXCEPT !.watermark = cmd.ts, !.mLast = OrElse(@, cmd.ts)] /\ cmd.ts \in Nat
    BY <1>4 DEF ApplyCommand, SetWatermark, Commands
  <2> QED
    BY <1>0, <1>4, <2>1 DEF States
<1>5. CASE cmd.op = "reconnect"
  <2>1. ApplyCommand(s, cmd) = s
    BY <1>5 DEF ApplyCommand
  <2> QED
    BY <1>0, <1>5, <2>1 DEF States
<1> QED
  BY <1>1, <1>2, <1>3, <1>4, <1>5 DEF Commands

CommandStep ==
    \/ RecordIntent \/ UpCommand \/ UpCommandFails \/ DrainCommand \/ DrainCommandFails
    \/ PostDrainFails

\* A step that takes a command leaves its intent, whatever becomes of the write.
LEMMA CommandIntent ==
    ASSUME BaseInv, StampsOK, CommandStep
    PROVE  /\ cmds # <<>> /\ cmds' = Tail(cmds) /\ Head(cmds) \in Commands
           /\ UNCHANGED <<log, clock, member, enqueued, subscribed>>
           /\ \A d \in Subs : SameStamps(ApplyCommand(bg, Head(cmds)), bg', d)
           /\ bg'.watermark = ApplyCommand(bg, Head(cmds)).watermark
<1> DEFINE cmd == Head(cmds)
           s == ApplyCommand(bg, cmd)
<1>1. cmds # <<>> /\ cmds' = Tail(cmds) /\ UNCHANGED <<log, clock, member, enqueued, subscribed>>
  BY DEF CommandStep, RecordIntent, UpCommand, UpCommandFails, DrainCommand, DrainCommandFails,
         PostDrainFails, RequestFails, relay, harness
<1>2. cmd \in Commands /\ bg \in States /\ clock \in Nat \ {0} /\ s \in States /\ cmds[1] = cmd /\ 1 \in 1..Len(cmds)
  BY <1>1, QueueTails, ApplyTypes, HeadTail DEF BaseInv, TaskOK, LogOK, QueuesOK
<1>3. cmd.op = "membership" => OrElse(bg.mLast, bg.watermark) = bg.mLast
  BY <1>1, <1>2 DEF StampsOK, OrElse
<1>4. \/ bg' = s
      \/ bg' = [s EXCEPT !.pending = @ \cup {cmd.ch}]
      \/ bg' = [s EXCEPT !.pending = @ \ {cmd.ch}, !.retry = @ \ {cmd.ch}]
      \/ cmd.op = "membership" /\ bg' = [bg EXCEPT !.mActive = TRUE, !.mResub = TRUE]
      \/ cmd.op = "membership" /\ bg' = [bg EXCEPT !.mActive = TRUE, !.mResub = FALSE, !.mLast = bg.mLast]
  <2>1. CASE RecordIntent
    BY <2>1 DEF RecordIntent
  <2>2. CASE RequestFails
    BY <1>2, <2>2 DEF RequestFails
  <2>3. CASE cmd.op # "reconnect" /\ Execute(cmd)
    <3>1. CASE cmd.op = "subscribe"
      BY <2>3, <3>1 DEF Execute
    <3>2. CASE cmd.op = "unsubscribe"
      BY <2>3, <3>2 DEF Execute
    <3>3. CASE cmd.op = "membership"
      BY <1>3, <2>3, <3>3 DEF Execute
    <3>4. CASE cmd.op = "watermark"
      BY <2>3, <3>4 DEF Execute
    <3> QED
      BY <1>2, <2>3, <3>1, <3>2, <3>3, <3>4 DEF Commands
  <2>4. CASE cmd.op = "reconnect" /\ UNCHANGED bg
    BY <2>4 DEF ApplyCommand
  <2> QED
    BY <2>1, <2>2, <2>3, <2>4 DEF CommandStep, UpCommand, UpCommandFails, DrainCommand, DrainCommandFails,
                                  PostDrainFails
<1>5. cmd.op = "membership" => s = [bg EXCEPT !.mActive = TRUE]
  BY DEF ApplyCommand
<1> HIDE DEF s, cmd
<1>6. /\ bg'.active = s.active /\ bg'.lastSeen = s.lastSeen /\ bg'.dropped = s.dropped
      /\ bg'.subSince = s.subSince /\ bg'.mActive = s.mActive /\ bg'.mLast = s.mLast
      /\ bg'.mDropped = s.mDropped /\ bg'.watermark = s.watermark
  <2>1. CASE cmd.op = "membership" /\ bg' = [bg EXCEPT !.mActive = TRUE, !.mResub = TRUE]
    BY <1>2, <1>5, <2>1 DEF States
  <2>3. CASE cmd.op = "membership" /\ bg' = [bg EXCEPT !.mActive = TRUE, !.mResub = FALSE, !.mLast = bg.mLast]
    BY <1>2, <1>5, <2>3 DEF States
  <2>2. CASE \/ bg' = s
             \/ bg' = [s EXCEPT !.pending = @ \cup {cmd.ch}]
             \/ bg' = [s EXCEPT !.pending = @ \ {cmd.ch}, !.retry = @ \ {cmd.ch}]
    BY <1>2, <2>2 DEF States
  <2> QED
    BY <1>4, <2>1, <2>2, <2>3
<1>7. \A d \in Subs : SameStamps(s, bg', d) /\ bg'.watermark = s.watermark
  BY <1>6 DEF SameStamps, OnIn, FromIn, UptoIn, DropIn
<1> QED
  BY <1>1, <1>2, <1>7 DEF s, cmd, Subs

Publishing == \E c \in Channels, k \in {"event", "added", "removed"} : Publish(c, k)
Denial == ReadRefusal /\ Head(wire).why = "denied"

\* Everything else leaves the stamps alone, but for the marks of what was dropped.
LEMMA StampsLeft ==
    ASSUME BaseInv, Next, ~CommandStep, ~ReadItem, ~Denial
    PROVE  /\ bg'.active = bg.active /\ bg'.lastSeen = bg.lastSeen /\ bg'.subSince = bg.subSince
           /\ bg'.mActive = bg.mActive /\ bg'.mLast = bg.mLast /\ bg'.watermark = bg.watermark
           /\ \A c \in Channels : bg'.dropped[c] \in {bg.dropped[c], 0}
           /\ bg'.mDropped \in {bg.mDropped, 0}
<1>1. bg \in States
  BY DEF BaseInv, TaskOK
<1> USE DEF States, Stamps
<1>2. UNCHANGED bg \/ bg' = [bg EXCEPT !.gate = FALSE]
      => /\ bg'.active = bg.active /\ bg'.lastSeen = bg.lastSeen /\ bg'.subSince = bg.subSince
         /\ bg'.mActive = bg.mActive /\ bg'.mLast = bg.mLast /\ bg'.watermark = bg.watermark
         /\ bg'.dropped = bg.dropped /\ bg'.mDropped = bg.mDropped
  BY <1>1
<1>3. CASE \E c \in Channels : ResubscribeChannel(c)
  BY <1>1, <1>3 DEF ResubscribeChannel
<1>4. CASE \E c \in Channels : DrainPending(c)
  <2>1. PICK c \in Channels : \/ bg' = [bg EXCEPT !.pending = @ \ {c}]
                              \/ bg' = [bg EXCEPT !.pending = @ \ {c}, !.dropped[c] = 0]
                              \/ bg' = bg
    BY <1>4 DEF DrainPending
  <2>2. CASE bg' = [bg EXCEPT !.pending = @ \ {c}, !.dropped[c] = 0]
    BY <1>1, <2>2
  <2> QED
    BY <1>1, <2>1, <2>2
<1>5. CASE \E c \in Channels : DrainRetry(c)
  <2>1. PICK c \in Channels : \/ bg' = [bg EXCEPT !.pending = @ \cup {c}, !.retry = @ \ {c}]
                              \/ bg' = [bg EXCEPT !.retry = @ \ {c}, !.dropped[c] = 0]
                              \/ bg' = bg
    BY <1>5 DEF DrainRetry
  <2>2. CASE bg' = [bg EXCEPT !.retry = @ \ {c}, !.dropped[c] = 0]
    BY <1>1, <2>2
  <2> QED
    BY <1>1, <2>1, <2>2
<1>6. CASE DetectLoss \/ Connect \/ ProactiveResubscribe \/ ResubscribeMembershipFails
           \/ ReadClosedFails \/ DrainDone
  BY <1>1, <1>6 DEF DetectLoss, Connect, ProactiveResubscribe, ResubscribeMembershipFails,
                    ReadClosedFails, DrainDone
<1>7. CASE ResubscribeMembership \/ DrainMembership
  BY <1>1, <1>7 DEF ResubscribeMembership, DrainMembership
<1>8. CASE ReadRefusal \/ ReadNotice
  BY <1>1, <1>8 DEF ReadRefusal, ReadNotice, Denial
<1>9. CASE ReadClosed
  <2>1. bg.active \subseteq Channels
    BY <1>1
  <2> QED
    BY <1>1, <1>9, <2>1 DEF ReadClosed
<1>10. CASE Next /\ ~Task
  <2>1. Harness => UNCHANGED bg
    BY DEF Harness, TakeEvent, TakeLoss, SkipNotice, ApplyNotice, Take
  <2>2. UNCHANGED bg \/ bg' = [bg EXCEPT !.gate = FALSE]
    BY <1>10, <2>1 DEF Next, GateExpires, SocketDies, RelayThrottles, Publish, RelayCloses
  <2> QED
    BY <1>2, <2>2
<1> QED
  BY <1>3, <1>4, <1>5, <1>6, <1>7, <1>8, <1>9, <1>10 DEF Next, Task, CommandStep

LEMMA OthersLeft ==
    ASSUME Next
    PROVE  /\ CommandStep \/ TakeLoss \/ ApplyNotice \/ UNCHANGED cmds
           /\ Publishing \/ UNCHANGED <<log, clock, member>>
           /\ ApplyNotice \/ UNCHANGED subscribed
           /\ ReadItem \/ UNCHANGED enqueued
<1>1. CASE Task
  <2>1. CASE \E c \in Channels : ResubscribeChannel(c) \/ DrainPending(c) \/ DrainRetry(c)
    BY <2>1 DEF ResubscribeChannel, DrainPending, DrainRetry, relay, harness
  <2>2. CASE DetectLoss \/ Connect \/ ProactiveResubscribe \/ ResubscribeMembership
             \/ ResubscribeMembershipFails \/ RecordIntent
    BY <2>2 DEF DetectLoss, Connect, ProactiveResubscribe, ResubscribeMembership,
                ResubscribeMembershipFails, RecordIntent, CommandStep, relay, harness
  <2>3. CASE UpCommand \/ UpCommandFails \/ DrainCommand \/ DrainCommandFails \/ PostDrainFails
             \/ DrainDone
    BY <2>3 DEF UpCommand, UpCommandFails, DrainCommand, DrainCommandFails, PostDrainFails, DrainDone,
                CommandStep, relay, harness
  <2>4. CASE DrainMembership \/ ReadItem \/ ReadRefusal \/ ReadNotice \/ ReadClosed \/ ReadClosedFails
    BY <2>4 DEF DrainMembership, ReadItem, ReadRefusal, ReadNotice, ReadClosed, ReadClosedFails,
                relay, harness
  <2> QED
    BY <1>1, <2>1, <2>2, <2>3, <2>4 DEF Task
<1>2. CASE Harness
  BY <1>2 DEF Harness, TakeEvent, TakeLoss, SkipNotice, ApplyNotice, Take, relay, harness
<1>3. CASE GateExpires \/ SocketDies \/ RelayThrottles
           \/ \E sub \in Channels \cup {Membership} : RelayCloses(sub)
  BY <1>3 DEF GateExpires, SocketDies, RelayThrottles, RelayCloses, relay, harness
<1>4. CASE Publishing
  BY <1>4 DEF Publishing, Publish, harness
<1> QED
  BY <1>1, <1>2, <1>3, <1>4 DEF Next, Publishing

\* What reading an item does to the stamps of its subscription, and to no other.
LEMMA ReadStamps ==
    ASSUME LogOK, NEW s \in States, NEW i \in log
    PROVE  LET a == Accept(s, i)
               r == Refuse(s, i)
               d == SubOf(i)
           IN  /\ d \in Subs
               /\ \A e \in Subs \ {d} : SameStamps(s, a, e) /\ SameStamps(s, r, e)
               /\ (OnIn(a, d) <=> OnIn(s, d)) /\ (OnIn(r, d) <=> OnIn(s, d))
               /\ FromIn(a, d) = FromIn(s, d) /\ FromIn(r, d) = FromIn(s, d)
               /\ UptoIn(a, d) = Latest(UptoIn(s, d), i.ts) /\ DropIn(a, d) = DropIn(s, d)
               /\ UptoIn(r, d) = IF d = Membership THEN UptoIn(s, d) ELSE Latest(UptoIn(s, d), i.ts)
               /\ DropIn(r, d) = Earliest(DropIn(s, d), i.ts)
<1>1. i.ch \in Channels /\ Membership \notin Channels /\ i.kind \in {"event", "added", "removed"}
  BY ClientAssumption DEF LogOK, Items
<1> USE DEF OnIn, FromIn, UptoIn, DropIn, SameStamps
<1>2. CASE i.kind = "event"
  <2>1. SubOf(i) = i.ch
    BY <1>2 DEF SubOf
  <2>2. PICK a : a = Accept(s, i)
    OBVIOUS
  <2>3. PICK r : r = Refuse(s, i)
    OBVIOUS
  <2>4. /\ a.active = s.active /\ a.subSince = s.subSince /\ a.dropped = s.dropped
        /\ a.mActive = s.mActive /\ a.mLast = s.mLast /\ a.mDropped = s.mDropped
        /\ a.lastSeen = [s.lastSeen EXCEPT ![i.ch] = Latest(@, i.ts)]
    BY <1>2, <2>2 DEF Accept, States
  <2>5. /\ r.active = s.active /\ r.subSince = s.subSince
        /\ r.mActive = s.mActive /\ r.mLast = s.mLast /\ r.mDropped = s.mDropped
        /\ r.lastSeen = [s.lastSeen EXCEPT ![i.ch] = Latest(@, i.ts)]
        /\ r.dropped = [s.dropped EXCEPT ![i.ch] = Earliest(@, i.ts)]
    BY <1>2, <2>3 DEF Refuse, States
  <2>6. s.lastSeen \in [Channels -> Nat] /\ s.dropped \in [Channels -> Nat]
    BY DEF States, Stamps
  <2> QED
    BY <1>1, <2>1, <2>2, <2>3, <2>4, <2>5, <2>6 DEF Subs
<1>3. CASE i.kind # "event"
  <2>1. SubOf(i) = Membership
    BY <1>3 DEF SubOf
  <2>2. PICK a : a = Accept(s, i)
    OBVIOUS
  <2>3. PICK r : r = Refuse(s, i)
    OBVIOUS
  <2>4. /\ a.active = s.active /\ a.subSince = s.subSince /\ a.dropped = s.dropped /\ a.lastSeen = s.lastSeen
        /\ a.mActive = s.mActive /\ a.mDropped = s.mDropped /\ a.mLast = Latest(s.mLast, i.ts)
    BY <1>3, <2>2 DEF Accept, States
  <2>5. /\ r.active = s.active /\ r.subSince = s.subSince /\ r.dropped = s.dropped /\ r.lastSeen = s.lastSeen
        /\ r.mActive = s.mActive /\ r.mLast = s.mLast /\ r.mDropped = Earliest(s.mDropped, i.ts)
    BY <1>3, <2>3 DEF Refuse, States
  <2> QED
    BY <1>1, <2>1, <2>2, <2>3, <2>4, <2>5 DEF Subs
<1> QED
  BY <1>2, <1>3

LEMMA NoticesStay == ASSUME LogOK PROVE Stayed(Membership)
BY ClientAssumption DEF LogOK, Items, Stayed

LEMMA StampTyped ==
    ASSUME NEW s \in States, NEW d \in Subs
    PROVE  /\ UptoIn(s, d) \in Nat /\ DropIn(s, d) \in Nat /\ FromIn(s, d) \in Nat
           /\ UptoIn(s, Membership) = s.mLast /\ DropIn(s, Membership) = s.mDropped
BY DEF UptoIn, DropIn, FromIn, States, Stamps, Subs

\* Denied access clears a channel as an Unsubscribe does.
LEMMA DenialStamps ==
    ASSUME BaseInv, Denial
    PROVE  /\ Head(wire).sub \in Channels /\ wire # <<>> /\ Head(wire) \in Messages /\ Head(wire).type = "closed"
           /\ bg' = ClearChannel(bg, Head(wire).sub)
           /\ \A d \in Subs \ {Head(wire).sub} : SameStamps(bg, bg', d)
           /\ LET c == Head(wire).sub IN UptoIn(bg', c) = 0 /\ DropIn(bg', c) = 0 /\ ~OnIn(bg', c)
<1> DEFINE c == Head(wire).sub
           cmd == [op |-> "unsubscribe", ch |-> c]
<1>1. wire # <<>> /\ Head(wire).type = "closed" /\ Head(wire).why = "denied" /\ bg \in States /\ clock \in Nat \ {0}
  BY DEF Denial, ReadRefusal, BaseInv, TaskOK, LogOK
<1>2. Head(wire) \in Messages
  BY <1>1, HeadTail DEF BaseInv, LineOK
<1>3. c \in Channels
  BY <1>1, <1>2, MessageParts
<1>4. bg' = ClearChannel(bg, c)
  BY <1>1 DEF Denial, ReadRefusal
<1> HIDE DEF c
<1>5. cmd \in Commands /\ cmd.op = "unsubscribe" /\ cmd.ch = c /\ ApplyCommand(bg, cmd) = ClearChannel(bg, c)
  BY <1>3 DEF Commands, ApplyCommand
<1>6. \A d \in Subs : ~AsksFor(cmd, d)
  BY <1>5 DEF AsksFor
<1> HIDE DEF cmd
<1>7. \A d \in Subs \ {c} : SameStamps(bg, ApplyCommand(bg, cmd), d)
  BY <1>1, <1>5, <1>6, ApplyStamps
<1>8. c \in Subs /\ UptoIn(ApplyCommand(bg, cmd), c) = 0 /\ DropIn(ApplyCommand(bg, cmd), c) = 0
      /\ ~OnIn(ApplyCommand(bg, cmd), c)
  BY <1>1, <1>3, <1>5, ApplyStamps DEF Subs
<1> QED
  BY <1>1, <1>2, <1>3, <1>4, <1>5, <1>7, <1>8 DEF c

LEMMA StampKept ==
    ASSUME NEW s, NEW t, NEW d, StampOf(s, d), SameStamps(s, t, d)
    PROVE  StampOf(t, d)
BY DEF StampOf, SameStamps

LEMMA StampsCommand ==
    ASSUME BaseInv, BaseInv', StampsOK, CommandStep
    PROVE  StampsOK'
<1> DEFINE cmd == Head(cmds)
           s == ApplyCommand(bg, cmd)
<1>1. /\ cmds # <<>> /\ cmds' = Tail(cmds) /\ cmd \in Commands /\ clock' = clock
      /\ \A d \in Subs : SameStamps(s, bg', d)
  BY CommandIntent
<1>2. bg \in States /\ bg' \in States /\ clock \in Nat \ {0} /\ Membership \in Subs
  BY DEF BaseInv, TaskOK, LogOK, Subs
<1>3. /\ Len(cmds') = Len(cmds) - 1 /\ Len(cmds) \in Nat \ {0} /\ cmds[1] = cmd
      /\ \A k \in 1..Len(cmds') : cmds'[k] = cmds[k + 1]
  BY <1>1, HeadTail DEF BaseInv, QueuesOK
<1>4. cmd.op = "watermark" => cmd.ts = 1 /\ bg.mLast = 0
  BY <1>3 DEF StampsOK
<1>5. bg.mLast = 0 => cmd.op = "watermark"
  BY <1>3 DEF StampsOK
<1>6. ASSUME NEW d \in Subs PROVE StampOf(s, d)
  <2>1. StampOf(bg, d) /\ UptoIn(bg, d) \in Nat /\ UptoIn(bg, Membership) = bg.mLast
    BY <1>2, StampTyped DEF StampsOK
  <2>2. CASE SameStamps(bg, s, d)
    BY <2>1, <2>2, StampKept
  <2>3. CASE AsksFor(cmd, d)
    <3>1. /\ OnIn(s, d) /\ UptoIn(s, d) = UptoIn(bg, d) /\ DropIn(s, d) = DropIn(bg, d)
          /\ d # Membership => FromIn(s, d) # 0
      BY <1>1, <1>2, <2>3, ApplyStamps
    <3>2. d = Membership => bg.mLast # 0
      BY <1>5, <2>3 DEF AsksFor
    <3> QED
      BY <2>1, <3>1, <3>2 DEF StampOf
  <2>4. CASE cmd.op = "unsubscribe" /\ cmd.ch = d
    <3>1. UptoIn(s, d) = 0 /\ DropIn(s, d) = 0 /\ ~OnIn(s, d)
      BY <1>1, <1>2, <2>4, ApplyStamps
    <3> QED
      BY <1>2, <3>1 DEF StampOf
  <2>5. CASE cmd.op = "watermark" /\ d = Membership
    <3>1. UptoIn(s, Membership) = OrElse(bg.mLast, cmd.ts)
      BY <1>1, <1>2, <2>5, ApplyStamps
    <3>2. UptoIn(s, d) = 1
      BY <1>4, <2>5, <3>1 DEF OrElse
    <3> QED
      BY <1>2, <2>5, <3>2 DEF StampOf
  <2> QED
    BY <1>1, <1>2, <2>2, <2>3, <2>4, <2>5, ApplyStamps
<1>7. \A d \in Subs : StampOf(bg, d)'
  <2> SUFFICES ASSUME NEW d \in Subs PROVE StampOf(bg, d)'
    OBVIOUS
  <2>1. StampOf(s, d) /\ SameStamps(s, bg', d)
    BY <1>1, <1>6
  <2> HIDE DEF s
  <2> QED
    BY <1>1, <2>1 DEF StampOf, SameStamps, OnIn, FromIn, UptoIn, DropIn
<1>8. bg'.mLast # 0
  <2>1. UptoIn(s, Membership) = bg'.mLast /\ UptoIn(bg, Membership) = bg.mLast
    BY <1>1, <1>2, StampTyped DEF SameStamps
  <2>2. CASE cmd.op = "watermark"
    <3>1. UptoIn(s, Membership) = OrElse(bg.mLast, cmd.ts)
      BY <1>1, <1>2, <2>2, ApplyStamps
    <3> QED
      BY <1>4, <2>1, <2>2, <3>1 DEF OrElse
  <2>3. CASE cmd.op # "watermark"
    <3>1. Membership \notin Channels /\ (cmd.op = "unsubscribe" => cmd.ch \in Channels)
      BY <1>1, ClientAssumption DEF Commands
    <3>2. UptoIn(s, Membership) = UptoIn(bg, Membership)
      BY <1>1, <1>2, <2>3, <3>1, ApplyStamps DEF SameStamps
    <3> QED
      BY <1>5, <2>1, <2>3, <3>2
  <2> QED
    BY <2>2, <2>3
<1>9. \A k \in 1..Len(cmds') : cmds'[k].op # "watermark"
  <2> SUFFICES ASSUME NEW k \in 1..Len(cmds'), cmds'[k].op = "watermark" PROVE FALSE
    OBVIOUS
  <2>1. k + 1 \in 1..Len(cmds) /\ cmds[k + 1].op = "watermark" /\ k + 1 # 1
    BY <1>3
  <2> QED
    BY <2>1 DEF StampsOK
<1> QED
  BY <1>7, <1>8, <1>9 DEF StampsOK

LEMMA StampsRead ==
    ASSUME BaseInv, BaseInv', ReachInv, ReadItem
    PROVE  StampsOK'
<1>1. PICK i : i = Head(wire).item
  OBVIOUS
<1>2. /\ LogOK /\ bg \in States /\ clock \in Nat \ {0} /\ wire # <<>> /\ Head(wire) \in Messages
      /\ Head(wire).type = "item"
  BY HeadTail DEF BaseInv, TaskOK, LogOK, LineOK, ReadItem
<1>3. i \in log /\ Head(wire).sub = SubOf(i)
  BY <1>1, <1>2, MessageParts
<1>4. i.ts \in Nat /\ i.ts <= clock /\ i.ts > 1
  BY <1>2, <1>3 DEF LogOK, Items
<1>5. UNCHANGED <<cmds, clock>> /\ (bg' = bg \/ bg' = Accept(bg, i) \/ bg' = Refuse(bg, i))
  BY <1>1 DEF ReadItem, relay
<1>6. \A d \in Subs : StampOf(bg, d) /\ UptoIn(bg, d) \in Nat /\ DropIn(bg, d) \in Nat
  BY <1>2, StampTyped DEF ReachInv, StampsOK
<1>7. \A n \in Nat : Latest(n, i.ts) \in {n, i.ts} /\ Latest(n, i.ts) # 0
  BY <1>4 DEF Latest
<1>8. ASSUME NEW d \in Subs PROVE StampOf(bg', d)
  <2>1. CASE bg' = bg \/ d # SubOf(i)
    <3>1. SameStamps(bg, bg', d)
      BY <1>2, <1>3, <1>5, <2>1, ReadStamps DEF SameStamps
    <3> QED
      BY <1>6, <3>1, StampKept
  <2>2. CASE d = SubOf(i) /\ (bg' = Accept(bg, i) \/ bg' = Refuse(bg, i))
    <3>1. /\ UptoIn(bg', d) = Latest(UptoIn(bg, d), i.ts) \/ (d = Membership /\ UptoIn(bg', d) = UptoIn(bg, d))
          /\ (OnIn(bg', d) <=> OnIn(bg, d)) /\ FromIn(bg', d) = FromIn(bg, d)
      BY <1>2, <1>3, <2>2, ReadStamps
    <3> QED
      BY <1>2, <1>4, <1>6, <1>7, <3>1 DEF StampOf
  <2> QED
    BY <1>5, <2>1, <2>2
<1>9. \A d \in Subs : StampOf(bg, d)'
  BY <1>5, <1>8 DEF StampOf, OnIn, FromIn, UptoIn, DropIn
<1>10. bg.mLast = 0 => bg'.mLast = 0
  <2> SUFFICES ASSUME bg.mLast = 0 PROVE bg'.mLast = 0
    OBVIOUS
  <2>1. Membership \in Subs /\ UptoIn(bg, Membership) = bg.mLast
    BY <1>2, StampTyped DEF Subs
  <2>2. ~OnIn(bg, Membership) /\ Untouched(Membership)
    BY <1>2, <1>6, <2>1, NoticesStay DEF StampOf, ReachInv, Fine
  <2>3. Head(wire) \in Sent(wire)
    BY <1>2, SentParts DEF BaseInv, LineOK
  <2>4. SubOf(i) # Membership
    BY <1>2, <1>3, <2>2, <2>3 DEF Untouched, About
  <2>5. bg' = bg \/ SameStamps(bg, bg', Membership)
    BY <1>2, <1>3, <1>5, <2>1, <2>4, ReadStamps
  <2> QED
    BY <2>5 DEF SameStamps, UptoIn
<1>11. bg'.mLast = 0 => bg.mLast = 0
  <2>1. bg'.mLast = bg.mLast \/ bg'.mLast = Latest(bg.mLast, i.ts)
    <3>1. CASE SubOf(i) = Membership
      BY <1>2, <1>3, <1>5, <3>1, ReadStamps DEF UptoIn
    <3>2. CASE SubOf(i) # Membership
      <4>1. Membership \in Subs
        BY DEF Subs
      <4>2. bg' = bg \/ SameStamps(bg, bg', Membership)
        BY <1>2, <1>3, <1>5, <3>2, <4>1, ReadStamps
      <4> QED
        BY <4>2 DEF SameStamps, UptoIn
    <3> QED
      BY <3>1, <3>2
  <2>2. bg.mLast \in Nat
    BY <1>2 DEF States
  <2> QED
    BY <1>7, <2>1, <2>2
<1> QED
  BY <1>5, <1>9, <1>10, <1>11 DEF ReachInv, StampsOK

\* A notice that is applied is one of the relay's, and asks for at most one command.
LEMMA NoticeTaken ==
    ASSUME BaseInv, ApplyNotice
    PROVE  LET i == Head(evq) IN
           /\ i \in log /\ i.ch \in Channels /\ i.ts \in Nat /\ UNCHANGED bg
           /\ \/ UNCHANGED <<cmds, subscribed>>
              \/ /\ cmds' = Append(cmds, [op |-> "subscribe", ch |-> i.ch, ts |-> i.ts])
                 /\ i.ch \notin subscribed /\ subscribed' = subscribed \cup {i.ch}
              \/ /\ cmds' = Append(cmds, [op |-> "unsubscribe", ch |-> i.ch])
                 /\ i.kind = "removed" /\ subscribed' = subscribed \ {i.ch}
<1>1. evq # <<>> /\ Head(evq).kind \in {"added", "removed"} /\ UNCHANGED bg
  BY DEF ApplyNotice, Take, IsNotice
<1>2. Head(evq) \in log \cup {Lost}
  BY <1>1, QueueTails DEF BaseInv
<1>3. Head(evq) \in log
  BY <1>1, <1>2 DEF Lost
<1>4. Head(evq).ch \in Channels /\ Head(evq).ts \in Nat
  BY <1>3 DEF BaseInv, LogOK, Items
<1> QED
  BY <1>1, <1>3, <1>4 DEF ApplyNotice

LEMMA StampsStep ==
    ASSUME BaseInv, BaseInv', ReachInv, Next
    PROVE  StampsOK'
<1>0. /\ bg \in States /\ bg' \in States /\ clock \in Nat \ {0} /\ cmds \in Seq(Commands) /\ LogOK
      /\ \A d \in Subs : StampOf(bg, d) /\ UptoIn(bg, d) \in Nat
  BY StampTyped DEF BaseInv, TaskOK, LogOK, QueuesOK, ReachInv, StampsOK
<1>1. CASE CommandStep
  BY <1>1, StampsCommand DEF ReachInv
<1>2. CASE ReadItem
  BY <1>2, StampsRead
<1>3. CASE Denial
  <2>1. UNCHANGED <<cmds, clock>>
    BY <1>3 DEF Denial, ReadRefusal, relay
  <2>2. /\ Head(wire).sub \in Channels /\ \A d \in Subs \ {Head(wire).sub} : SameStamps(bg, bg', d)
        /\ UptoIn(bg', Head(wire).sub) = 0 /\ DropIn(bg', Head(wire).sub) = 0 /\ ~OnIn(bg', Head(wire).sub)
    BY <1>3, DenialStamps
  <2>3. ASSUME NEW d \in Subs PROVE StampOf(bg', d)
    <3>1. CASE d = Head(wire).sub
      BY <1>0, <2>2, <3>1 DEF StampOf
    <3>2. CASE d # Head(wire).sub
      BY <1>0, <2>2, <3>2, StampKept
    <3> QED
      BY <3>1, <3>2
  <2>4. \A d \in Subs : StampOf(bg, d)'
    BY <2>1, <2>3 DEF StampOf, OnIn, FromIn, UptoIn, DropIn
  <2>5. bg'.mLast = bg.mLast
    <3>1. Membership \in Subs /\ Membership # Head(wire).sub
      BY <2>2, ClientAssumption DEF Subs
    <3> QED
      BY <2>2, <3>1 DEF SameStamps, UptoIn
  <2> QED
    BY <2>1, <2>4, <2>5 DEF ReachInv, StampsOK
<1>4. CASE ~CommandStep /\ ~ReadItem /\ ~Denial
  <2>1. /\ bg'.active = bg.active /\ bg'.lastSeen = bg.lastSeen /\ bg'.subSince = bg.subSince
        /\ bg'.mActive = bg.mActive /\ bg'.mLast = bg.mLast
        /\ \A c \in Channels : bg'.dropped[c] \in {bg.dropped[c], 0}
    BY <1>4, StampsLeft
  <2>2. clock' \in Nat /\ clock <= clock'
    <3>1. CASE Publishing
      BY <1>0, <3>1 DEF Publishing, Publish
    <3>2. CASE UNCHANGED clock
      BY <1>0, <3>2
    <3> QED
      BY <3>1, <3>2, OthersLeft
  <2>3. ASSUME NEW d \in Subs PROVE StampOf(bg, d)'
    <3>1. d # Membership => d \in Channels
      BY DEF Subs
    <3>2. UptoIn(bg', d) = UptoIn(bg, d) /\ UptoIn(bg, d) <= clock'
      BY <1>0, <2>1, <2>2 DEF UptoIn, StampOf
    <3>3. (OnIn(bg', d) <=> OnIn(bg, d)) /\ FromIn(bg', d) = FromIn(bg, d)
      BY <2>1 DEF OnIn, FromIn
    <3>4. d # Membership => DropIn(bg', d) \in {DropIn(bg, d), 0}
      BY <2>1, <3>1 DEF DropIn
    <3>5. /\ UptoIn(bg', d) <= clock'
          /\ d = Membership /\ OnIn(bg', d) => UptoIn(bg', d) # 0
          /\ d # Membership /\ OnIn(bg', d) => FromIn(bg', d) # 0
          /\ d # Membership /\ DropIn(bg', d) # 0 => UptoIn(bg', d) # 0
      BY <1>0, <3>2, <3>3, <3>4 DEF StampOf
    <3> QED
      BY <3>5 DEF StampOf, OnIn, FromIn, UptoIn, DropIn
  <2>4. CASE UNCHANGED cmds
    BY <2>1, <2>3, <2>4 DEF ReachInv, StampsOK
  <2>5. CASE \E cmd \in Commands : cmds' = Append(cmds, cmd) /\ cmd.op # "watermark"
    <3>1. PICK cmd \in Commands : cmds' = Append(cmds, cmd) /\ cmd.op # "watermark"
      BY <2>5
    <3>2. /\ Len(cmds') = Len(cmds) + 1 /\ Len(cmds) \in Nat /\ cmds'[Len(cmds) + 1] = cmd
          /\ \A k \in 1..Len(cmds) : cmds'[k] = cmds[k]
      BY <1>0, <3>1
    <3>3. \A k \in 1..Len(cmds') : cmds'[k].op = "watermark" => k \in 1..Len(cmds) /\ cmds'[k] = cmds[k]
      BY <3>1, <3>2
    <3>4. cmds # <<>> => 1 \in 1..Len(cmds) /\ cmds' # <<>>
      BY <1>0, <3>2
    <3> QED
      BY <2>1, <2>3, <3>2, <3>3, <3>4 DEF ReachInv, StampsOK
  <2>6. TakeLoss => cmds' = Append(cmds, [op |-> "reconnect"])
    BY DEF TakeLoss
  <2>7. TakeLoss \/ ApplyNotice => UNCHANGED cmds \/ \E cmd \in Commands : cmds' = Append(cmds, cmd) /\ cmd.op # "watermark"
    BY <2>6, NoticeTaken DEF Commands
  <2> QED
    BY <1>4, <2>4, <2>5, <2>7, OthersLeft
<1> QED
  BY <1>1, <1>2, <1>3, <1>4

LEMMA SeenInStep ==
    ASSUME BaseInv, SeenIn, Next
    PROVE  SeenIn'
<1>1. LogOK /\ bg \in States /\ bg.seen \in TwoGens /\ enqueued \in [Ids -> Nat]
  BY DEF BaseInv, TaskOK, States, HarnessOK
<1>2. CASE ~ReadItem
  BY <1>2, SeenLeft DEF SeenIn, SeenOf
<1>3. CASE ReadItem
  <2>1. PICK i : i = Head(wire).item
    OBVIOUS
  <2>2. i \in log /\ i.id \in Ids
    BY <1>1, <1>3, <2>1, ReadItemTypes DEF ReadItem, LogOK, Items, Ids
  <2>3. /\ Accept(bg, i).seen = Insert(bg.seen, i.id, SeenHalf)
        /\ Refuse(bg, i).seen = Forget(Insert(bg.seen, i.id, SeenHalf), i.id)
    BY <1>1, <2>2, ReadFields
  <2>4. SeenOf(Insert(bg.seen, i.id, SeenHalf)) \subseteq SeenOf(bg.seen) \cup {i.id}
    BY <1>1, InsertKeeps
  <2>5. SeenOf(Forget(Insert(bg.seen, i.id, SeenHalf), i.id)) \subseteq SeenOf(bg.seen)
    BY <2>4 DEF Forget, SeenOf
  <2>6. SeenOf(bg.seen) \subseteq Ids
    BY <1>1 DEF SeenOf, TwoGens
  <2>7. CASE UNCHANGED <<bg, enqueued>>
    BY <2>7 DEF SeenIn
  <2>8. CASE bg' = Accept(bg, i) /\ enqueued' = [enqueued EXCEPT ![i.id] = @ + 1]
    <3>1. SeenOf(bg'.seen) \subseteq SeenOf(bg.seen) \cup {i.id}
      BY <2>3, <2>4, <2>8
    <3>2. \A n \in Ids : (enqueued[n] > 0 \/ n = i.id) => enqueued'[n] > 0
      BY <1>1, <2>2, <2>8
    <3> QED
      BY <2>2, <2>6, <3>1, <3>2 DEF SeenIn
  <2>9. CASE bg' = Refuse(bg, i) /\ UNCHANGED enqueued
    <3>1. SeenOf(bg'.seen) \subseteq SeenOf(bg.seen)
      BY <2>3, <2>5, <2>9
    <3> QED
      BY <2>9, <3>1 DEF SeenIn
  <2> QED
    BY <1>3, <2>1, <2>7, <2>8, <2>9 DEF ReadItem
<1> QED
  BY <1>2, <1>3

LEMMA StayedBefore ==
    ASSUME Next, NEW d, Stayed(d)'
    PROVE  Stayed(d) /\ log \subseteq log'
<1>1. Publishing => log \subseteq log'
  BY DEF Publishing, Publish
<1>2. log \subseteq log'
  BY <1>1, OthersLeft
<1> QED
  BY <1>2 DEF Stayed

\* Another command, that neither asks for nor gives up the subscription.
LEMMA OnceAppend ==
    ASSUME QueuesOK, NEW d, AskedOnce(d), NEW cmd \in Commands, cmds' = Append(cmds, cmd),
           ~AsksFor(cmd, d), ~(cmd.op = "unsubscribe" /\ cmd.ch = d),
           OnIn(bg', d) => OnIn(bg, d), d # Membership /\ d \in subscribed => d \in subscribed'
    PROVE  AskedOnce(d)'
<1>1. /\ Len(cmds') = Len(cmds) + 1 /\ Len(cmds) \in Nat /\ cmds'[Len(cmds) + 1] = cmd
      /\ \A k \in 1..Len(cmds) : cmds'[k] = cmds[k]
  BY DEF QueuesOK
<1>2. \A k \in 1..Len(cmds') : k \in 1..Len(cmds) \/ k = Len(cmds) + 1
  BY <1>1
<1>3. OnIn(bg, d)' <=> OnIn(bg', d)
  BY DEF OnIn
<1>4. \A k \in 1..Len(cmds') : AsksFor(cmds'[k], d) => k \in 1..Len(cmds) /\ AsksFor(cmds[k], d)
  BY <1>1, <1>2
<1>5. \A k \in 1..Len(cmds') : ~(cmds'[k].op = "unsubscribe" /\ cmds'[k].ch = d)
  BY <1>1, <1>2 DEF AskedOnce
<1> QED
  BY <1>3, <1>4, <1>5 DEF AskedOnce, AsksFor

LEMMA OnceCommand ==
    ASSUME BaseInv, ReachInv, CommandStep, NEW d \in Subs, AskedOnce(d)
    PROVE  AskedOnce(d)'
<1> DEFINE cmd == Head(cmds)
           s == ApplyCommand(bg, cmd)
<1>1. /\ cmds # <<>> /\ cmds' = Tail(cmds) /\ cmd \in Commands /\ UNCHANGED subscribed
      /\ SameStamps(s, bg', d)
  BY CommandIntent DEF ReachInv
<1>2. bg \in States /\ clock \in Nat \ {0}
  BY DEF BaseInv, TaskOK, LogOK
<1>3. /\ Len(cmds') = Len(cmds) - 1 /\ Len(cmds) \in Nat \ {0} /\ cmds[1] = cmd
      /\ \A k \in 1..Len(cmds') : cmds'[k] = cmds[k + 1]
  BY <1>1, HeadTail DEF BaseInv, QueuesOK
<1>4. ~(cmd.op = "unsubscribe" /\ cmd.ch = d)
  BY <1>3 DEF AskedOnce
<1>5. OnIn(bg', d) => OnIn(bg, d) \/ AsksFor(cmd, d)
  BY <1>1, <1>2, <1>4, ApplyStamps DEF SameStamps
<1>6. \A k \in 1..Len(cmds') : k + 1 \in 1..Len(cmds) /\ k + 1 # 1 /\ cmds'[k] = cmds[k + 1]
  BY <1>3
<1>7. AsksFor(cmd, d) => \A k \in 1..Len(cmds') : ~AsksFor(cmds'[k], d)
  <2> SUFFICES ASSUME AsksFor(cmd, d), NEW k \in 1..Len(cmds'), AsksFor(cmds'[k], d) PROVE FALSE
    OBVIOUS
  <2>1. 1 \in 1..Len(cmds) /\ AsksFor(cmds[1], d) /\ k + 1 \in 1..Len(cmds) /\ AsksFor(cmds[k + 1], d) /\ k + 1 # 1
    BY <1>3, <1>6
  <2> HIDE DEF cmd
  <2> QED
    BY <2>1 DEF AskedOnce
<1>8. d # Membership /\ (OnIn(bg, d) \/ AsksFor(cmd, d)) => d \in subscribed
  BY <1>3 DEF AskedOnce
<1> HIDE DEF cmd, s
<1>9. ASSUME NEW k \in 1..Len(cmds'), AsksFor(cmds'[k], d)
      PROVE  /\ ~OnIn(bg', d) /\ (d # Membership => d \in subscribed)
             /\ \A j \in 1..Len(cmds') : AsksFor(cmds'[j], d) => j = k
  <2>1. k + 1 \in 1..Len(cmds) /\ AsksFor(cmds[k + 1], d)
    BY <1>6, <1>9
  <2>2. ~OnIn(bg, d) /\ (d # Membership => d \in subscribed)
    BY <2>1 DEF AskedOnce
  <2>3. ASSUME NEW j \in 1..Len(cmds'), AsksFor(cmds'[j], d) PROVE j = k
    <3>1. j + 1 \in 1..Len(cmds) /\ AsksFor(cmds[j + 1], d)
      BY <1>6, <2>3
    <3>2. j + 1 = k + 1
      BY <2>1, <3>1 DEF AskedOnce
    <3> QED
      BY <3>2
  <2> QED
    BY <1>5, <1>7, <1>9, <2>2, <2>3
<1>10. \A k \in 1..Len(cmds') : ~(cmds'[k].op = "unsubscribe" /\ cmds'[k].ch = d)
  BY <1>6 DEF AskedOnce
<1>11. d # Membership /\ OnIn(bg', d) => d \in subscribed
  BY <1>5, <1>8
<1> QED
  BY <1>1, <1>9, <1>10, <1>11 DEF AskedOnce, OnIn, AsksFor

LEMMA OnceStep ==
    ASSUME BaseInv, ReachInv, Next, NEW d \in Subs, Stayed(d)'
    PROVE  AskedOnce(d)'
<1>0. AskedOnce(d) /\ Stayed(d) /\ QueuesOK /\ LogOK /\ bg \in States
  BY StayedBefore DEF ReachInv, BaseInv, TaskOK
<1>1. CASE CommandStep
  BY <1>0, <1>1, OnceCommand
<1>2. CASE ~CommandStep
  <2>1. OnIn(bg', d) => OnIn(bg, d)
    <3>1. CASE ReadItem
      <4>1. Head(wire).item \in log
        BY <1>0, <3>1, ReadItemTypes DEF ReadItem
      <4>2. UNCHANGED bg \/ bg' = Accept(bg, Head(wire).item) \/ bg' = Refuse(bg, Head(wire).item)
        BY <3>1 DEF ReadItem
      <4> QED
        BY <1>0, <4>1, <4>2, ReadStamps DEF SameStamps
    <3>2. CASE Denial
      BY <3>2, DenialStamps DEF SameStamps
    <3>3. CASE ~ReadItem /\ ~Denial
      BY <1>2, <3>3, StampsLeft DEF OnIn
    <3> QED
      BY <3>1, <3>2, <3>3
  <2>2. CASE UNCHANGED <<cmds, subscribed>>
    BY <1>0, <2>1, <2>2 DEF AskedOnce, OnIn, AsksFor
  <2>3. CASE TakeLoss
    <3>1. cmds' = Append(cmds, [op |-> "reconnect"]) /\ UNCHANGED subscribed
      BY <2>3 DEF TakeLoss, harness
    <3>2. [op |-> "reconnect"] \in Commands /\ ~AsksFor([op |-> "reconnect"], d)
      BY DEF Commands, AsksFor
    <3> QED
      BY <1>0, <2>1, <3>1, <3>2, OnceAppend
  <2>4. CASE ApplyNotice
    <3>1. PICK i : i = Head(evq)
      OBVIOUS
    <3>2. i \in log /\ i.ch \in Channels /\ i.ts \in Nat /\ UNCHANGED bg /\ Membership \notin Channels
      BY <2>4, <3>1, NoticeTaken, ClientAssumption
    <3>3. CASE /\ cmds' = Append(cmds, [op |-> "subscribe", ch |-> i.ch, ts |-> i.ts])
               /\ i.ch \notin subscribed /\ subscribed' = subscribed \cup {i.ch}
      <4>1. PICK cmd : cmd = [op |-> "subscribe", ch |-> i.ch, ts |-> i.ts]
        OBVIOUS
      <4>2. cmd \in Commands /\ cmd.op = "subscribe" /\ cmd.ch = i.ch
        BY <3>2, <4>1 DEF Commands
      <4>3. CASE d # i.ch
        <5>1. ~AsksFor(cmd, d)
          BY <4>2, <4>3 DEF AsksFor
        <5> QED
          BY <1>0, <2>1, <3>3, <4>1, <4>2, <5>1, OnceAppend
      <4>4. CASE d = i.ch
        <5>1. d # Membership /\ d \notin subscribed
          BY <3>2, <3>3, <4>4
        <5>2. ~OnIn(bg, d) /\ \A k \in 1..Len(cmds) : ~AsksFor(cmds[k], d)
          BY <1>0, <5>1 DEF AskedOnce
        <5>3. /\ Len(cmds') = Len(cmds) + 1 /\ Len(cmds) \in Nat /\ cmds'[Len(cmds) + 1] = cmd
              /\ \A k \in 1..Len(cmds) : cmds'[k] = cmds[k]
          BY <1>0, <3>3, <4>1, <4>2 DEF QueuesOK
        <5>4. \A k \in 1..Len(cmds') : k \in 1..Len(cmds) \/ k = Len(cmds) + 1
          BY <5>3
        <5>5. \A k \in 1..Len(cmds') : AsksFor(cmds'[k], d) => k = Len(cmds) + 1
          BY <5>2, <5>3, <5>4
        <5>6. \A k \in 1..Len(cmds') : ~(cmds'[k].op = "unsubscribe" /\ cmds'[k].ch = d)
          BY <1>0, <4>2, <5>3, <5>4 DEF AskedOnce
        <5>7. ~OnIn(bg', d) /\ d \in subscribed'
          BY <3>2, <3>3, <4>4, <5>2
        <5> QED
          BY <5>5, <5>6, <5>7 DEF AskedOnce, OnIn, AsksFor
      <4> QED
        BY <4>3, <4>4
    <3>4. CASE /\ cmds' = Append(cmds, [op |-> "unsubscribe", ch |-> i.ch])
               /\ i.kind = "removed" /\ subscribed' = subscribed \ {i.ch}
      <4>1. PICK cmd : cmd = [op |-> "unsubscribe", ch |-> i.ch]
        OBVIOUS
      <4>2. cmd \in Commands /\ cmd.op = "unsubscribe" /\ cmd.ch = i.ch /\ ~AsksFor(cmd, d)
        BY <3>2, <4>1 DEF Commands, AsksFor
      <4>3. d # i.ch
        BY <1>0, <3>2, <3>4 DEF Stayed
      <4> QED
        BY <1>0, <2>1, <3>4, <4>1, <4>2, <4>3, OnceAppend
    <3> QED
      BY <2>2, <2>4, <3>1, <3>3, <3>4, NoticeTaken
  <2> QED
    BY <1>2, <2>2, <2>3, <2>4, OthersLeft DEF TakeLoss, harness
<1> QED
  BY <1>1, <1>2

-----------------------------------------------------------------------------
Reaching == BaseInv /\ CutOK /\ WantedOnly /\ SettlingInv /\ ReachInv

LineInv == InOrder(wire) /\ Ahead /\ \A sub \in Subs : Stayed(sub) => Fine(sub)

\* A channel that the harness is subscribed to and never left has it as a member.
LEMMA StayedMember ==
    ASSUME BaseInv, SettlingInv, NEW c \in Channels, Stayed(c), c \in subscribed
    PROVE  c \in member
<1>1. CASE NoticesOf(c) = {}
  <2>1. c \in Founding
    BY <1>1 DEF SettlingInv, FollowsNewest
  <2> QED
    BY <1>1, <2>1 DEF SettlingInv, NewestDecides
<1>2. CASE NoticesOf(c) # {}
  <2>1. PICK i \in NoticesOf(c) : i.kind = "added" <=> c \in member
    BY <1>2 DEF SettlingInv, NewestDecides
  <2>2. i \in log /\ i.kind \in {"added", "removed"} /\ i.ch = c
    BY <2>1 DEF NoticesOf, IsNotice
  <2> QED
    BY <2>1, <2>2 DEF Stayed
<1> QED
  BY <1>1, <1>2

LEMMA ClosedAbout ==
    ASSUME NEW d
    PROVE  /\ LineOK => (OnWire(d, "closed") <=> \E m \in About(d) : m.type = "closed")
           /\ LineOK' => (OnWire(d, "closed")' <=> \E m \in About(d)' : m.type = "closed")
<1>1. ASSUME LineOK PROVE OnWire(d, "closed") <=> \E m \in About(d) : m.type = "closed"
  <2>1. DOMAIN wire = 1..Len(wire)
    BY <1>1 DEF LineOK
  <2> QED
    BY <2>1 DEF OnWire, About, Sent
<1>2. ASSUME LineOK' PROVE OnWire(d, "closed")' <=> \E m \in About(d)' : m.type = "closed"
  <2>1. DOMAIN wire' = 1..Len(wire')
    BY <1>2 DEF LineOK
  <2> QED
    BY <2>1 DEF OnWire, About, Sent
<1> QED
  BY <1>1, <1>2

LEMMA ReachTyped ==
    ASSUME LogOK, NEW i \in log
    PROVE  /\ i.ts \in Nat \ {0} /\ Reach(i) \in Nat /\ Reach(i) = i.ts + Skew /\ i.ts <= Reach(i)
           /\ SubOf(i) \in Subs /\ i.id \in Ids
<1>1. Skew \in Nat
  BY ClientAssumption
<1>2. i.ts \in Nat \ {0} /\ SubOf(i) \in Subs /\ i.id \in Ids
  BY DEF LogOK, Items, SubOf, Subs, Ids
<1> QED
  BY <1>1, <1>2 DEF Reach

LEMMA OnWayAwaited ==
    ASSUME LineOK, NEW i \in log
    PROVE  OnItsWay(i) <=> Awaited(i)
<1>1. DOMAIN wire = 1..Len(wire) /\ \A m \in Sent(wire) : m \in Messages
  BY SentParts DEF LineOK
<1>2. ASSUME OnItsWay(i) PROVE Awaited(i)
  <2>1. PICK m \in Sent(wire) : m.type = "item" /\ m.item = i
    BY <1>1, <1>2 DEF OnItsWay, Sent
  <2>2. m.sub = SubOf(i)
    BY <1>1, <2>1, MessageParts
  <2> QED
    BY <2>1, <2>2 DEF Awaited, About
<1>3. ASSUME Awaited(i) PROVE OnItsWay(i)
  BY <1>1, <1>3 DEF OnItsWay, Awaited, About, Sent
<1> QED
  BY <1>2, <1>3

\* What the next REQ of a subscription asks for, in terms of its stamps.
LEMMA NextReaches ==
    ASSUME Reaching, NEW d \in Subs, OnIn(bg, d), NEW i \in log, SubOf(i) = d, AskedNext(i)
    PROVE  DropIn(bg, d) \in 1..Reach(i) \/ UptoIn(bg, d) <= Reach(i)
<1>1. ReachInv /\ LogOK /\ bg \in States /\ Skew \in Nat /\ StampOf(bg, d) /\ clock \in Nat
  BY ClientAssumption DEF Reaching, BaseInv, TaskOK, ReachInv, StampsOK, LogOK
<1>2. PICK u \in Nat, x \in Nat, f \in Nat, w \in Nat :
        u = UptoIn(bg, d) /\ x = DropIn(bg, d) /\ f = FromIn(bg, d) /\ w = bg.watermark
  <2>1. UptoIn(bg, d) \in Nat /\ DropIn(bg, d) \in Nat /\ FromIn(bg, d) \in Nat
    BY <1>1, StampTyped
  <2>2. bg.watermark \in Nat
    BY <1>1 DEF States
  <2> QED
    BY <2>1, <2>2
<1>3. i.ts \in Nat /\ Reach(i) = i.ts + Skew
  BY <1>1, ReachTyped
<1>4. /\ d = Membership => u # 0 /\ SinceIn(bg, d) = OrElse(Earliest(x, u), w)
      /\ d # Membership => /\ f # 0 /\ (x # 0 => u # 0)
                           /\ SinceIn(bg, d) = OrElse(Earliest(u, x), OrElse(f, w))
  BY <1>1, <1>2 DEF StampOf, SinceIn, MembershipSince, ChannelSince, UptoIn, DropIn, FromIn
<1>5. PICK n : n = SinceIn(bg, d)
  OBVIOUS
<1>6. i.ts >= SinceTs(n)
  BY <1>5 DEF AskedNext, NextSince, SinceIn
<1>7. n \in Nat /\ n # 0 /\ (u # 0 => n = u \/ (n = x /\ x # 0))
  BY <1>2, <1>4, <1>5 DEF OrElse, Earliest
<1>8. n <= Reach(i)
  BY <1>1, <1>3, <1>6, <1>7 DEF SinceTs
<1> QED
  BY <1>1, <1>2, <1>3, <1>7, <1>8

\* What keeps a REQ due.
LEMMA DueKept ==
    ASSUME NEW d, ResubscribeDue(d),
           OnWire(d, "closed") => OnWire(d, "closed")',
           sock' => sock, bg.proactive => bg'.proactive, conn = "lost" => conn' = "lost",
           conn = "resub" => conn' = "resub" /\ (d \in todo => d \in todo'),
           d \in bg.pending \cup bg.retry => d \in bg'.pending \cup bg'.retry,
           d = Membership /\ bg.mResub => bg'.mResub
    PROVE  ResubscribeDue(d)'
BY DEF ResubscribeDue

\* A step that touches neither the stamps nor the items of a subscription, and
\* tells it nothing but a CLOSED that is no denial.
LEMMA FineKept ==
    ASSUME NEW d, Fine(d), SameStamps(bg, bg', d), d \in subs' => d \in subs, DropDue(d)',
           Excused \subseteq Excused', log \subseteq log',
           \A i \in log' : SubOf(i) = d => i \in log /\ enqueued'[i.id] = enqueued[i.id],
           \A m \in About(d)' : m \in About(d) \/ (OnIn(bg, d) /\ m.type = "closed" /\ m.why # "denied"),
           \A m \in About(d) : m.type = "item" => m \in About(d)'
    PROVE  Fine(d)'
<1>1. /\ (OnIn(bg, d)' <=> OnIn(bg, d)) /\ FromIn(bg, d)' = FromIn(bg, d)
      /\ UptoIn(bg, d)' = UptoIn(bg, d) /\ DropIn(bg, d)' = DropIn(bg, d)
  BY DEF SameStamps, OnIn, FromIn, UptoIn, DropIn
<1>2. ASSUME NEW i, SubOf(i) = d PROVE Awaited(i)' <=> Awaited(i)
  <2>1. About(SubOf(i))' = About(d)' /\ About(SubOf(i)) = About(d)
    BY <1>2 DEF About, SubOf
  <2> QED
    BY <2>1 DEF Awaited
<1>3. ASSUME NEW i \in log', SubOf(i) = d, Missing(i)' PROVE i \in log /\ Missing(i)
  <2>1. (OnIn(bg, SubOf(i))' <=> OnIn(bg, d)') /\ FromIn(bg, SubOf(i))' = FromIn(bg, d)'
    BY <1>3 DEF OnIn, FromIn, SubOf
  <2> QED
    BY <1>1, <1>2, <1>3, <2>1 DEF Missing
<1>4. InReach(d)'
  <2> SUFFICES ASSUME NEW i \in log', SubOf(i) = d, Missing(i)'
               PROVE  \/ DropIn(bg, d)' \in 1..Reach(i)
                      \/ /\ UptoIn(bg, d)' <= Reach(i) /\ d \notin subs'
                         /\ \A j \in log' : SubOf(j) = d /\ Awaited(j)' => j.ts <= Reach(i)
    BY DEF InReach, SubOf
  <2>1. i \in log /\ Missing(i)
    BY <1>3
  <2>2. \A j \in log' : SubOf(j) = d /\ Awaited(j)' => j \in log /\ Awaited(j)
    BY <1>2
  <2> QED
    BY <1>1, <2>1, <2>2 DEF Fine, InReach
<1>5. Untouched(d)'
  BY <1>1 DEF Fine, Untouched
<1>6. NotDenied(d)'
  BY DEF Fine, NotDenied
<1> QED
  BY <1>4, <1>5, <1>6 DEF Fine

LEMMA DropDueKept ==
    ASSUME NEW d, Fine(d), SameStamps(bg, bg', d), ResubscribeDue(d) => ResubscribeDue(d)'
    PROVE  DropDue(d)'
<1>1. (OnIn(bg, d)' <=> OnIn(bg, d)) /\ DropIn(bg, d)' = DropIn(bg, d)
  BY DEF SameStamps, OnIn, DropIn
<1> QED
  BY <1>1 DEF Fine, DropDue

\* The live items on the wire are older ones, and nothing newer was read.
LEMMA AheadKept ==
    ASSUME LogOK, LineOK, Ahead, \A m \in Sent(wire') : Live(m) => m \in Sent(wire),
           \A d \in Subs : UptoIn(bg', d) \in {UptoIn(bg, d), 0} \/ About(d) = {}
    PROVE  Ahead'
<1>1. ASSUME NEW m \in Sent(wire), Live(m) PROVE m.sub \in Subs /\ m.item.ts \in Nat
  <2>1. m \in Messages
    BY SentParts DEF LineOK
  <2>2. m.item \in log /\ m.sub = SubOf(m.item)
    BY <1>1, <2>1, MessageParts DEF Live
  <2> QED
    BY <2>2 DEF LogOK, Items, SubOf, Subs
<1>2. Sent(wire)' = Sent(wire')
  BY DEF Sent
<1>3. ASSUME NEW m \in Sent(wire'), Live(m) PROVE UptoIn(bg', m.sub) <= m.item.ts
  <2>1. m \in Sent(wire) /\ m.sub \in Subs /\ m.item.ts \in Nat /\ UptoIn(bg, m.sub) <= m.item.ts
    BY <1>1, <1>3 DEF Ahead
  <2>2. CASE UptoIn(bg', m.sub) = UptoIn(bg, m.sub)
    BY <2>1, <2>2
  <2>3. CASE UptoIn(bg', m.sub) = 0
    BY <2>1, <2>3
  <2>4. About(m.sub) # {}
    BY <1>3, <2>1 DEF About, Live
  <2> QED
    BY <2>1, <2>2, <2>3, <2>4
<1> QED
  BY <1>2, <1>3 DEF Ahead, UptoIn, Live

\* A step that changes neither the wire nor what the task knows of its subscriptions.
LEMMA IdleReaches ==
    ASSUME Reaching, LineOK', Excused \subseteq Excused', UNCHANGED <<log, enqueued, wire>>, subs' \subseteq subs,
           \A d \in Subs : SameStamps(bg, bg', d),
           \A d \in Subs : OnIn(bg, d) /\ ResubscribeDue(d) => ResubscribeDue(d)'
    PROVE  LineInv'
<1>1. ReachInv /\ LogOK /\ LineOK
  BY DEF Reaching, BaseInv
<1>2. InOrder(wire)'
  BY <1>1 DEF ReachInv, InOrder, Live
<1>3. Ahead'
  BY <1>1, AheadKept DEF ReachInv, SameStamps
<1>4. ASSUME NEW d \in Subs, Stayed(d)' PROVE Fine(d)'
  <2>1. Fine(d) /\ SameStamps(bg, bg', d)
    BY <1>1, <1>4 DEF Stayed, ReachInv
  <2>2. DropDue(d)'
    <3>1. (OnIn(bg, d)' <=> OnIn(bg, d)) /\ DropIn(bg, d)' = DropIn(bg, d)
      BY <2>1 DEF SameStamps, OnIn, DropIn
    <3> QED
      BY <2>1, <3>1 DEF Fine, DropDue
  <2>3. About(d)' = About(d)
    BY DEF About, Sent
  <2> QED
    BY <2>1, <2>2, <2>3, FineKept
<1> QED
  BY <1>2, <1>3, <1>4 DEF LineInv

LEMMA RestingReaches ==
    ASSUME Reaching, BaseInv', Excused \subseteq Excused',
           GateExpires \/ Connect \/ ProactiveResubscribe \/ DrainDone \/ Harness \/ SocketDies
    PROVE  LineInv'
<1>1. bg \in States /\ LineOK' /\ LineOK
  BY DEF Reaching, BaseInv, TaskOK
<1>2. UNCHANGED <<log, enqueued, wire>> /\ subs' \subseteq subs
  BY DEF GateExpires, Connect, ProactiveResubscribe, DrainDone, Harness, TakeEvent, TakeLoss, SkipNotice,
         ApplyNotice, Take, SocketDies, relay, line
<1>3. /\ bg'.active = bg.active /\ bg'.lastSeen = bg.lastSeen /\ bg'.dropped = bg.dropped
      /\ bg'.subSince = bg.subSince /\ bg'.mActive = bg.mActive /\ bg'.mLast = bg.mLast
      /\ bg'.mDropped = bg.mDropped
  <2>1. Harness => UNCHANGED bg
    BY DEF Harness, TakeEvent, TakeLoss, SkipNotice, ApplyNotice, Take
  <2>2. UNCHANGED bg \/ bg' = [bg EXCEPT !.gate = FALSE] \/ bg' = [bg EXCEPT !.pending = {}, !.retry = {}]
        \/ bg' = [bg EXCEPT !.proactive = FALSE]
    BY <2>1 DEF GateExpires, Connect, ProactiveResubscribe, DrainDone, SocketDies
  <2> QED
    BY <1>1, <2>2 DEF States
<1>4. \A d \in Subs : SameStamps(bg, bg', d)
  BY <1>3 DEF SameStamps, OnIn, FromIn, UptoIn, DropIn
<1>5. ASSUME NEW d \in Subs, OnIn(bg, d), ResubscribeDue(d) PROVE ResubscribeDue(d)'
  <2>1. CASE Connect \/ ProactiveResubscribe
    <3>1. conn' = "resub" /\ todo' = bg.active
      BY <2>1 DEF Connect, ProactiveResubscribe
    <3> QED
      BY <1>5, <3>1 DEF OnIn, ResubscribeDue
  <2>2. CASE SocketDies
    <3>1. ~sock'
      BY <2>2 DEF SocketDies
    <3> QED
      BY <3>1 DEF ResubscribeDue
  <2>3. CASE GateExpires \/ DrainDone \/ Harness
    <3>1. /\ sock' = sock /\ todo' = todo /\ (conn \in {"lost", "resub"} => conn' = conn)
          /\ (UNCHANGED bg \/ bg' = [bg EXCEPT !.gate = FALSE])
      BY <2>3 DEF GateExpires, DrainDone, Harness, TakeEvent, TakeLoss, SkipNotice, ApplyNotice, Take
    <3>2. bg'.proactive = bg.proactive /\ bg'.pending = bg.pending /\ bg'.retry = bg.retry /\ bg'.mResub = bg.mResub
      BY <1>1, <3>1 DEF States
    <3>3. OnWire(d, "closed")' <=> OnWire(d, "closed")
      BY <1>2 DEF OnWire
    <3> QED
      BY <1>5, <3>1, <3>2, <3>3, DueKept
  <2> QED
    BY <2>1, <2>2, <2>3
<1> QED
  BY <1>1, <1>2, <1>4, <1>5, IdleReaches

\* A message from the relay that concerns no item.
LEMMA ToldReaches ==
    ASSUME Reaching, BaseInv', Excused \subseteq Excused', NEW m \in Messages, wire' = Append(wire, m), ~Live(m), m.type # "item",
           UNCHANGED <<log, enqueued, bg, sock, conn, todo>>, subs' \subseteq subs,
           m.type = "closed" => m.why # "denied" /\ m.sub \in subs
    PROVE  LineInv'
<1>1. ReachInv /\ LogOK /\ LineOK /\ LineOK'
  BY DEF Reaching, BaseInv
<1>2. Sent(wire') = Sent(wire) \cup {m} /\ InOrder(wire')
  BY <1>1, SentParts, OrderedParts DEF LineOK, ReachInv
<1>3. Ahead'
  BY <1>1, <1>2, AheadKept DEF ReachInv
<1>4. ASSUME NEW d \in Subs, Stayed(d)' PROVE Fine(d)'
  <2>1. Fine(d) /\ SameStamps(bg, bg', d)
    BY <1>1, <1>4 DEF Stayed, ReachInv, SameStamps
  <2>2. About(d)' = {x \in Sent(wire) \cup {m} : x.type # "notice" /\ x.sub = d}
    BY <1>2 DEF About, Sent
  <2>3. About(d) \subseteq About(d)' /\ \A x \in About(d)' : x \in About(d) \/ (x = m /\ m.type = "closed" /\ m.sub = d)
    <3>1. m.type \in {"item", "closed", "notice"}
      BY MessageParts
    <3> QED
      BY <2>2, <3>1 DEF About
  <2>4. d \in subs => OnIn(bg, d)
    BY <2>1 DEF Fine, Untouched
  <2>5. OnWire(d, "closed") => OnWire(d, "closed")'
    BY <1>1, <2>3, ClosedAbout
  <2>6. DropDue(d)'
    BY <2>1, <2>5, DueKept, DropDueKept
  <2> QED
    BY <2>1, <2>3, <2>4, <2>6, FineKept
<1>5. InOrder(wire)'
  BY <1>2 DEF InOrder, Live
<1> QED
  BY <1>3, <1>4, <1>5 DEF LineInv

LEMMA RelayTells ==
    ASSUME Reaching, BaseInv', Excused \subseteq Excused', RelayThrottles \/ \E sub \in Subs : RelayCloses(sub)
    PROVE  LineInv'
<1>1. CASE RelayThrottles
  <2>1. /\ wire' = Append(wire, SlowDown) /\ UNCHANGED <<log, enqueued, bg, sock, conn, todo, subs>>
        /\ SlowDown \in Messages /\ SlowDown.type = "notice"
    BY <1>1, MessageKinds DEF RelayThrottles, relay, SlowDown
  <2> QED
    BY <2>1, ToldReaches DEF Live
<1>2. ASSUME NEW sub \in Subs, RelayCloses(sub) PROVE LineInv'
  <2>1. PICK m : m = Closed(sub, "error")
    OBVIOUS
  <2>2. /\ wire' = Append(wire, m) /\ UNCHANGED <<log, enqueued, bg, sock, conn, todo>> /\ subs' \subseteq subs
        /\ m \in Messages /\ m.type = "closed" /\ m.why = "error" /\ m.sub = sub /\ sub \in subs
    BY <1>2, <2>1, MessageKinds DEF RelayCloses, relay, Closed
  <2> QED
    BY <2>2, ToldReaches DEF Live
<1> QED
  BY <1>1, <1>2

\* A live item is appended: it is newer than whatever is on the wire.
LEMMA OrderedLive ==
    ASSUME NEW S, NEW a \in Seq(S), InOrder(a), NEW x \in S, x.type = "item", x.item.ts \in Nat,
           \A m \in Sent(a) : m.type = "item" => m.item.ts <= x.item.ts
    PROVE  InOrder(Append(a, x))
<1>1. /\ Len(a) \in Nat /\ Len(Append(a, x)) = Len(a) + 1 /\ Append(a, x)[Len(a) + 1] = x
      /\ \A k \in 1..Len(a) : Append(a, x)[k] = a[k]
  OBVIOUS
<1>2. ASSUME NEW k \in 1..(Len(a) + 1), Live(Append(a, x)[k]), NEW j \in 1..k,
             Append(a, x)[j].type = "item", Append(a, x)[j].sub = Append(a, x)[k].sub
      PROVE  Append(a, x)[j].item.ts <= Append(a, x)[k].item.ts
  <2>1. CASE k \in 1..Len(a)
    <3>1. j \in 1..Len(a) /\ Append(a, x)[j] = a[j] /\ Append(a, x)[k] = a[k]
      BY <1>1, <2>1
    <3> QED
      BY <1>2, <2>1, <3>1 DEF InOrder
  <2>2. CASE k = Len(a) + 1
    <3>1. CASE j \in 1..Len(a)
      <4>1. Append(a, x)[j] = a[j] /\ a[j] \in Sent(a)
        BY <1>1, <3>1 DEF Sent
      <4> QED
        BY <1>1, <1>2, <2>2, <4>1
    <3>2. CASE j = k
      BY <1>1, <2>2, <3>2
    <3> QED
      BY <1>1, <2>2, <3>1, <3>2
  <2> QED
    BY <1>1, <2>1, <2>2
<1> QED
  BY <1>1, <1>2 DEF InOrder

LEMMA PublishReaches ==
    ASSUME Reaching, BaseInv', Excused \subseteq Excused', NEW c \in Channels, NEW kind \in {"event", "added", "removed"},
           Publish(c, kind)
    PROVE  LineInv'
<1>1. ReachInv /\ LogOK /\ LineOK /\ LineOK' /\ bg \in States
  BY DEF Reaching, BaseInv, TaskOK
<1>2. PICK i : i = [id |-> Cardinality(log) + 1, ch |-> c, ts |-> clock + 1, kind |-> kind]
  OBVIOUS
<1>3. PICK ev : ev = IF kind = "removed" /\ c \in subs THEN <<Closed(c, "denied")>> ELSE <<>>
  OBVIOUS
<1>4. PICK live : live = IF SubOf(i) \in subs THEN <<Pushed(i, FALSE)>> ELSE <<>>
  OBVIOUS
<1>5. /\ wire' = wire \o ev \o live /\ log' = log \cup {i}
      /\ subs' = (IF kind = "removed" THEN subs \ {c} ELSE subs)
      /\ UNCHANGED <<conn, sock, todo, bg, enqueued>>
  BY <1>2, <1>3, <1>4 DEF Publish
<1>6. /\ clock \in Nat /\ i.ts = clock + 1 /\ i.ts \in Nat /\ i.kind = kind /\ i.ch = c
      /\ \A j \in log : j.ts \in Nat /\ j.ts <= clock
  BY <1>1, <1>2 DEF LogOK, Items
<1>7. i \notin log
  BY <1>6
<1>8. /\ \A m \in Messages : m \in Messages'
      /\ Closed(c, "denied") \in Messages' /\ Pushed(i, FALSE) \in Messages'
  BY <1>5 DEF Messages
<1>9. wire \in Seq(Messages') /\ ev \in Seq(Messages') /\ live \in Seq(Messages') /\ wire \o ev \in Seq(Messages')
  <2>1. wire \in Seq(Messages')
    BY <1>1, <1>8 DEF LineOK
  <2>2. ev \in Seq(Messages') /\ live \in Seq(Messages')
    BY <1>3, <1>4, <1>8, Single
  <2> QED
    BY <2>1, <2>2, Joined
<1>10. /\ Sent(ev) = (IF kind = "removed" /\ c \in subs THEN {Closed(c, "denied")} ELSE {})
       /\ Sent(live) = (IF SubOf(i) \in subs THEN {Pushed(i, FALSE)} ELSE {})
  <2>1. Sent(<<>>) = {} /\ \A x : Sent(<<x>>) = {x}
    BY DEF Sent
  <2> QED
    BY <1>3, <1>4, <2>1
<1>11. Sent(wire') = Sent(wire) \cup Sent(ev) \cup Sent(live)
  <2>1. Sent(wire \o ev) = Sent(wire) \cup Sent(ev)
    BY <1>9, SentParts
  <2>2. Sent((wire \o ev) \o live) = Sent(wire \o ev) \cup Sent(live)
    <3>1. PICK w : w = wire \o ev
      OBVIOUS
    <3>2. w \in Seq(Messages')
      BY <1>9, <3>1
    <3>3. Sent(w \o live) = Sent(w) \cup Sent(live)
      BY <1>9, <3>2, SentParts
    <3> QED
      BY <3>1, <3>3
  <2> QED
    BY <1>5, <2>1, <2>2
<1>12. /\ Pushed(i, FALSE).type = "item" /\ Pushed(i, FALSE).item = i /\ Pushed(i, FALSE).sub = SubOf(i)
       /\ Closed(c, "denied").type = "closed" /\ Closed(c, "denied").sub = c
  BY DEF Pushed, Closed
<1>13. \A m \in Sent(wire) : m \in Messages /\ (m.type = "item" => m.item \in log /\ m.sub = SubOf(m.item))
  BY <1>1, SentParts, MessageParts DEF LineOK
<1>14. \A d \in Subs : UptoIn(bg, d) \in Nat /\ UptoIn(bg, d) <= clock
  BY <1>1, StampTyped DEF ReachInv, StampsOK, StampOf
<1>15. SubOf(i) \in Subs
  BY <1>6 DEF SubOf, Subs
<1>16. InOrder(wire)'
  <2>1. InOrder(wire \o ev)
    <3>1. \A m \in Sent(ev) : ~Live(m)
      BY <1>10, <1>12 DEF Live
    <3> QED
      BY <1>1, <1>9, <3>1, OrderedParts DEF ReachInv
  <2>2. Sent(wire \o ev) = Sent(wire) \cup Sent(ev)
    BY <1>9, SentParts
  <2>3. \A m \in Sent(wire \o ev) : m.type = "item" => m.item.ts <= i.ts
    BY <1>6, <1>10, <1>12, <1>13, <2>2
  <2>4. CASE SubOf(i) \in subs
    <3>1. wire' = Append(wire \o ev, Pushed(i, FALSE))
      <4>1. live = <<Pushed(i, FALSE)>>
        BY <1>4, <2>4
      <4>2. \A S : \A a \in Seq(S) : \A x \in S : a \o <<x>> = Append(a, x)
        OBVIOUS
      <4> QED
        BY <1>5, <1>8, <1>9, <4>1, <4>2
    <3>2. InOrder(Append(wire \o ev, Pushed(i, FALSE)))
      BY <1>6, <1>8, <1>9, <1>12, <2>1, <2>3, OrderedLive
    <3> QED
      BY <3>1, <3>2 DEF InOrder, Live
  <2>5. CASE SubOf(i) \notin subs
    <3>1. wire' = wire \o ev
      BY <1>4, <1>5, <1>9, <2>5
    <3> QED
      BY <2>1, <3>1 DEF InOrder, Live
  <2> QED
    BY <2>4, <2>5
<1>17. Ahead'
  <2> SUFFICES ASSUME NEW m \in Sent(wire'), Live(m) PROVE UptoIn(bg, m.sub) <= m.item.ts
    BY <1>5 DEF Ahead, Sent, Live, UptoIn
  <2>1. CASE m \in Sent(wire)
    BY <1>1, <2>1 DEF ReachInv, Ahead
  <2>2. CASE m = Pushed(i, FALSE)
    <3>1. m.sub = SubOf(i) /\ m.item = i
      BY <1>12, <2>2
    <3>2. UptoIn(bg, SubOf(i)) <= i.ts
      BY <1>6, <1>14, <1>15
    <3> QED
      BY <3>1, <3>2
  <2>3. m = Closed(c, "denied") => ~Live(m)
    BY <1>12 DEF Live
  <2>4. m \in Sent(wire) \/ m = Closed(c, "denied") \/ m = Pushed(i, FALSE)
    <3>1. Sent(ev) \subseteq {Closed(c, "denied")} /\ Sent(live) \subseteq {Pushed(i, FALSE)}
      BY <1>10
    <3> QED
      BY <1>11, <3>1
  <2> QED
    BY <2>1, <2>2, <2>3, <2>4
<1>18. ASSUME NEW d \in Subs, Stayed(d)' PROVE Fine(d)'
  <2>1. Stayed(d) /\ Fine(d) /\ (kind = "removed" => d # c)
    BY <1>1, <1>5, <1>6, <1>18 DEF Stayed, ReachInv
  <2>2. SameStamps(bg, bg', d) /\ (d \in subs' <=> d \in subs)
    BY <1>5, <2>1 DEF SameStamps
  <2>3. About(d)' = {x \in Sent(wire') : x.type # "notice" /\ x.sub = d}
    BY DEF About, Sent
  <2>4. About(d)' = About(d) \cup (IF d = SubOf(i) /\ d \in subs THEN {Pushed(i, FALSE)} ELSE {})
    BY <1>10, <1>11, <1>12, <2>1, <2>3 DEF About
  <2>5. OnWire(d, "closed") => OnWire(d, "closed")'
    BY <1>1, <2>4, ClosedAbout
  <2>6. DropDue(d)'
    BY <1>5, <2>1, <2>2, <2>5, DueKept, DropDueKept
  <2>7. CASE d # SubOf(i)
    BY <1>5, <2>1, <2>2, <2>4, <2>6, <2>7, FineKept
  <2>8. CASE d = SubOf(i)
    <3>1. NotDenied(d)'
      BY <1>12, <2>1, <2>4 DEF Fine, NotDenied
    <3>2. /\ (OnIn(bg, d)' <=> OnIn(bg, d)) /\ FromIn(bg, d)' = FromIn(bg, d)
          /\ UptoIn(bg, d)' = UptoIn(bg, d) /\ DropIn(bg, d)' = DropIn(bg, d)
      BY <1>5 DEF OnIn, FromIn, UptoIn, DropIn
    <3>3. Untouched(d)'
      BY <2>1, <2>2, <2>4, <3>2 DEF Fine, Untouched
    <3>4. ASSUME NEW j, SubOf(j) = d PROVE Awaited(j)' <=> Awaited(j) \/ (j = i /\ d \in subs)
      <4>1. About(SubOf(j))' = About(d)' /\ About(SubOf(j)) = About(d)
        BY <3>4 DEF About, SubOf
      <4> QED
        BY <1>12, <2>4, <2>8, <4>1 DEF Awaited
    <3>5. ASSUME NEW j \in log, SubOf(j) = d, Missing(j)' PROVE Missing(j)
      <4>1. (OnIn(bg, SubOf(j))' <=> OnIn(bg, d)') /\ FromIn(bg, SubOf(j))' = FromIn(bg, d)'
        BY <3>5 DEF OnIn, FromIn, SubOf
      <4> QED
        BY <1>5, <3>2, <3>4, <3>5, <4>1 DEF Missing
    <3>6. \A j \in log : ~Awaited(i) /\ (SubOf(j) = d /\ Awaited(j)' => Awaited(j))
      <4>1. ~Awaited(i)
        BY <1>7, <1>13 DEF Awaited, About
      <4> QED
        BY <1>7, <3>4, <4>1
    <3>7. ASSUME NEW j \in log', SubOf(j) = d, Missing(j)'
          PROVE  \/ DropIn(bg, d) \in 1..Reach(j)
                 \/ /\ UptoIn(bg, d) <= Reach(j) /\ d \notin subs
                    /\ \A k \in log' : SubOf(k) = d /\ Awaited(k)' => k.ts <= Reach(j)
      <4>1. CASE j = i
        <5>1. d \notin subs
          BY <2>8, <3>4, <3>7, <4>1 DEF Missing
        <5>2. \A k \in log' : k.ts <= i.ts
          BY <1>5, <1>6
        <5>3. Skew \in Nat /\ Reach(i) = i.ts + Skew
          BY ClientAssumption DEF Reach
        <5>4. \A k \in log' : k.ts \in Nat /\ k.ts <= Reach(i)
          BY <1>5, <1>6, <5>2, <5>3
        <5>5. UptoIn(bg, d) <= Reach(i)
          BY <1>6, <1>14, <5>3
        <5> QED
          BY <4>1, <5>1, <5>4, <5>5
      <4>2. CASE j \in log
        <5>1. Missing(j)
          BY <3>5, <3>7, <4>2
        <5>2. \A k \in log' : SubOf(k) = d /\ Awaited(k)' /\ d \notin subs => k \in log /\ Awaited(k)
          <6>1. ~Awaited(i)
            BY <1>7, <1>13 DEF Awaited, About
          <6> QED
            BY <1>5, <3>4, <6>1
        <5> QED
          BY <2>1, <3>7, <4>2, <5>1, <5>2 DEF Fine, InReach
      <4> QED
        BY <1>5, <3>7, <4>1, <4>2
    <3>8. InReach(d)'
      BY <2>2, <3>2, <3>7 DEF InReach, SubOf
    <3> QED
      BY <2>6, <3>1, <3>3, <3>8 DEF Fine
  <2> QED
    BY <2>7, <2>8
<1> QED
  BY <1>16, <1>17, <1>18 DEF LineInv

\* The first message is read.
LEMMA HeadRead ==
    ASSUME LogOK, LineOK, InOrder(wire), wire # <<>>, wire' = Tail(wire)
    PROVE  /\ Head(wire) \in Messages /\ Head(wire) \in Sent(wire) /\ Sent(wire') \subseteq Sent(wire)
           /\ InOrder(wire)'
           /\ \A d : About(d)' \subseteq About(d) /\ \A m \in About(d) : m \in About(d)' \/ m = Head(wire)
           /\ \A m \in Sent(wire') : Live(m) /\ Head(wire).type = "item" /\ Head(wire).sub = m.sub
                => Head(wire).item.ts <= m.item.ts
<1>1. /\ Head(wire) \in Messages /\ Len(Tail(wire)) = Len(wire) - 1 /\ Len(wire) \in Nat \ {0}
      /\ wire[1] = Head(wire) /\ \A k \in 1..Len(Tail(wire)) : Tail(wire)[k] = wire[k + 1]
  BY HeadTail DEF LineOK
<1>2. Sent(wire) = {Head(wire)} \cup Sent(wire') /\ InOrder(wire')
  BY SentParts, OrderedParts DEF LineOK
<1>3. InOrder(wire)'
  BY <1>2 DEF InOrder, Live
<1>4. ASSUME NEW d PROVE About(d)' \subseteq About(d) /\ \A m \in About(d) : m \in About(d)' \/ m = Head(wire)
  <2>1. About(d)' = {x \in Sent(wire') : x.type # "notice" /\ x.sub = d}
    BY DEF About, Sent
  <2> QED
    BY <1>2, <2>1 DEF About
<1>5. ASSUME NEW m \in Sent(wire'), Live(m), Head(wire).type = "item", Head(wire).sub = m.sub
      PROVE  Head(wire).item.ts <= m.item.ts
  <2>1. PICK k \in 1..Len(Tail(wire)) : m = Tail(wire)[k]
    BY <1>5 DEF Sent
  <2>2. k + 1 \in 1..Len(wire) /\ 1 \in 1..(k + 1) /\ m = wire[k + 1]
    BY <1>1, <2>1
  <2> QED
    BY <1>1, <1>5, <2>2 DEF InOrder
<1> QED
  BY <1>1, <1>2, <1>3, <1>4, <1>5

LEMMA EarliestLatest ==
    \A a, b \in Nat :
        /\ Latest(a, b) \in Nat /\ Earliest(a, b) \in Nat
        /\ \A t \in Nat : a <= t /\ b <= t => Latest(a, b) <= t
        /\ b # 0 => Earliest(a, b) \in 1..b
        /\ a # 0 => Earliest(a, b) \in 1..a
BY DEF Latest, Earliest

LEMMA ReadItemReaches ==
    ASSUME Reaching, BaseInv', Excused \subseteq Excused', ReadItem
    PROVE  LineInv'
<1>1. ReachInv /\ LogOK /\ LineOK /\ LineOK' /\ bg \in States /\ enqueued \in [Ids -> Nat]
  BY DEF Reaching, BaseInv, TaskOK, HarnessOK
<1>2. PICK h : h = Head(wire)
  OBVIOUS
<1>3. PICK i : i = h.item
  OBVIOUS
<1>4. /\ wire # <<>> /\ wire' = Tail(wire) /\ h.type = "item" /\ UNCHANGED <<log, subs, sock, conn, todo>>
      /\ \/ SeenBefore(bg.seen, i.id) /\ UNCHANGED <<bg, enqueued>>
         \/ bg' = Accept(bg, i) /\ enqueued' = [enqueued EXCEPT ![i.id] = @ + 1]
         \/ bg' = Refuse(bg, i) /\ UNCHANGED enqueued
  BY <1>2, <1>3 DEF ReadItem, relay
<1>5. /\ h \in Messages /\ h \in Sent(wire) /\ Sent(wire') \subseteq Sent(wire) /\ InOrder(wire)'
      /\ \A d : About(d)' \subseteq About(d) /\ \A m \in About(d) : m \in About(d)' \/ m = h
      /\ \A m \in Sent(wire') : Live(m) /\ h.sub = m.sub => i.ts <= m.item.ts
  <2>1. InOrder(wire)
    BY <1>1 DEF ReachInv
  <2> QED
    BY <1>1, <1>2, <1>3, <1>4, <2>1, HeadRead
<1>6. i \in log /\ h.sub = SubOf(i) /\ i.id \in Ids /\ i.ts \in Nat \ {0} /\ SubOf(i) \in Subs
  <2>1. i \in log /\ h.sub = SubOf(i)
    BY <1>3, <1>4, <1>5, MessageParts
  <2> QED
    BY <1>1, <2>1 DEF LogOK, Items, Ids, SubOf, Subs
<1>7. \A d \in Subs : UptoIn(bg, d) \in Nat /\ DropIn(bg, d) \in Nat
  BY <1>1, StampTyped
<1>8. \A d \in Subs \ {SubOf(i)} : SameStamps(bg, bg', d)
  BY <1>1, <1>4, <1>6, ReadStamps DEF SameStamps
<1>9. /\ (OnIn(bg', SubOf(i)) <=> OnIn(bg, SubOf(i))) /\ FromIn(bg', SubOf(i)) = FromIn(bg, SubOf(i))
      /\ UptoIn(bg', SubOf(i)) \in {UptoIn(bg, SubOf(i)), Latest(UptoIn(bg, SubOf(i)), i.ts)}
      /\ bg' = Refuse(bg, i) => DropIn(bg', SubOf(i)) = Earliest(DropIn(bg, SubOf(i)), i.ts)
      /\ bg' = bg \/ bg' = Accept(bg, i) => DropIn(bg', SubOf(i)) = DropIn(bg, SubOf(i))
  <2>1. CASE bg' = bg
    <3>1. bg' = Refuse(bg, i) => DropIn(bg', SubOf(i)) = Earliest(DropIn(bg, SubOf(i)), i.ts)
      BY <1>1, <1>6, ReadStamps
    <3> QED
      BY <2>1, <3>1
  <2>2. CASE bg' = Accept(bg, i)
    <3>1. bg' = Refuse(bg, i) => DropIn(bg', SubOf(i)) = Earliest(DropIn(bg, SubOf(i)), i.ts)
      BY <1>1, <1>6, ReadStamps
    <3> QED
      BY <1>1, <1>6, <2>2, <3>1, ReadStamps
  <2>3. CASE bg' = Refuse(bg, i) /\ bg' # bg /\ bg' # Accept(bg, i)
    BY <1>1, <1>6, <2>3, ReadStamps
  <2> QED
    BY <1>4, <2>1, <2>2, <2>3
<1>10. \A d \in Subs : ResubscribeDue(d) \/ bg'.proactive => ResubscribeDue(d)'
  <2> SUFFICES ASSUME NEW d \in Subs, ResubscribeDue(d), ~bg'.proactive PROVE ResubscribeDue(d)'
    BY DEF ResubscribeDue
  <2>1. bg' = bg \/ bg' = Accept(bg, i)
    BY <1>1, <1>4, <1>6, ReadFields
  <2>2. /\ bg'.pending = bg.pending /\ bg'.retry = bg.retry /\ bg'.proactive = bg.proactive
        /\ bg'.mResub = bg.mResub
    BY <1>1, <1>6, <2>1, ReadFields
  <2>3. OnWire(d, "closed") => OnWire(d, "closed")'
    BY <1>1, <1>4, <1>5, ClosedAbout
  <2> QED
    BY <1>4, <2>2, <2>3, DueKept
<1>11. \A j \in log : j # i => enqueued'[j.id] = enqueued[j.id]
  <2>1. \A j \in log : j.id \in Ids /\ (j.id = i.id => j = i)
    BY <1>1, <1>6 DEF LogOK, Items, Ids
  <2> QED
    BY <1>1, <1>4, <2>1
<1>12. Ahead'
  <2> SUFFICES ASSUME NEW m \in Sent(wire'), Live(m) PROVE UptoIn(bg', m.sub) <= m.item.ts
    BY DEF Ahead, Sent, Live, UptoIn
  <2>1. m \in Sent(wire) /\ UptoIn(bg, m.sub) <= m.item.ts
    BY <1>1, <1>5 DEF ReachInv, Ahead
  <2>2. m.item \in log /\ m.sub = SubOf(m.item)
    <3>1. m \in Messages
      BY <1>1, <2>1, SentParts DEF LineOK
    <3> QED
      BY <3>1, MessageParts DEF Live
  <2>3. m.item.ts \in Nat /\ m.sub \in Subs
    BY <1>1, <2>2 DEF LogOK, Items, SubOf, Subs
  <2>4. CASE m.sub # SubOf(i)
    BY <1>8, <2>1, <2>3, <2>4 DEF SameStamps
  <2>5. CASE m.sub = SubOf(i)
    <3>1. i.ts <= m.item.ts
      BY <1>5, <1>6, <2>5
    <3>2. Latest(UptoIn(bg, SubOf(i)), i.ts) <= m.item.ts
      BY <1>6, <1>7, <2>1, <2>3, <2>5, <3>1, EarliestLatest
    <3> QED
      BY <1>9, <2>1, <2>5, <3>2
  <2> QED
    BY <2>4, <2>5
<1>13. ASSUME NEW d \in Subs, Stayed(d)' PROVE Fine(d)'
  <2>1. Fine(d)
    BY <1>1, <1>4, <1>13 DEF Stayed, ReachInv
  <2>2. CASE d # SubOf(i)
    <3>1. SameStamps(bg, bg', d) /\ DropDue(d)'
      BY <1>8, <1>10, <2>1, <2>2, DropDueKept
    <3>2. About(d)' = About(d)
      BY <1>5, <1>6, <2>2 DEF About
    <3> QED
      BY <1>4, <1>11, <2>1, <2>2, <3>1, <3>2, FineKept
  <2>3. CASE d = SubOf(i)
    <3>1. h \in About(d) /\ Awaited(i)
      BY <1>3, <1>4, <1>5, <1>6, <2>3 DEF About, Awaited
    <3>2. OnIn(bg, d) /\ OnIn(bg', d)
      BY <1>9, <2>1, <2>3, <3>1 DEF Fine, Untouched
    <3>3. (OnIn(bg, d)' <=> OnIn(bg', d)) /\ FromIn(bg, d)' = FromIn(bg', d)
          /\ UptoIn(bg, d)' = UptoIn(bg', d) /\ DropIn(bg, d)' = DropIn(bg', d)
      BY DEF OnIn, FromIn, UptoIn, DropIn
    <3>4. NotDenied(d)' /\ Untouched(d)'
      BY <1>5, <2>1, <3>2, <3>3 DEF Fine, NotDenied, Untouched
    <3>5. DropDue(d)'
      <4>1. CASE bg' = Refuse(bg, i)
        <5>1. bg'.proactive
          BY <1>1, <1>6, <4>1, ReadFields
        <5> QED
          BY <1>10, <5>1 DEF DropDue
      <4>2. CASE bg' = bg \/ bg' = Accept(bg, i)
        BY <1>9, <1>10, <2>1, <2>3, <3>2, <3>3, <4>2 DEF Fine, DropDue
      <4> QED
        BY <1>4, <4>1, <4>2
    <3>6. ASSUME NEW j, SubOf(j) = d
          PROVE  (Awaited(j)' => Awaited(j)) /\ (j # i /\ Awaited(j) => Awaited(j)')
      <4>1. About(SubOf(j))' = About(d)' /\ About(SubOf(j)) = About(d)
        BY <3>6 DEF About, SubOf
      <4> QED
        BY <1>3, <1>5, <4>1 DEF Awaited
    <3>7. ASSUME NEW j \in log, SubOf(j) = d, Missing(j)', j # i PROVE Missing(j)
      <4>1. (OnIn(bg, SubOf(j))' <=> OnIn(bg, d)') /\ FromIn(bg, SubOf(j))' = FromIn(bg, d)'
        BY <3>7 DEF OnIn, FromIn, SubOf
      <4> QED
        BY <1>9, <1>11, <2>3, <3>2, <3>3, <3>6, <3>7, <4>1 DEF Missing
    <3>8. Missing(i)' => bg' = Refuse(bg, i)
      <4>1. SeenBefore(bg.seen, i.id) => enqueued[i.id] > 0
        BY <1>1 DEF ReachInv, SeenIn, SeenBefore, SeenOf
      <4>2. enqueued' = [enqueued EXCEPT ![i.id] = @ + 1] => enqueued'[i.id] > 0
        BY <1>1, <1>6
      <4> QED
        BY <1>1, <1>4, <1>6, <4>1, <4>2 DEF Missing
    <3>9. ASSUME NEW j \in log, SubOf(j) = d, Missing(j)'
          PROVE  \/ DropIn(bg', d) \in 1..Reach(j)
                 \/ /\ UptoIn(bg', d) <= Reach(j) /\ d \notin subs
                    /\ \A k \in log : SubOf(k) = d /\ Awaited(k)' => k.ts <= Reach(j)
      <4>0. Reach(j) \in Nat /\ j.ts <= Reach(j) /\ j.ts \in Nat
        BY <1>1, ReachTyped
      <4>1. CASE j = i
        <5>1. DropIn(bg', d) = Earliest(DropIn(bg, d), i.ts)
          BY <1>9, <2>3, <3>8, <3>9, <4>1
        <5>2. DropIn(bg, d) \in Nat
          BY <1>7
        <5>3. Earliest(DropIn(bg, d), i.ts) \in 1..i.ts
          BY <1>6, <5>2, EarliestLatest
        <5>4. DropIn(bg', d) \in 1..Reach(j)
          BY <1>6, <4>0, <4>1, <5>1, <5>3
        <5> QED
          BY <5>4
      <4>2. CASE j # i
        <5>1. Missing(j)
          BY <3>7, <3>9, <4>2
        <5>2. CASE DropIn(bg, d) \in 1..Reach(j)
          <6>1. Earliest(DropIn(bg, d), i.ts) \in 1..Reach(j)
            <7>1. DropIn(bg, d) \in Nat /\ DropIn(bg, d) # 0 /\ DropIn(bg, d) <= Reach(j)
              BY <1>7, <4>0, <5>2
            <7>2. Earliest(DropIn(bg, d), i.ts) \in 1..DropIn(bg, d)
              BY <1>6, <7>1, EarliestLatest
            <7> QED
              BY <4>0, <7>1, <7>2
          <6> QED
            BY <1>4, <1>9, <2>3, <5>2, <6>1
        <5>3. CASE /\ UptoIn(bg, d) <= Reach(j) /\ d \notin subs
                   /\ \A k \in log : SubOf(k) = d /\ Awaited(k) => k.ts <= Reach(j)
          <6>1. i.ts <= Reach(j)
            BY <1>6, <2>3, <3>1, <5>3
          <6>2. Latest(UptoIn(bg, d), i.ts) <= Reach(j)
            BY <1>6, <1>7, <4>0, <5>3, <6>1, EarliestLatest
          <6>3. UptoIn(bg', d) <= Reach(j)
            BY <1>9, <2>3, <5>3, <6>2
          <6> QED
            BY <3>6, <5>3, <6>3
        <5> QED
          BY <2>1, <3>9, <5>1, <5>2, <5>3 DEF Fine, InReach
      <4> QED
        BY <4>1, <4>2
    <3>10. InReach(d)'
      BY <1>4, <3>3, <3>9 DEF InReach, SubOf
    <3> QED
      BY <3>4, <3>5, <3>10 DEF Fine
  <2> QED
    BY <2>2, <2>3
<1> QED
  BY <1>5, <1>12, <1>13 DEF LineInv

\* A message that is no item is read.
LEMMA TurnReaches ==
    ASSUME Reaching, BaseInv', Excused \subseteq Excused', wire # <<>>, wire' = Tail(wire), Head(wire).type # "item",
           UNCHANGED <<log, enqueued, subs, sock, conn, todo>>,
           \A d \in Subs : Stayed(d) => SameStamps(bg, bg', d),
           \A d \in Subs : UptoIn(bg', d) \in {UptoIn(bg, d), 0},
           bg.proactive => bg'.proactive, bg.mResub => bg'.mResub,
           \A d \in Subs : Stayed(d) /\ d \in bg.pending \cup bg.retry => d \in bg'.pending \cup bg'.retry,
           \A d \in Subs : Stayed(d) /\ OnIn(bg, d) /\ Head(wire).type = "closed" /\ Head(wire).sub = d
                => ResubscribeDue(d)'
    PROVE  LineInv'
<1>1. ReachInv /\ LogOK /\ LineOK /\ LineOK' /\ InOrder(wire) /\ Ahead
  BY DEF Reaching, BaseInv, ReachInv
<1>2. /\ Head(wire) \in Messages /\ Sent(wire') \subseteq Sent(wire) /\ InOrder(wire)'
      /\ \A d : About(d)' \subseteq About(d) /\ \A m \in About(d) : m \in About(d)' \/ m = Head(wire)
  BY <1>1, HeadRead
<1>3. Ahead'
  BY <1>1, <1>2, AheadKept
<1>4. ASSUME NEW d \in Subs, Stayed(d)' PROVE Fine(d)'
  <2>1. Stayed(d) /\ Fine(d) /\ SameStamps(bg, bg', d)
    BY <1>1, <1>4 DEF Stayed, ReachInv
  <2>2. DropDue(d)'
    <3>1. CASE Head(wire).type = "closed" /\ Head(wire).sub = d
      <4>1. (OnIn(bg, d)' <=> OnIn(bg, d))
        BY <2>1 DEF SameStamps, OnIn
      <4> QED
        BY <2>1, <3>1, <4>1 DEF DropDue
    <3>2. CASE ~(Head(wire).type = "closed" /\ Head(wire).sub = d)
      <4>1. Head(wire) \notin About(d)
        BY <1>2, <3>2, MessageParts DEF About
      <4>2. About(d)' = About(d)
        BY <1>2, <4>1
      <4>3. OnWire(d, "closed") => OnWire(d, "closed")'
        BY <1>1, <4>2, ClosedAbout
      <4> QED
        BY <2>1, <4>3, DueKept, DropDueKept
    <3> QED
      BY <3>1, <3>2
  <2> QED
    BY <1>2, <2>1, <2>2, FineKept
<1> QED
  BY <1>2, <1>3, <1>4 DEF LineInv

LEMMA RefusalReaches ==
    ASSUME Reaching, BaseInv', Excused \subseteq Excused', ReadRefusal \/ ReadNotice
    PROVE  LineInv'
<1>1. ReachInv /\ BaseInv /\ LineOK /\ bg \in States
  BY DEF Reaching, BaseInv, TaskOK
<1>2. PICK h : h = Head(wire)
  OBVIOUS
<1>3. /\ wire # <<>> /\ wire' = Tail(wire) /\ h.type # "item"
      /\ UNCHANGED <<log, enqueued, subs, sock, conn, todo>>
  BY <1>2 DEF ReadRefusal, ReadNotice, relay, SlowDown
<1>4. h \in Messages /\ h \in Sent(wire)
  BY <1>1, <1>2, <1>3, SentParts, HeadTail DEF LineOK
<1>5. \A d \in Subs : UptoIn(bg, d) \in Nat
  BY <1>1, StampTyped
<1>6. CASE Denial
  <2>1. /\ h.sub \in Channels /\ h.type = "closed" /\ bg' = ClearChannel(bg, h.sub)
        /\ \A d \in Subs \ {h.sub} : SameStamps(bg, bg', d)
        /\ UptoIn(bg', h.sub) = 0
    BY <1>1, <1>2, <1>6, DenialStamps
  <2>2. h.why = "denied"
    BY <1>2, <1>6 DEF Denial
  <2>3. ~Stayed(h.sub)
    <3>1. h \in About(h.sub) /\ h.sub \in Subs
      BY <1>4, <2>1 DEF About, Subs
    <3> QED
      BY <1>1, <2>1, <2>2, <3>1 DEF ReachInv, Fine, NotDenied
  <2>4. /\ bg'.proactive = bg.proactive /\ bg'.mResub = bg.mResub
        /\ bg'.pending = bg.pending \ {h.sub} /\ bg'.retry = bg.retry \ {h.sub}
    BY <1>1, <2>1 DEF ClearChannel, States
  <2>5. \A d \in Subs : UptoIn(bg', d) \in {UptoIn(bg, d), 0}
    BY <2>1 DEF SameStamps
  <2> QED
    BY <1>2, <1>3, <2>1, <2>3, <2>4, <2>5, TurnReaches
<1>7. CASE ~Denial
  <2>1. \/ bg' = [bg EXCEPT !.gate = TRUE] /\ h.type = "notice"
        \/ bg' = [bg EXCEPT !.gate = TRUE, !.pending = @ \cup {h.sub}]
        \/ bg' = [bg EXCEPT !.gate = TRUE, !.mResub = TRUE] /\ h.sub = Membership
    BY <1>2, <1>7 DEF ReadRefusal, ReadNotice, Denial, SlowDown
  <2>2. /\ bg'.active = bg.active /\ bg'.lastSeen = bg.lastSeen /\ bg'.dropped = bg.dropped
        /\ bg'.subSince = bg.subSince /\ bg'.mActive = bg.mActive /\ bg'.mLast = bg.mLast
        /\ bg'.mDropped = bg.mDropped /\ bg'.proactive = bg.proactive /\ bg'.retry = bg.retry
        /\ bg.pending \subseteq bg'.pending /\ (bg.mResub => bg'.mResub)
        /\ h.type = "notice" \/ h.sub \in bg'.pending \/ (h.sub = Membership /\ bg'.mResub)
    BY <1>1, <2>1 DEF States
  <2>3. \A d \in Subs : SameStamps(bg, bg', d)
    BY <2>2 DEF SameStamps, OnIn, FromIn, UptoIn, DropIn
  <2>4. \A d \in Subs : h.type = "closed" /\ h.sub = d => ResubscribeDue(d)'
    BY <2>2 DEF ResubscribeDue
  <2>5. \A d \in Subs : UptoIn(bg', d) \in {UptoIn(bg, d), 0}
    BY <2>3 DEF SameStamps
  <2> QED
    BY <1>2, <1>3, <2>2, <2>3, <2>4, <2>5, TurnReaches
<1> QED
  BY <1>6, <1>7

\* A late CLOSED of a channel that is not wanted any more.
LEMMA UnwantedReaches ==
    ASSUME Reaching, BaseInv', Excused \subseteq Excused', wire # <<>>, wire' = Tail(wire), Head(wire).type = "closed",
           Head(wire).sub \in Channels \ bg.active, UNCHANGED <<log, enqueued, subs, sock, conn, todo, bg>>
    PROVE  LineInv'
<1>1. \A d \in Subs : SameStamps(bg, bg', d) /\ UptoIn(bg', d) = UptoIn(bg, d)
  BY DEF SameStamps
<1>2. \A d \in Subs : OnIn(bg, d) => Head(wire).sub # d
  BY ClientAssumption DEF OnIn
<1> QED
  BY <1>1, <1>2, TurnReaches

\* What a command may do to a subscription of a channel that was never left: ask
\* for it, or set the time stamp from which the notices are going to be asked for.
Started(d) ==
    /\ ~OnIn(bg, d) /\ OnIn(bg', d)
    /\ UptoIn(bg', d) = UptoIn(bg, d) /\ DropIn(bg', d) = DropIn(bg, d)

StillOff(d) ==
    /\ d = Membership /\ ~OnIn(bg, d) /\ ~OnIn(bg', d)
    /\ UptoIn(bg', d) <= 1 /\ DropIn(bg', d) = DropIn(bg, d)

LEMMA CommandEffect ==
    ASSUME Reaching, CommandStep
    PROVE  /\ \A d \in Subs : Stayed(d) =>
                \/ SameStamps(bg, bg', d) /\ ~AsksFor(Head(cmds), d)
                \/ Started(d) /\ AsksFor(Head(cmds), d) /\ (d # Membership => d \in member)
                \/ StillOff(d) /\ ~AsksFor(Head(cmds), d)
           /\ \A d \in Subs : UptoIn(bg', d) \in {UptoIn(bg, d), 0} \/ About(d) = {}
           /\ \A d \in Subs : Head(cmds).op = "unsubscribe" /\ Stayed(d) => Head(cmds).ch # d
<1>1. ReachInv /\ BaseInv /\ SettlingInv /\ LogOK /\ StampsOK /\ bg \in States /\ clock \in Nat \ {0}
  BY DEF Reaching, BaseInv, TaskOK, ReachInv, LogOK
<1>2. PICK cmd : cmd = Head(cmds)
  OBVIOUS
<1>3. PICK s : s = ApplyCommand(bg, cmd)
  OBVIOUS
<1>4. cmds # <<>> /\ cmd \in Commands /\ \A d \in Subs : SameStamps(s, bg', d)
  BY <1>1, <1>2, <1>3, CommandIntent
<1>5. 1 \in 1..Len(cmds) /\ cmds[1] = cmd
  BY <1>1, <1>2, <1>4, HeadTail DEF BaseInv, QueuesOK
<1>6. cmd.op = "watermark" => cmd.ts = 1 /\ bg.mLast = 0 /\ ~OnIn(bg, Membership) /\ About(Membership) = {}
  <2> SUFFICES ASSUME cmd.op = "watermark"
               PROVE  cmd.ts = 1 /\ bg.mLast = 0 /\ ~OnIn(bg, Membership) /\ About(Membership) = {}
    OBVIOUS
  <2>1. cmd.ts = 1 /\ bg.mLast = 0
    BY <1>1, <1>5 DEF StampsOK
  <2>2. Membership \in Subs /\ UptoIn(bg, Membership) = bg.mLast
    BY DEF Subs, UptoIn
  <2>3. ~OnIn(bg, Membership)
    BY <1>1, <2>1, <2>2 DEF StampsOK, StampOf
  <2> QED
    BY <1>1, <2>1, <2>2, <2>3, NoticesStay DEF ReachInv, Fine, Untouched
<1>7. ASSUME NEW d \in Subs, Stayed(d)
      PROVE  /\ \/ SameStamps(bg, bg', d) /\ ~AsksFor(cmd, d)
                \/ Started(d) /\ AsksFor(cmd, d) /\ (d # Membership => d \in member)
                \/ StillOff(d) /\ ~AsksFor(cmd, d)
             /\ cmd.op = "unsubscribe" => cmd.ch # d
  <2>1. AskedOnce(d) /\ SameStamps(s, bg', d)
    BY <1>1, <1>4, <1>7 DEF ReachInv
  <2>2. cmd.op = "unsubscribe" => cmd.ch # d
    BY <1>5, <2>1 DEF AskedOnce
  <2>3. CASE AsksFor(cmd, d)
    <3>1. OnIn(s, d) /\ UptoIn(s, d) = UptoIn(bg, d) /\ DropIn(s, d) = DropIn(bg, d)
      BY <1>1, <1>3, <1>4, <2>3, ApplyStamps
    <3>2. ~OnIn(bg, d) /\ (d # Membership => d \in subscribed)
      BY <1>5, <2>1, <2>3 DEF AskedOnce
    <3>3. d # Membership => d \in member
      BY <1>1, <1>7, <3>2, StayedMember DEF Subs
    <3> QED
      BY <2>1, <2>2, <2>3, <3>1, <3>2, <3>3 DEF Started, SameStamps
  <2>4. CASE cmd.op = "watermark" /\ d = Membership
    <3>1. /\ UptoIn(s, d) = OrElse(bg.mLast, cmd.ts) /\ (OnIn(s, d) <=> OnIn(bg, d))
          /\ DropIn(s, d) = DropIn(bg, d)
      BY <1>1, <1>3, <1>4, <2>4, ApplyStamps
    <3>2. UptoIn(s, d) = 1
      BY <1>6, <2>4, <3>1 DEF OrElse
    <3>3. ~AsksFor(cmd, d)
      BY <2>4 DEF AsksFor
    <3> QED
      BY <1>6, <2>1, <2>2, <2>4, <3>1, <3>2, <3>3 DEF StillOff, SameStamps
  <2>5. CASE ~AsksFor(cmd, d) /\ ~(cmd.op = "watermark" /\ d = Membership)
    <3>1. SameStamps(bg, s, d)
      BY <1>1, <1>3, <1>4, <2>2, <2>5, ApplyStamps
    <3> QED
      BY <2>1, <2>2, <2>5, <3>1 DEF SameStamps
  <2> QED
    BY <2>3, <2>4, <2>5
<1>8. ASSUME NEW d \in Subs PROVE UptoIn(bg', d) \in {UptoIn(bg, d), 0} \/ About(d) = {}
  <2>1. SameStamps(s, bg', d)
    BY <1>4
  <2>2. UptoIn(s, d) \in {UptoIn(bg, d), 0} \/ (cmd.op = "watermark" /\ d = Membership)
    BY <1>1, <1>3, <1>4, ApplyStamps DEF SameStamps
  <2> QED
    BY <1>6, <2>1, <2>2 DEF SameStamps
<1> QED
  BY <1>2, <1>7, <1>8

LEMMA FineOff ==
    ASSUME NEW d, Fine(d), ~OnIn(bg, d), ~OnIn(bg', d), d \in subs' => d \in subs,
           \A m \in About(d)' : m \in About(d), DropIn(bg', d) = DropIn(bg, d),
           SameStamps(bg, bg', d) \/ StillOff(d)
    PROVE  Fine(d)'
<1>1. (OnIn(bg, d)' <=> OnIn(bg', d)) /\ FromIn(bg, d)' = FromIn(bg', d)
      /\ UptoIn(bg, d)' = UptoIn(bg', d) /\ DropIn(bg, d)' = DropIn(bg', d)
  BY DEF OnIn, FromIn, UptoIn, DropIn
<1>2. About(d)' = {} /\ d \notin subs'
  BY DEF Fine, Untouched
<1>3. Untouched(d)'
  <2>1. CASE SameStamps(bg, bg', d)
    BY <1>1, <1>2, <2>1 DEF Fine, Untouched, SameStamps
  <2>2. CASE StillOff(d)
    BY <1>1, <1>2, <2>2 DEF Fine, Untouched, StillOff, FromIn
  <2> QED
    BY <2>1, <2>2
<1>4. NotDenied(d)' /\ DropDue(d)'
  BY <1>1, <1>2 DEF NotDenied, DropDue
<1>5. InReach(d)'
  <2>1. ASSUME NEW i, SubOf(i) = d PROVE ~Missing(i)'
    <3>1. OnIn(bg, SubOf(i))' <=> OnIn(bg, d)'
      BY <2>1 DEF OnIn, SubOf
    <3> QED
      BY <1>1, <3>1 DEF Missing
  <2> QED
    BY <2>1 DEF InReach, SubOf
<1> QED
  BY <1>3, <1>4, <1>5 DEF Fine

\* A subscription that is asked for and not live yet.
LEMMA FineStarted ==
    ASSUME NEW d \in Subs, LogOK, bg \in States, Fine(d), Started(d), d \notin subs', UNCHANGED log,
           \A m \in About(d)' : m.type = "closed" /\ m.why # "denied"
    PROVE  Fine(d)'
<1>1. (OnIn(bg, d)' <=> OnIn(bg', d)) /\ FromIn(bg, d)' = FromIn(bg', d)
      /\ UptoIn(bg, d)' = UptoIn(bg', d) /\ DropIn(bg, d)' = DropIn(bg', d)
  BY DEF OnIn, FromIn, UptoIn, DropIn
<1>2. OnIn(bg, d)' /\ DropIn(bg, d)' = 0 /\ UptoIn(bg, d)' <= 1 /\ UptoIn(bg, d) \in Nat
  BY <1>1, StampTyped DEF Fine, Untouched, Started
<1>3. NotDenied(d)' /\ Untouched(d)' /\ DropDue(d)'
  BY <1>2 DEF NotDenied, Untouched, DropDue
<1>4. InReach(d)'
  <2> SUFFICES ASSUME NEW i \in log, SubOf(i) = d
               PROVE  /\ UptoIn(bg, d)' <= Reach(i) /\ d \notin subs'
                      /\ \A j \in log : SubOf(j) = d => ~Awaited(j)'
    BY DEF InReach, SubOf
  <2>1. UptoIn(bg, d)' <= Reach(i)
    BY <1>1, <1>2, ReachTyped DEF Started
  <2>2. ASSUME NEW j \in log, SubOf(j) = d PROVE ~Awaited(j)'
    <3>1. About(SubOf(j))' = About(d)'
      BY <2>2 DEF About, SubOf
    <3> QED
      BY <3>1 DEF Awaited
  <2> QED
    BY <2>1, <2>2
<1> QED
  BY <1>3, <1>4 DEF Fine

\* What was on its way is lost with the connection: the next REQ asks for it, or
\* it was cut off.
LEMMA FineLost ==
    ASSUME Reaching, NEW d \in Subs, Fine(d), SameStamps(bg, bg', d), Excused \subseteq Excused',
           \A i \in Undelivered : OnItsWay(i) /\ ~AskedNext(i) => i.id \in Excused',
           wire' = <<>>, subs' = {}, conn' = "lost", UNCHANGED <<log, enqueued>>
    PROVE  Fine(d)'
<1>1. ReachInv /\ LogOK /\ LineOK /\ enqueued \in [Ids -> Nat]
  BY DEF Reaching, BaseInv, HarnessOK
<1>2. /\ (OnIn(bg, d)' <=> OnIn(bg, d)) /\ FromIn(bg, d)' = FromIn(bg, d)
      /\ UptoIn(bg, d)' = UptoIn(bg, d) /\ DropIn(bg, d)' = DropIn(bg, d)
  BY DEF SameStamps, OnIn, FromIn, UptoIn, DropIn
<1>3. \A e : About(e)' = {}
  BY DEF About, Sent
<1>4. NotDenied(d)' /\ Untouched(d)' /\ DropDue(d)'
  BY <1>2, <1>3 DEF Fine, NotDenied, Untouched, DropDue, ResubscribeDue
<1>5. ASSUME NEW i \in log, SubOf(i) = d, Missing(i)'
      PROVE  DropIn(bg, d) \in 1..Reach(i) \/ UptoIn(bg, d) <= Reach(i)
  <2>1. (OnIn(bg, SubOf(i))' <=> OnIn(bg, d)') /\ FromIn(bg, SubOf(i))' = FromIn(bg, d)'
    BY <1>5 DEF OnIn, FromIn, SubOf
  <2>2. enqueued[i.id] = 0 /\ OnIn(bg, d) /\ i.ts >= FromIn(bg, d)
    BY <1>2, <1>5, <2>1 DEF Missing
  <2>3. CASE ~Awaited(i)
    <3>1. Missing(i)
      BY <1>5, <2>2, <2>3 DEF Missing
    <3> QED
      BY <1>5, <3>1 DEF Fine, InReach
  <2>4. CASE Awaited(i)
    <3>1. OnItsWay(i) /\ i \in Undelivered
      BY <1>1, <2>2, <2>4, OnWayAwaited DEF Undelivered
    <3>2. i.id \notin Excused'
      BY <1>5 DEF Missing
    <3> QED
      BY <1>5, <2>2, <3>1, <3>2, NextReaches
  <2> QED
    BY <2>3, <2>4
<1>6. InReach(d)'
  <2> SUFFICES ASSUME NEW i \in log, SubOf(i) = d, Missing(i)'
               PROVE  \/ DropIn(bg, d)' \in 1..Reach(i)
                      \/ /\ UptoIn(bg, d)' <= Reach(i) /\ d \notin subs'
                         /\ \A j \in log : SubOf(j) = d => ~Awaited(j)'
    BY DEF InReach, SubOf
  <2>1. \A j \in log : ~Awaited(j)'
    BY <1>3 DEF Awaited
  <2> QED
    BY <1>2, <1>5, <2>1
<1> QED
  BY <1>4, <1>6 DEF Fine

LEMMA GiveUpReaches ==
    ASSUME Reaching, BaseInv', Excused \subseteq Excused', GiveUp, UNCHANGED <<log, enqueued>>,
           \A d \in Subs : Stayed(d) => SameStamps(bg, bg', d) \/ Started(d) \/ StillOff(d)
    PROVE  LineInv'
<1>1. ReachInv /\ LogOK /\ LineOK /\ bg \in States
  BY DEF Reaching, BaseInv, TaskOK
<1>2. /\ wire' = <<>> /\ subs' = {} /\ conn' = "lost"
      /\ \A i \in Undelivered : OnItsWay(i) /\ ~AskedNext(i) => i.id \in Excused'
  <2>1. CutOK /\ cut' = [cut EXCEPT !.ended = @ \cup
                           {i.id : i \in {j \in Undelivered : OnItsWay(j) /\ ~AskedNext(j)}}]
    BY DEF GiveUp, Reaching
  <2>2. Excused' = cut'.ended \cup cut'.refused
    BY DEF Excused
  <2>3. cut'.ended = cut.ended \cup {i.id : i \in {j \in Undelivered : OnItsWay(j) /\ ~AskedNext(j)}}
    BY <2>1 DEF CutOK
  <2> QED
    BY <2>2, <2>3 DEF GiveUp
<1>3. InOrder(wire)' /\ Ahead'
  BY <1>2 DEF InOrder, Ahead, Sent
<1>4. ASSUME NEW d \in Subs, Stayed(d)' PROVE Fine(d)'
  <2>1. Fine(d) /\ (SameStamps(bg, bg', d) \/ Started(d) \/ StillOff(d))
    BY <1>1, <1>4 DEF Stayed, ReachInv
  <2>2. About(d)' = {}
    BY <1>2 DEF About, Sent
  <2>3. CASE SameStamps(bg, bg', d)
    BY <1>2, <2>1, <2>3, FineLost
  <2>4. CASE Started(d)
    BY <1>1, <1>2, <2>1, <2>2, <2>4, FineStarted
  <2>5. CASE StillOff(d)
    BY <1>2, <2>1, <2>2, <2>5, FineOff DEF StillOff
  <2> QED
    BY <2>1, <2>3, <2>4, <2>5
<1> QED
  BY <1>3, <1>4 DEF LineInv

LEMMA LosingReaches ==
    ASSUME Reaching, BaseInv', Excused \subseteq Excused',
           \/ DetectLoss \/ ResubscribeMembershipFails \/ ReadClosedFails
           \/ UpCommandFails \/ DrainCommandFails \/ (UpCommand /\ Head(cmds).op = "reconnect")
    PROVE  LineInv'
<1>1. GiveUp /\ UNCHANGED <<log, enqueued>>
  BY DEF DetectLoss, ResubscribeMembershipFails, ReadClosedFails, UpCommandFails, DrainCommandFails,
         UpCommand, relay
<1>2. CASE UNCHANGED bg
  BY <1>1, <1>2, GiveUpReaches DEF SameStamps
<1>3. CASE CommandStep
  BY <1>1, <1>3, CommandEffect, GiveUpReaches
<1> QED
  BY <1>2, <1>3 DEF DetectLoss, ResubscribeMembershipFails, ReadClosedFails, CommandStep

\* A command that only leaves its intent, or whose REQ is parked.
LEMMA IntentReaches ==
    ASSUME Reaching, BaseInv', Excused \subseteq Excused', CommandStep, UNCHANGED <<log, enqueued, wire>>, subs' \subseteq subs,
           \A d \in Subs : Stayed(d) /\ SameStamps(bg, bg', d) /\ ResubscribeDue(d) => ResubscribeDue(d)'
    PROVE  LineInv'
<1>1. ReachInv /\ LogOK /\ LineOK /\ bg \in States
  BY DEF Reaching, BaseInv, TaskOK
<1>2. InOrder(wire)'
  BY <1>1 DEF ReachInv, InOrder, Live
<1>3. Ahead'
  BY <1>1, CommandEffect, AheadKept DEF ReachInv
<1>4. ASSUME NEW d \in Subs, Stayed(d)' PROVE Fine(d)'
  <2>1. Stayed(d) /\ Fine(d) /\ (SameStamps(bg, bg', d) \/ Started(d) \/ StillOff(d))
    BY <1>1, <1>4, CommandEffect DEF Stayed, ReachInv
  <2>2. About(d)' = About(d)
    BY DEF About, Sent
  <2>3. CASE SameStamps(bg, bg', d)
    <3>1. DropDue(d)'
      BY <2>1, <2>3, DropDueKept
    <3> QED
      BY <2>1, <2>2, <2>3, <3>1, FineKept
  <2>4. CASE Started(d)
    <3>1. About(d) = {} /\ d \notin subs'
      BY <2>1, <2>4 DEF Fine, Untouched, Started
    <3> QED
      BY <1>1, <2>1, <2>2, <2>4, <3>1, FineStarted
  <2>5. CASE StillOff(d)
    BY <2>1, <2>2, <2>5, FineOff DEF StillOff
  <2> QED
    BY <2>1, <2>3, <2>4, <2>5
<1> QED
  BY <1>2, <1>3, <1>4 DEF LineInv

-----------------------------------------------------------------------------
\* What a REQ is written after: the wire, or the wire without the CLOSED that
\* made the task write it.
Rest(rest, sub) ==
    \/ rest = wire
    \/ wire # <<>> /\ rest = Tail(wire) /\ Head(wire).type = "closed" /\ Head(wire).sub = sub

\* What becomes of it: the stored items are sent, or at most a CLOSED that asks to
\* slow down.  No other subscription is touched.
Replayed(rest, sub, since) ==
    Sent(wire') = Sent(rest) \cup {Pushed(i, TRUE) : i \in Matching(sub, since)}

Quiet(rest, sub) ==
    /\ subs' = subs /\ Sent(rest) \subseteq Sent(wire')
    /\ Sent(wire') \subseteq Sent(rest) \cup {Closed(sub, "rate-limited")}

Wrote(rest, sub) ==
    /\ subs' \subseteq subs \cup {sub} /\ InOrder(wire)'
    /\ \A m \in Sent(wire') : Live(m) => m \in Sent(wire)
    /\ \A d : d # sub => About(d)' = About(d)
    /\ \A m \in About(sub) : m.type = "item" => m \in About(sub)'

LEMMA RestParts ==
    ASSUME LineOK, InOrder(wire), NEW sub, NEW rest, Rest(rest, sub)
    PROVE  /\ rest \in Seq(Messages) /\ InOrder(rest) /\ Sent(rest) \subseteq Sent(wire)
           /\ \A m \in Sent(wire) : m \in Sent(rest) \/ (m.type = "closed" /\ m.sub = sub)
<1>1. CASE rest = wire
  BY <1>1 DEF LineOK
<1>2. CASE wire # <<>> /\ rest = Tail(wire) /\ Head(wire).type = "closed" /\ Head(wire).sub = sub
  <2>1. Tail(wire) \in Seq(Messages) /\ Sent(wire) = {Head(wire)} \cup Sent(Tail(wire)) /\ InOrder(Tail(wire))
    BY <1>2, HeadTail, SentParts, OrderedParts DEF LineOK
  <2> QED
    BY <1>2, <2>1
<1> QED
  BY <1>1, <1>2 DEF Rest

\* The parts of a write: messages of sub are sent, none of them live.
LEMMA WroteParts ==
    ASSUME LineOK, InOrder(wire), NEW sub, NEW rest, Rest(rest, sub), InOrder(wire'),
           NEW M, Sent(wire') = Sent(rest) \cup M, \A m \in M : ~Live(m) /\ m.type # "notice" /\ m.sub = sub,
           subs' \subseteq subs \cup {sub}
    PROVE  Wrote(rest, sub)
<1>1. /\ Sent(rest) \subseteq Sent(wire)
      /\ \A m \in Sent(wire) : m \in Sent(rest) \/ (m.type = "closed" /\ m.sub = sub)
  BY RestParts
<1>2. \A d : About(d)' = {m \in Sent(wire') : m.type # "notice" /\ m.sub = d}
  BY DEF About, Sent
<1>3. InOrder(wire)'
  BY DEF InOrder, Live
<1>4. \A m \in Sent(wire') : Live(m) => m \in Sent(wire)
  BY <1>1
<1>5. ASSUME NEW d, d # sub PROVE About(d)' = About(d)
  BY <1>1, <1>2, <1>5 DEF About
<1>6. \A m \in About(sub) : m.type = "item" => m \in About(sub)'
  BY <1>1, <1>2 DEF About
<1> QED
  BY <1>3, <1>4, <1>5, <1>6 DEF Wrote

LEMMA ReplayWrote ==
    ASSUME LogOK, LineOK, InOrder(wire), NEW sub, NEW rest, Rest(rest, sub), NEW since,
           wire' = rest \o Replay(sub, since), subs' \subseteq subs \cup {sub}
    PROVE  Wrote(rest, sub) /\ Replayed(rest, sub, since)
<1>1. rest \in Seq(Messages) /\ InOrder(rest)
  BY RestParts
<1>2. PICK r : r = Replay(sub, since)
  OBVIOUS
<1>3. r \in Seq(Messages) /\ Sent(r) = {Pushed(i, TRUE) : i \in Matching(sub, since)}
  BY <1>2, ReplayTypes, SentReplay
<1>4. Sent(wire') = Sent(rest) \cup Sent(r)
  <2>0. r \in Seq(Messages)
    BY <1>3
  <2>1. Sent(rest \o r) = Sent(rest) \cup Sent(r)
    BY <1>1, <2>0, SentParts
  <2> QED
    BY <1>2, <2>1
<1>5. \A m \in Sent(r) : ~Live(m) /\ m.type # "notice" /\ m.sub = sub
  BY <1>3 DEF Pushed, Live, Matching
<1>6. InOrder(wire')
  BY <1>1, <1>2, <1>3, <1>5, OrderedParts
<1> QED
  BY <1>3, <1>4, <1>5, <1>6, WroteParts DEF Replayed

LEMMA ClosedWrote ==
    ASSUME LogOK, LineOK, InOrder(wire), NEW sub \in Subs, NEW rest, Rest(rest, sub),
           NEW why \in {"denied", "rate-limited"}, why = "denied" => sub \in Channels,
           wire' = Append(rest, Closed(sub, why)), subs' = subs
    PROVE  Wrote(rest, sub) /\ (why = "rate-limited" => Quiet(rest, sub))
<1>1. rest \in Seq(Messages) /\ InOrder(rest)
  BY RestParts
<1>2. PICK m : m = Closed(sub, why)
  OBVIOUS
<1>3. m \in Messages /\ m.type = "closed" /\ m.sub = sub
  BY <1>2, MessageKinds DEF Closed
<1>4. Sent(wire') = Sent(rest) \cup {m}
  BY <1>1, <1>2, <1>3, SentParts
<1>5. ~Live(m)
  BY <1>3 DEF Live
<1>6. InOrder(wire')
  BY <1>1, <1>2, <1>3, <1>5, OrderedParts
<1>7. Wrote(rest, sub)
  <2>1. PICK M : M = {m}
    OBVIOUS
  <2>2. Sent(wire') = Sent(rest) \cup M /\ \A x \in M : ~Live(x) /\ x.type # "notice" /\ x.sub = sub
    BY <1>3, <1>4, <1>5, <2>1
  <2> QED
    BY <1>6, <2>2, WroteParts
<1> QED
  BY <1>2, <1>4, <1>7 DEF Quiet

LEMMA SendForms ==
    ASSUME LogOK, LineOK, CutOK, InOrder(wire), NEW sub \in Subs, NEW rest, Rest(rest, sub), NEW ts,
           SendOk(rest, sub, ts)
    PROVE  /\ Wrote(rest, sub)
           /\ \/ Replayed(rest, sub, SinceTs(ts))
              \/ sub \notin member \cup {Membership}
              \/ Quiet(rest, sub) /\ Marked(sub) \subseteq Excused'
<1>1. CASE subs' = subs \cup {sub} /\ wire' = rest \o Replay(sub, SinceTs(ts))
  BY <1>1, ReplayWrote
<1>2. CASE sub \notin member \cup {Membership} /\ wire' = Append(rest, Closed(sub, "denied")) /\ subs' = subs
  BY <1>2, ClosedWrote DEF Subs
<1>3. ASSUME cut' = [cut EXCEPT !.refused = @ \cup Marked(sub)]
             \/ cut' = [cut EXCEPT !.ended = @ \cup Marked(sub)]
      PROVE  Marked(sub) \subseteq Excused'
  <2>1. Excused' = cut'.ended \cup cut'.refused
    BY DEF Excused
  <2> QED
    BY <1>3, <2>1 DEF CutOK
<1>4. CASE /\ wire' = Append(rest, Closed(sub, "rate-limited")) /\ subs' = subs
           /\ cut' = [cut EXCEPT !.refused = @ \cup Marked(sub)]
  BY <1>3, <1>4, ClosedWrote
<1>5. CASE wire' = rest /\ subs' = subs /\ cut' = [cut EXCEPT !.ended = @ \cup Marked(sub)]
  <2>0. PICK M : M = {}
    OBVIOUS
  <2>1. Sent(wire') = Sent(rest) \cup M /\ InOrder(wire')
    BY <1>5, <2>0, RestParts
  <2>2. Wrote(rest, sub)
    <3>1. \A m \in M : ~Live(m) /\ m.type # "notice" /\ m.sub = sub
      BY <2>0
    <3>2. subs' \subseteq subs \cup {sub}
      BY <1>5
    <3> QED
      BY <2>1, <3>1, <3>2, WroteParts
  <2>3. Quiet(rest, sub)
    BY <1>5 DEF Quiet
  <2> QED
    BY <1>3, <1>5, <2>2, <2>3
<1> QED
  BY <1>1, <1>2, <1>4, <1>5 DEF SendOk, Answer

LEMMA FailForms ==
    ASSUME LogOK, LineOK, InOrder(wire), NEW sub \in Subs, NEW place, NEW ts, SendFails(place, sub, ts)
    PROVE  /\ Wrote(wire, sub)
           /\ Replayed(wire, sub, SinceTs(ts)) \/ Quiet(wire, sub)
<1>0. Rest(wire, sub)
  BY DEF Rest
<1>1. CASE subs' = subs \cup {sub} /\ wire' = wire \o Replay(sub, SinceTs(ts))
  BY <1>0, <1>1, ReplayWrote
<1>2. CASE UNCHANGED <<subs, wire>>
  <2>0. PICK M : M = {}
    OBVIOUS
  <2>1. Sent(wire') = Sent(wire) \cup M /\ InOrder(wire')
    BY <1>2, <2>0
  <2>2. Wrote(wire, sub)
    <3>1. \A m \in M : ~Live(m) /\ m.type # "notice" /\ m.sub = sub
      BY <2>0
    <3>2. subs' \subseteq subs \cup {sub}
      BY <1>2
    <3> QED
      BY <1>0, <2>1, <3>1, <3>2, WroteParts
  <2> QED
    BY <1>2, <2>1, <2>2 DEF Quiet
<1> QED
  BY <1>1, <1>2 DEF SendFails

\* The next REQ of a subscription asks for everything of it that is missing.
LEMMA SinceReaches ==
    ASSUME Reaching, NEW d \in Subs, InReach(d), NEW i \in log, SubOf(i) = d, Missing(i)
    PROVE  i.ts >= SinceTs(SinceIn(bg, d))
<1>1. ReachInv /\ LogOK /\ bg \in States /\ Skew \in Nat /\ StampOf(bg, d)
  BY ClientAssumption DEF Reaching, BaseInv, TaskOK, ReachInv, StampsOK
<1>2. PICK u \in Nat, x \in Nat, f \in Nat, w \in Nat :
        u = UptoIn(bg, d) /\ x = DropIn(bg, d) /\ f = FromIn(bg, d) /\ w = bg.watermark
  <2>1. UptoIn(bg, d) \in Nat /\ DropIn(bg, d) \in Nat /\ FromIn(bg, d) \in Nat
    BY <1>1, StampTyped
  <2>2. bg.watermark \in Nat
    BY <1>1 DEF States
  <2> QED
    BY <2>1, <2>2
<1>3. OnIn(bg, d) /\ i.ts >= f /\ i.ts \in Nat /\ (x \in 1..(i.ts + Skew) \/ u <= i.ts + Skew)
  BY <1>1, <1>2, ReachTyped DEF Missing, InReach
<1>4. /\ d = Membership => u # 0 /\ SinceIn(bg, d) = OrElse(Earliest(x, u), w)
      /\ d # Membership => /\ f # 0 /\ (x # 0 => u # 0)
                           /\ SinceIn(bg, d) = OrElse(Earliest(u, x), OrElse(f, w))
  BY <1>1, <1>2, <1>3 DEF StampOf, SinceIn, MembershipSince, ChannelSince, UptoIn, DropIn, FromIn
<1>5. PICK n : n = SinceIn(bg, d)
  OBVIOUS
<1>6. n \in Nat /\ n # 0 /\ n <= i.ts + Skew
  BY <1>1, <1>3, <1>4, <1>5 DEF OrElse, Earliest
<1>7. SinceTs(n) <= i.ts
  BY <1>1, <1>3, <1>6 DEF SinceTs
<1>8. SinceTs(n) \in Nat
  BY <1>1, <1>6 DEF SinceTs
<1> QED
  BY <1>3, <1>5, <1>7, <1>8

\* After a replay of whatever could be missing nothing is.
LEMMA FineReplayed ==
    ASSUME NEW d, NotDenied(d), OnIn(bg', d), DropDue(d)', UNCHANGED <<log, enqueued>>,
           NEW rest, NEW since, Replayed(rest, d, since), Sent(rest) \subseteq Sent(wire),
           \A m \in About(d) : m.type = "item" => m \in About(d)',
           Excused \subseteq Excused',
           \A i \in log : /\ SubOf(i) = d /\ i.ts >= FromIn(bg', d)
                         /\ enqueued[i.id] = 0 /\ ~Awaited(i) /\ i.id \notin Excused => i.ts >= since
    PROVE  Fine(d)'
<1>1. (OnIn(bg, d)' <=> OnIn(bg', d)) /\ FromIn(bg, d)' = FromIn(bg', d)
  BY DEF OnIn, FromIn
<1>2. About(d)' = {m \in Sent(wire') : m.type # "notice" /\ m.sub = d}
  BY DEF About, Sent
<1>3. NotDenied(d)'
  <2> SUFFICES ASSUME NEW m \in About(d)', m.type = "closed" PROVE m.why # "denied"
    BY DEF NotDenied
  <2>1. \A i : Pushed(i, TRUE).type = "item"
    BY DEF Pushed
  <2>2. m \in Sent(wire)
    BY <1>2, <2>1 DEF Replayed
  <2>3. m \in About(d)
    BY <1>2, <2>2 DEF About
  <2> QED
    BY <2>3 DEF NotDenied
<1>4. Untouched(d)'
  BY <1>1 DEF Untouched
<1>5. ASSUME NEW i \in log, SubOf(i) = d, Missing(i)' PROVE FALSE
  <2>1. /\ (OnIn(bg, SubOf(i))' <=> OnIn(bg, d)') /\ FromIn(bg, SubOf(i))' = FromIn(bg, d)'
        /\ About(SubOf(i))' = About(d)' /\ About(SubOf(i)) = About(d)
    BY <1>5 DEF OnIn, FromIn, SubOf, About
  <2>2. i.ts >= FromIn(bg', d) /\ enqueued[i.id] = 0 /\ ~Awaited(i)' /\ i.id \notin Excused
    BY <1>1, <1>5, <2>1 DEF Missing
  <2>3. ~Awaited(i)
    BY <2>1, <2>2 DEF Awaited
  <2>4. i \in Matching(d, since)
    BY <1>5, <2>2, <2>3 DEF Matching
  <2>5. Pushed(i, TRUE) \in Sent(wire') /\ Pushed(i, TRUE).type = "item" /\ Pushed(i, TRUE).sub = d
        /\ Pushed(i, TRUE).item = i
    BY <1>5, <2>4 DEF Replayed, Pushed
  <2>6. Pushed(i, TRUE) \in About(d)'
    BY <1>2, <2>5
  <2> QED
    BY <2>1, <2>2, <2>5, <2>6 DEF Awaited
<1>6. InReach(d)'
  BY <1>5 DEF InReach, SubOf
<1> QED
  BY <1>3, <1>4, <1>6 DEF Fine

\* After a REQ that the mark made necessary came to nothing, all that is missing is
\* what was cut off.
LEMMA FineMarked ==
    ASSUME Reaching, NEW d \in Subs, Fine(d), OnIn(bg, d), OnIn(bg', d), FromIn(bg', d) = FromIn(bg, d),
           DropDue(d)', UNCHANGED <<log, enqueued>>, DropIn(bg, d) # 0,
           Excused \subseteq Excused', Marked(d) \subseteq Excused',
           \A m \in About(d)' : m \in About(d) \/ (m.type = "closed" /\ m.why # "denied"),
           \A m \in About(d) : m.type = "item" => m \in About(d)'
    PROVE  Fine(d)'
<1>1. (OnIn(bg, d)' <=> OnIn(bg', d)) /\ FromIn(bg, d)' = FromIn(bg', d)
  BY DEF OnIn, FromIn
<1>2. LogOK /\ LineOK
  BY DEF Reaching, BaseInv
<1>3. NotDenied(d)' /\ Untouched(d)'
  BY <1>1 DEF Fine, NotDenied, Untouched
<1>4. ASSUME NEW i \in log, SubOf(i) = d, Missing(i)' PROVE FALSE
  <2>1. /\ (OnIn(bg, SubOf(i))' <=> OnIn(bg, d)') /\ FromIn(bg, SubOf(i))' = FromIn(bg, d)'
        /\ About(SubOf(i))' = About(d)' /\ About(SubOf(i)) = About(d)
    BY <1>4 DEF OnIn, FromIn, SubOf, About
  <2>2. /\ i.ts >= FromIn(bg, d) /\ enqueued[i.id] = 0 /\ ~Awaited(i)'
        /\ i.id \notin Excused' /\ i.id \notin Excused
    BY <1>1, <1>4, <2>1 DEF Missing
  <2>3. ~Awaited(i)
    BY <2>1, <2>2 DEF Awaited
  <2>4. Missing(i)
    BY <1>4, <2>2, <2>3 DEF Missing
  <2>5. AskedNext(i)
    <3>1. i.ts >= SinceTs(SinceIn(bg, d))
      BY <1>4, <2>4, SinceReaches DEF Fine
    <3> QED
      BY <1>4, <3>1 DEF AskedNext, NextSince, SinceIn
  <2>6. ~OnItsWay(i) /\ i \in Undelivered
    BY <1>2, <2>2, <2>3, OnWayAwaited DEF Undelivered
  <2>7. DroppedSince(d) # 0
    BY DEF DroppedSince, DropIn
  <2>8. i.id \in Marked(d)
    BY <1>4, <2>5, <2>6, <2>7 DEF Marked
  <2> QED
    BY <2>2, <2>8
<1>5. InReach(d)'
  BY <1>4 DEF InReach, SubOf
<1> QED
  BY <1>3, <1>5 DEF Fine

\* A subscription is asked for again.
LEMMA ResentReaches ==
    ASSUME Reaching, BaseInv', Excused \subseteq Excused', NEW sub \in Subs, OnIn(bg, sub), NEW rest, Rest(rest, sub),
           Wrote(rest, sub), UNCHANGED <<log, enqueued>>,
           OnIn(bg', sub), FromIn(bg', sub) = FromIn(bg, sub), UptoIn(bg', sub) = UptoIn(bg, sub),
           DropDue(sub)',
           Stayed(sub) => \/ Replayed(rest, sub, SinceTs(SinceIn(bg, sub)))
                          \/ Quiet(rest, sub) /\ DropIn(bg', sub) = DropIn(bg, sub)
                          \/ Quiet(rest, sub) /\ Marked(sub) \subseteq Excused' /\ DropIn(bg, sub) # 0,
           \A d \in Subs \ {sub} : SameStamps(bg, bg', d),
           \A d \in Subs \ {sub} : OnWire(d, "closed") = OnWire(d, "closed")' /\ ResubscribeDue(d) => ResubscribeDue(d)'
    PROVE  LineInv'
<1>1. ReachInv /\ LogOK /\ LineOK /\ LineOK' /\ InOrder(wire) /\ Ahead
  BY DEF Reaching, BaseInv, ReachInv
<1>2. InOrder(wire)'
  BY DEF Wrote
<1>3. Ahead'
  <2>1. \A d \in Subs : UptoIn(bg', d) \in {UptoIn(bg, d), 0} \/ About(d) = {}
    BY DEF SameStamps
  <2> QED
    BY <1>1, <2>1, AheadKept DEF Wrote
<1>4. ASSUME NEW d \in Subs, Stayed(d)' PROVE Fine(d)'
  <2>1. Stayed(d) /\ Fine(d)
    BY <1>1, <1>4 DEF Stayed, ReachInv
  <2>2. CASE d # sub
    <3>1. About(d)' = About(d) /\ (d \in subs' => d \in subs)
      BY <2>2 DEF Wrote
    <3>2. OnWire(d, "closed") <=> OnWire(d, "closed")'
      BY <1>1, <3>1, ClosedAbout
    <3>3. OnWire(d, "closed") = OnWire(d, "closed")'
      BY <3>2 DEF OnWire
    <3>4. DropDue(d)'
      BY <2>1, <2>2, <3>3, DropDueKept
    <3> QED
      BY <2>1, <2>2, <3>1, <3>4, FineKept
  <2>3. CASE d = sub /\ Replayed(rest, sub, SinceTs(SinceIn(bg, sub)))
    <3>1. Sent(rest) \subseteq Sent(wire)
      BY <1>1, RestParts
    <3>2. \A i \in log : /\ SubOf(i) = d /\ i.ts >= FromIn(bg', d)
                        /\ enqueued[i.id] = 0 /\ ~Awaited(i) /\ i.id \notin Excused => Missing(i)
      BY <2>3 DEF Missing
    <3>3. \A i \in log : SubOf(i) = d /\ Missing(i) => i.ts >= SinceTs(SinceIn(bg, d))
      BY <2>1, SinceReaches DEF Fine
    <3>4. \A m \in About(d) : m.type = "item" => m \in About(d)'
      BY <2>3 DEF Wrote
    <3>5. NotDenied(d)
      BY <2>1 DEF Fine
    <3> QED
      BY <2>3, <3>1, <3>2, <3>3, <3>4, <3>5, FineReplayed
  <2>4. CASE d = sub /\ Quiet(rest, sub)
    <3>1. Sent(rest) \subseteq Sent(wire)
      BY <1>1, RestParts
    <3>2. Closed(sub, "rate-limited").type = "closed" /\ Closed(sub, "rate-limited").why = "rate-limited"
      BY DEF Closed
    <3>3. \A m \in About(d)' : m \in About(d) \/ m = Closed(sub, "rate-limited")
      <4>1. About(d)' = {m \in Sent(wire') : m.type # "notice" /\ m.sub = d}
        BY DEF About, Sent
      <4> QED
        BY <2>4, <3>1, <4>1 DEF About, Quiet
    <3>4. \A m \in About(d) : m.type = "item" => m \in About(d)'
      BY <2>4 DEF Wrote
    <3>5. d \in subs' => d \in subs
      BY <2>4 DEF Quiet
    <3>6. CASE DropIn(bg', sub) = DropIn(bg, sub)
      <4>1. SameStamps(bg, bg', d)
        BY <2>4, <3>6 DEF SameStamps
      <4> QED
        BY <2>1, <2>4, <3>2, <3>3, <3>4, <3>5, <4>1, FineKept
    <3>7. CASE Marked(sub) \subseteq Excused' /\ DropIn(bg, sub) # 0
      BY <2>1, <2>4, <3>2, <3>3, <3>4, <3>7, FineMarked
    <3>8. CASE Replayed(rest, sub, SinceTs(SinceIn(bg, sub)))
      BY <2>3, <2>4, <3>8
    <3> QED
      BY <2>1, <2>4, <3>6, <3>7, <3>8
  <2> QED
    BY <2>1, <2>2, <2>3, <2>4
<1> QED
  BY <1>2, <1>3, <1>4 DEF LineInv

LEMMA OnMember ==
    ASSUME Reaching, NEW d \in Subs, Stayed(d), OnIn(bg, d)
    PROVE  d \in member \cup {Membership}
<1>1. d # Membership => d \in subscribed /\ d \in Channels
  BY DEF Reaching, ReachInv, AskedOnce, Subs
<1> QED
  BY <1>1, StayedMember DEF Reaching

LEMMA SendReaches ==
    ASSUME Reaching, BaseInv', Excused \subseteq Excused', NEW sub \in Subs, OnIn(bg, sub), NEW rest, Rest(rest, sub),
           UNCHANGED <<log, enqueued>>,
           OnIn(bg', sub), FromIn(bg', sub) = FromIn(bg, sub), UptoIn(bg', sub) = UptoIn(bg, sub),
           \/ SendOk(rest, sub, SinceIn(bg, sub)) /\ DropIn(bg', sub) = 0
           \/ /\ rest = wire /\ \E place : SendFails(place, sub, SinceIn(bg, sub))
              /\ DropIn(bg', sub) = DropIn(bg, sub) /\ ResubscribeDue(sub)',
           \A d \in Subs \ {sub} : SameStamps(bg, bg', d),
           \A d \in Subs \ {sub} : OnWire(d, "closed") = OnWire(d, "closed")' /\ ResubscribeDue(d) => ResubscribeDue(d)'
    PROVE  LineInv'
<1>1. LogOK /\ LineOK /\ CutOK /\ InOrder(wire) /\ bg \in States
  BY DEF Reaching, BaseInv, TaskOK, ReachInv
<1>2. DropIn(bg, sub)' = DropIn(bg', sub)
  BY DEF DropIn
<1>3. CASE SendOk(rest, sub, SinceIn(bg, sub)) /\ DropIn(bg', sub) = 0
  <2>1. /\ Wrote(rest, sub)
        /\ \/ Replayed(rest, sub, SinceTs(SinceIn(bg, sub)))
           \/ sub \notin member \cup {Membership}
           \/ Quiet(rest, sub) /\ Marked(sub) \subseteq Excused'
    BY <1>1, <1>3, SendForms
  <2>2. DropDue(sub)'
    BY <1>2, <1>3 DEF DropDue
  <2>3. Stayed(sub) => \/ Replayed(rest, sub, SinceTs(SinceIn(bg, sub)))
                       \/ Quiet(rest, sub) /\ DropIn(bg', sub) = DropIn(bg, sub)
                       \/ Quiet(rest, sub) /\ Marked(sub) \subseteq Excused' /\ DropIn(bg, sub) # 0
    BY <1>3, <2>1, OnMember
  <2> QED
    BY <2>1, <2>2, <2>3, ResentReaches
<1>4. CASE /\ rest = wire /\ \E place : SendFails(place, sub, SinceIn(bg, sub))
           /\ DropIn(bg', sub) = DropIn(bg, sub) /\ ResubscribeDue(sub)'
  <2>1. Wrote(rest, sub) /\ (Replayed(rest, sub, SinceTs(SinceIn(bg, sub))) \/ Quiet(rest, sub))
    BY <1>1, <1>4, FailForms
  <2>2. DropDue(sub)'
    BY <1>4 DEF DropDue
  <2> QED
    BY <1>4, <2>1, <2>2, ResentReaches
<1> QED
  BY <1>3, <1>4

\* The same for a channel, in terms of the task's state.
LEMMA ChannelSendReaches ==
    ASSUME Reaching, BaseInv', Excused \subseteq Excused', NEW c \in Channels, c \in bg.active, NEW rest, Rest(rest, c),
           UNCHANGED <<log, enqueued, conn, sock>>, todo \ {c} \subseteq todo',
           bg'.active = bg.active, bg'.lastSeen = bg.lastSeen, bg'.subSince = bg.subSince,
           bg'.mActive = bg.mActive, bg'.mLast = bg.mLast, bg'.mDropped = bg.mDropped,
           bg'.proactive = bg.proactive, bg'.mResub = bg.mResub,
           (bg.pending \cup bg.retry) \ {c} \subseteq bg'.pending \cup bg'.retry,
           \A d \in Channels \ {c} : bg'.dropped[d] = bg.dropped[d],
           \/ SendOk(rest, c, ChannelSince(bg, c)) /\ bg'.dropped[c] = 0
           \/ /\ rest = wire /\ \E place : SendFails(place, c, ChannelSince(bg, c))
              /\ bg'.dropped[c] = bg.dropped[c] /\ c \in bg'.pending \cup bg'.retry
    PROVE  LineInv'
<1>1. c # Membership /\ c \in Subs
  BY ClientAssumption DEF Subs
<1>2. /\ SinceIn(bg, c) = ChannelSince(bg, c) /\ OnIn(bg, c) /\ OnIn(bg', c)
      /\ FromIn(bg', c) = FromIn(bg, c) /\ UptoIn(bg', c) = UptoIn(bg, c)
      /\ DropIn(bg', c) = bg'.dropped[c] /\ DropIn(bg, c) = bg.dropped[c]
  BY <1>1 DEF SinceIn, OnIn, FromIn, UptoIn, DropIn
<1>3. c \in bg'.pending \cup bg'.retry => ResubscribeDue(c)'
  BY DEF ResubscribeDue
<1>4. \A d \in Subs \ {c} : SameStamps(bg, bg', d)
  BY DEF SameStamps, OnIn, FromIn, UptoIn, DropIn, Subs
<1>5. ASSUME NEW d \in Subs \ {c}, OnWire(d, "closed") = OnWire(d, "closed")', ResubscribeDue(d)
      PROVE  ResubscribeDue(d)'
  BY <1>5, DueKept
<1> QED
  BY <1>1, <1>2, <1>3, <1>4, <1>5, SendReaches

LEMMA ChannelReaches ==
    ASSUME Reaching, BaseInv', Excused \subseteq Excused', NEW c \in Channels,
           ResubscribeChannel(c) \/ DrainPending(c) \/ DrainRetry(c)
    PROVE  LineInv'
<1>1. bg \in States /\ WantedOnly /\ LineOK'
  BY DEF Reaching, BaseInv, TaskOK
<1>2. UNCHANGED <<log, enqueued, conn, sock>> /\ todo \ {c} \subseteq todo'
  BY DEF ResubscribeChannel, DrainPending, DrainRetry, relay
<1>3. Rest(wire, c)
  BY DEF Rest
<1>4. CASE c \in bg.active /\ SendOk(wire, c, ChannelSince(bg, c))
           /\ \/ bg' = [bg EXCEPT !.dropped[c] = 0]
              \/ bg' = [bg EXCEPT !.pending = @ \ {c}, !.dropped[c] = 0]
              \/ bg' = [bg EXCEPT !.retry = @ \ {c}, !.dropped[c] = 0]
  <2>1. /\ bg'.active = bg.active /\ bg'.lastSeen = bg.lastSeen /\ bg'.subSince = bg.subSince
        /\ bg'.mActive = bg.mActive /\ bg'.mLast = bg.mLast /\ bg'.mDropped = bg.mDropped
        /\ bg'.proactive = bg.proactive /\ bg'.mResub = bg.mResub
        /\ (bg.pending \cup bg.retry) \ {c} \subseteq bg'.pending \cup bg'.retry
        /\ \A d \in Channels \ {c} : bg'.dropped[d] = bg.dropped[d]
        /\ bg'.dropped[c] = 0
    <3>1. CASE bg' = [bg EXCEPT !.dropped[c] = 0]
      BY <1>1, <3>1 DEF States, Stamps
    <3>2. CASE bg' = [bg EXCEPT !.pending = @ \ {c}, !.dropped[c] = 0]
      BY <1>1, <3>2 DEF States, Stamps
    <3>3. CASE bg' = [bg EXCEPT !.retry = @ \ {c}, !.dropped[c] = 0]
      BY <1>1, <3>3 DEF States, Stamps
    <3> QED
      BY <1>4, <3>1, <3>2, <3>3
  <2> QED
    BY <1>2, <1>3, <1>4, <2>1, ChannelSendReaches
<1>5. CASE c \in bg.active /\ (\E place : SendFails(place, c, ChannelSince(bg, c)))
           /\ \/ bg' = bg /\ c \in bg.pending \cup bg.retry
              \/ bg' = [bg EXCEPT !.retry = @ \cup {c}]
  <2>1. /\ bg'.active = bg.active /\ bg'.lastSeen = bg.lastSeen /\ bg'.subSince = bg.subSince
        /\ bg'.mActive = bg.mActive /\ bg'.mLast = bg.mLast /\ bg'.mDropped = bg.mDropped
        /\ bg'.proactive = bg.proactive /\ bg'.mResub = bg.mResub
        /\ (bg.pending \cup bg.retry) \ {c} \subseteq bg'.pending \cup bg'.retry
        /\ \A d \in Channels \ {c} : bg'.dropped[d] = bg.dropped[d]
        /\ bg'.dropped[c] = bg.dropped[c] /\ c \in bg'.pending \cup bg'.retry
    BY <1>1, <1>5 DEF States, Stamps
  <2> QED
    BY <1>2, <1>3, <1>5, <2>1, ChannelSendReaches
<1>6. CASE UNCHANGED line
           /\ \/ bg' = [bg EXCEPT !.pending = @ \cup {c}]
              \/ bg' = [bg EXCEPT !.pending = @ \cup {c}, !.retry = @ \ {c}]
              \/ bg' = [bg EXCEPT !.pending = @ \ {c}] /\ c \notin bg.active
  <2>1. /\ bg'.active = bg.active /\ bg'.lastSeen = bg.lastSeen /\ bg'.subSince = bg.subSince
        /\ bg'.mActive = bg.mActive /\ bg'.mLast = bg.mLast /\ bg'.mDropped = bg.mDropped
        /\ bg'.proactive = bg.proactive /\ bg'.mResub = bg.mResub /\ bg'.dropped = bg.dropped
        /\ (bg.pending \cup bg.retry) \ {c} \subseteq bg'.pending \cup bg'.retry
        /\ c \in bg.active => c \in bg'.pending \cup bg'.retry
    <3>1. CASE bg' = [bg EXCEPT !.pending = @ \cup {c}]
      BY <1>1, <3>1 DEF States, Stamps
    <3>2. CASE bg' = [bg EXCEPT !.pending = @ \cup {c}, !.retry = @ \ {c}]
      BY <1>1, <3>2 DEF States, Stamps
    <3>3. CASE bg' = [bg EXCEPT !.pending = @ \ {c}] /\ c \notin bg.active
      BY <1>1, <3>3 DEF States, Stamps
    <3> QED
      BY <1>6, <3>1, <3>2, <3>3
  <2>2. \A d \in Subs : SameStamps(bg, bg', d)
    BY <2>1 DEF SameStamps, OnIn, FromIn, UptoIn, DropIn
  <2>3. UNCHANGED <<wire, subs>>
    BY <1>6 DEF line
  <2>4. ASSUME NEW d \in Subs, OnIn(bg, d), ResubscribeDue(d) PROVE ResubscribeDue(d)'
    <3>1. CASE d = c
      <4>1. c # Membership
        BY ClientAssumption
      <4>2. c \in bg'.pending \cup bg'.retry
        BY <2>1, <2>4, <3>1, <4>1 DEF OnIn
      <4> QED
        BY <3>1, <4>2 DEF ResubscribeDue
    <3>2. CASE d # c
      <4>1. OnWire(d, "closed")' <=> OnWire(d, "closed")
        BY <2>3 DEF OnWire
      <4> QED
        BY <1>2, <2>1, <2>4, <3>2, <4>1, DueKept
    <3> QED
      BY <3>1, <3>2
  <2> QED
    BY <1>1, <1>2, <2>2, <2>3, <2>4, IdleReaches
<1>7. CASE ResubscribeChannel(c)
  <2>1. c \in bg.active
    BY <1>1, <1>7 DEF WantedOnly, ResubscribeChannel
  <2> QED
    BY <1>4, <1>5, <1>6, <1>7, <2>1 DEF ResubscribeChannel
<1>8. CASE DrainPending(c)
  BY <1>4, <1>5, <1>6, <1>8 DEF DrainPending
<1>9. CASE DrainRetry(c)
  <2>1. c \in bg.active
    BY <1>1, <1>9 DEF WantedOnly, DrainRetry
  <2> QED
    BY <1>4, <1>5, <1>6, <1>9, <2>1 DEF DrainRetry
<1> QED
  BY <1>7, <1>8, <1>9

\* The same for the notices.
LEMMA NoticeSendReaches ==
    ASSUME Reaching, BaseInv', Excused \subseteq Excused', bg.mActive, NEW rest, Rest(rest, Membership),
           UNCHANGED <<log, enqueued, sock, todo>>, conn = "lost" => conn' = "lost",
           conn = "resub" => conn' = "resub" \/ todo = {},
           bg'.active = bg.active, bg'.lastSeen = bg.lastSeen, bg'.subSince = bg.subSince,
           bg'.dropped = bg.dropped, bg'.mActive = bg.mActive, bg'.mLast = bg.mLast,
           bg'.proactive = bg.proactive, bg'.pending = bg.pending, bg'.retry = bg.retry,
           \/ SendOk(rest, Membership, MembershipSince(bg)) /\ bg'.mDropped = 0
           \/ /\ rest = wire /\ \E place : SendFails(place, Membership, MembershipSince(bg))
              /\ bg'.mDropped = bg.mDropped /\ bg'.mResub
    PROVE  LineInv'
<1>1. Membership \in Subs /\ Membership \notin Channels
  BY ClientAssumption DEF Subs
<1>2. /\ SinceIn(bg, Membership) = MembershipSince(bg) /\ OnIn(bg, Membership) /\ OnIn(bg', Membership)
      /\ FromIn(bg', Membership) = FromIn(bg, Membership) /\ UptoIn(bg', Membership) = UptoIn(bg, Membership)
      /\ DropIn(bg', Membership) = bg'.mDropped /\ DropIn(bg, Membership) = bg.mDropped
  BY DEF SinceIn, OnIn, FromIn, UptoIn, DropIn
<1>3. bg'.mResub => ResubscribeDue(Membership)'
  BY DEF ResubscribeDue
<1>4. \A d \in Subs \ {Membership} : SameStamps(bg, bg', d)
  BY DEF SameStamps, OnIn, FromIn, UptoIn, DropIn
<1>5. ASSUME NEW d \in Subs \ {Membership}, OnWire(d, "closed") = OnWire(d, "closed")', ResubscribeDue(d)
      PROVE  ResubscribeDue(d)'
  BY <1>5 DEF ResubscribeDue
<1> QED
  BY <1>1, <1>2, <1>3, <1>4, <1>5, SendReaches

LEMMA NoticesReach ==
    ASSUME Reaching, BaseInv', Excused \subseteq Excused', ResubscribeMembership \/ DrainMembership
    PROVE  LineInv'
<1>1. bg \in States /\ LineOK' /\ ReachInv /\ LogOK
  BY DEF Reaching, BaseInv, TaskOK
<1>2. /\ UNCHANGED <<log, enqueued, sock, todo>> /\ (conn = "lost" => conn' = "lost")
      /\ conn = "resub" => conn' = "resub" \/ todo = {}
  BY DEF ResubscribeMembership, DrainMembership, Ready, relay
<1>3. Rest(wire, Membership)
  BY DEF Rest
<1>4. CASE /\ bg.mActive /\ SendOk(wire, Membership, MembershipSince(bg))
           /\ bg' = [bg EXCEPT !.mDropped = 0, !.mResub = FALSE]
  <2>1. /\ bg'.active = bg.active /\ bg'.lastSeen = bg.lastSeen /\ bg'.subSince = bg.subSince
        /\ bg'.dropped = bg.dropped /\ bg'.mActive = bg.mActive /\ bg'.mLast = bg.mLast
        /\ bg'.proactive = bg.proactive /\ bg'.pending = bg.pending /\ bg'.retry = bg.retry
        /\ bg'.mDropped = 0
    BY <1>1, <1>4 DEF States
  <2> QED
    BY <1>2, <1>3, <1>4, <2>1, NoticeSendReaches
<1>5. CASE /\ bg.mActive /\ (\E place : SendFails(place, Membership, MembershipSince(bg)))
           /\ bg' = bg /\ bg.mResub
  BY <1>2, <1>3, <1>5, NoticeSendReaches
<1>6. CASE UNCHANGED line /\ ((UNCHANGED bg /\ ~bg.mActive) \/ bg' = [bg EXCEPT !.mResub = TRUE])
  <2>1. /\ bg'.active = bg.active /\ bg'.lastSeen = bg.lastSeen /\ bg'.subSince = bg.subSince
        /\ bg'.dropped = bg.dropped /\ bg'.mActive = bg.mActive /\ bg'.mLast = bg.mLast
        /\ bg'.proactive = bg.proactive /\ bg'.pending = bg.pending /\ bg'.retry = bg.retry
        /\ bg'.mDropped = bg.mDropped /\ (bg.mActive => bg'.mResub)
    BY <1>1, <1>6 DEF States
  <2>2. \A d \in Subs : SameStamps(bg, bg', d)
    BY <2>1 DEF SameStamps, OnIn, FromIn, UptoIn, DropIn
  <2>3. UNCHANGED <<wire, subs>>
    BY <1>6 DEF line
  <2>4. ASSUME NEW d \in Subs, OnIn(bg, d), ResubscribeDue(d) PROVE ResubscribeDue(d)'
    <3>1. OnWire(d, "closed")' <=> OnWire(d, "closed")
      BY <2>3 DEF OnWire
    <3> QED
      BY <1>2, <2>1, <2>4, <3>1 DEF ResubscribeDue, OnIn
  <2> QED
    BY <1>1, <1>2, <2>2, <2>3, <2>4, IdleReaches
<1>7. CASE ResubscribeMembership
  BY <1>4, <1>6, <1>7 DEF ResubscribeMembership
<1>8. CASE DrainMembership
  <2>1. bg.mActive /\ bg.mResub
    BY <1>1, <1>8 DEF ReachInv, ResubOn, DrainMembership
  <2> QED
    BY <1>4, <1>5, <1>8, <2>1 DEF DrainMembership
<1> QED
  BY <1>7, <1>8

LEMMA ResubOnStep ==
    ASSUME Reaching, Next
    PROVE  ResubOn'
<1>1. BaseInv /\ ReachInv /\ LogOK /\ LineOK /\ bg \in States /\ (bg.mResub => bg.mActive)
  BY DEF Reaching, BaseInv, TaskOK, ReachInv, ResubOn
<1>2. CASE CommandStep
  <2>1. PICK cmd : cmd = Head(cmds)
    OBVIOUS
  <2>2. cmd \in Commands /\ clock \in Nat /\ cmds # <<>>
    BY <1>1, <1>2, <2>1, CommandIntent DEF ReachInv, LogOK
  <2>3. PICK s : s = ApplyCommand(bg, cmd)
    OBVIOUS
  <2>4. s \in States /\ s.mResub = bg.mResub /\ s.mActive = (bg.mActive \/ cmd.op = "membership")
    BY <1>1, <2>2, <2>3, ApplyTypes, ApplyFields
  <2>5. \/ bg' = s \/ bg' = bg
        \/ bg' = [s EXCEPT !.pending = @ \cup {cmd.ch}]
        \/ bg' = [s EXCEPT !.pending = @ \ {cmd.ch}, !.retry = @ \ {cmd.ch}]
        \/ bg' = [bg EXCEPT !.mActive = TRUE, !.mResub = TRUE]
        \/ bg' = [bg EXCEPT !.mActive = TRUE, !.mResub = FALSE, !.mLast = OrElse(bg.mLast, bg.watermark)]
    <3>1. CASE RecordIntent
      BY <2>1, <2>3, <3>1 DEF RecordIntent
    <3>2. CASE RequestFails
      BY <2>1, <2>3, <3>2 DEF RequestFails
    <3>3. CASE cmd.op # "reconnect" /\ Execute(cmd)
      BY <2>2, <2>3, <3>3 DEF Execute, Commands
    <3> QED
      BY <1>2, <2>1, <3>1, <3>2, <3>3 DEF CommandStep, UpCommand, UpCommandFails, DrainCommand,
                                         DrainCommandFails, PostDrainFails
  <2>6. (bg'.mResub => bg'.mActive)
    <3>1. CASE bg' = s \/ bg' = bg
      BY <1>1, <2>4, <3>1
    <3>2. CASE \/ bg' = [s EXCEPT !.pending = @ \cup {cmd.ch}]
               \/ bg' = [s EXCEPT !.pending = @ \ {cmd.ch}, !.retry = @ \ {cmd.ch}]
      <4>1. bg'.mResub = s.mResub /\ bg'.mActive = s.mActive
        BY <2>4, <3>2 DEF States
      <4> QED
        BY <1>1, <2>4, <4>1
    <3>3. CASE \/ bg' = [bg EXCEPT !.mActive = TRUE, !.mResub = TRUE]
               \/ bg' = [bg EXCEPT !.mActive = TRUE, !.mResub = FALSE, !.mLast = OrElse(bg.mLast, bg.watermark)]
      <4>1. bg'.mActive = TRUE
        BY <1>1, <3>3 DEF States
      <4> QED
        BY <4>1
    <3> QED
      BY <2>5, <3>1, <3>2, <3>3
  <2> QED
    BY <2>6 DEF ResubOn
<1>3. CASE ReadItem
  <2>1. Head(wire).item \in log
    BY <1>1, <1>3, ReadItemTypes
  <2>2. PICK i \in log : bg' = bg \/ bg' = Accept(bg, i) \/ bg' = Refuse(bg, i)
    BY <1>3, <2>1 DEF ReadItem
  <2>3. bg'.mResub = bg.mResub /\ bg'.mActive = bg.mActive
    <3>1. CASE bg' = Accept(bg, i)
      BY <1>1, <3>1, ReadFields
    <3>2. CASE bg' = Refuse(bg, i)
      BY <1>1, <3>2 DEF Refuse, States
    <3> QED
      BY <2>2, <3>1, <3>2
  <2> QED
    BY <1>1, <2>3 DEF ResubOn
<1>4. CASE Denial
  <2>1. bg' = ClearChannel(bg, Head(wire).sub)
    BY <1>4 DEF Denial, ReadRefusal
  <2>2. bg'.mResub = bg.mResub /\ bg'.mActive = bg.mActive
    BY <1>1, <2>1 DEF ClearChannel, States
  <2> QED
    BY <1>1, <2>2 DEF ResubOn
<1>5. CASE ~CommandStep /\ ~ReadItem /\ ~Denial
  <2>1. bg'.mActive = bg.mActive
    BY <1>1, <1>5, StampsLeft
  <2>2. CASE ReadRefusal
    <3>1. Head(wire).sub = Membership \/ bg'.mResub = bg.mResub
      BY <1>1, <1>5, <2>2 DEF ReadRefusal, Denial, States
    <3>2. Head(wire).sub = Membership => bg.mActive
      <4> SUFFICES ASSUME Head(wire).sub = Membership PROVE bg.mActive
        OBVIOUS
      <4>1. wire # <<>> /\ Head(wire).type = "closed"
        BY <2>2 DEF ReadRefusal
      <4>2. Head(wire) \in Sent(wire) /\ Membership \in Subs
        BY <1>1, <4>1, SentParts DEF LineOK, Subs
      <4>3. Head(wire) \in About(Membership)
        BY <4>1, <4>2 DEF About
      <4> QED
        BY <1>1, <4>2, <4>3, NoticesStay DEF ReachInv, Fine, Untouched, OnIn
    <3> QED
      BY <1>1, <2>1, <3>1, <3>2 DEF ResubOn
  <2>3. CASE ResubscribeMembership
    <3>1. bg.mActive \/ bg' = bg
      BY <2>3 DEF ResubscribeMembership
    <3> QED
      BY <1>1, <2>1, <3>1 DEF ResubOn
  <2>4. CASE ~ReadRefusal /\ ~ResubscribeMembership
    <3>1. bg'.mResub \in {bg.mResub, FALSE}
      <4>1. CASE \E c \in Channels : ResubscribeChannel(c) \/ DrainPending(c) \/ DrainRetry(c)
        BY <1>1, <4>1 DEF ResubscribeChannel, DrainPending, DrainRetry, States
      <4>2. CASE DetectLoss \/ Connect \/ ProactiveResubscribe \/ ResubscribeMembershipFails
                 \/ ReadClosedFails \/ DrainDone
        BY <1>1, <4>2 DEF DetectLoss, Connect, ProactiveResubscribe, ResubscribeMembershipFails,
                          ReadClosedFails, DrainDone, States
      <4>3. CASE DrainMembership \/ ReadNotice \/ ReadClosed
        BY <1>1, <4>3 DEF DrainMembership, ReadNotice, ReadClosed, States
      <4>4. CASE ~Task
        <5>1. Harness => UNCHANGED bg
          BY DEF Harness, TakeEvent, TakeLoss, SkipNotice, ApplyNotice, Take
        <5>2. UNCHANGED bg \/ bg' = [bg EXCEPT !.gate = FALSE]
          BY <4>4, <5>1 DEF Next, GateExpires, SocketDies, RelayThrottles, Publish, RelayCloses
        <5> QED
          BY <1>1, <5>2 DEF States
      <4> QED
        BY <1>5, <2>4, <4>1, <4>2, <4>3, <4>4 DEF Task, CommandStep
    <3> QED
      BY <1>1, <2>1, <3>1 DEF ResubOn
  <2> QED
    BY <2>2, <2>3, <2>4
<1> QED
  BY <1>2, <1>3, <1>4, <1>5

LEMMA ReadClosedReaches ==
    ASSUME Reaching, BaseInv', Excused \subseteq Excused', ReadClosed
    PROVE  LineInv'
<1>1. bg \in States /\ ReachInv /\ LogOK /\ LineOK
  BY DEF Reaching, BaseInv, TaskOK
<1>2. PICK sub : sub = Head(wire).sub
  OBVIOUS
<1>3. /\ wire # <<>> /\ Head(wire).type = "closed" /\ UNCHANGED <<log, enqueued, conn, sock, todo>>
  BY DEF ReadClosed, relay
<1>4. Rest(Tail(wire), sub)
  BY <1>2, <1>3 DEF Rest
<1>5. CASE /\ sub = Membership /\ SendOk(Tail(wire), sub, MembershipSince(bg))
           /\ bg' = [bg EXCEPT !.mDropped = 0]
  <2>1. /\ bg'.active = bg.active /\ bg'.lastSeen = bg.lastSeen /\ bg'.subSince = bg.subSince
        /\ bg'.dropped = bg.dropped /\ bg'.mActive = bg.mActive /\ bg'.mLast = bg.mLast
        /\ bg'.proactive = bg.proactive /\ bg'.pending = bg.pending /\ bg'.retry = bg.retry
        /\ bg'.mDropped = 0
    BY <1>1, <1>5 DEF States
  <2>2. bg.mActive
    <3>1. Head(wire) \in Sent(wire) /\ Membership \in Subs
      BY <1>1, <1>3, SentParts DEF LineOK, Subs
    <3>2. Head(wire) \in About(Membership)
      BY <1>2, <1>3, <1>5, <3>1 DEF About
    <3> QED
      BY <1>1, <3>1, <3>2, NoticesStay DEF ReachInv, Fine, Untouched, OnIn
  <2> QED
    BY <1>3, <1>4, <1>5, <2>1, <2>2, NoticeSendReaches
<1>6. CASE /\ sub \in bg.active /\ SendOk(Tail(wire), sub, ChannelSince(bg, sub))
           /\ bg' = [bg EXCEPT !.dropped[sub] = 0]
  <2>1. sub \in Channels
    BY <1>1, <1>6 DEF States
  <2>2. /\ bg'.active = bg.active /\ bg'.lastSeen = bg.lastSeen /\ bg'.subSince = bg.subSince
        /\ bg'.mActive = bg.mActive /\ bg'.mLast = bg.mLast /\ bg'.mDropped = bg.mDropped
        /\ bg'.proactive = bg.proactive /\ bg'.mResub = bg.mResub
        /\ (bg.pending \cup bg.retry) \ {sub} \subseteq bg'.pending \cup bg'.retry
        /\ \A d \in Channels \ {sub} : bg'.dropped[d] = bg.dropped[d]
        /\ bg'.dropped[sub] = 0
    BY <1>1, <1>6, <2>1 DEF States, Stamps
  <2> QED
    BY <1>3, <1>4, <1>6, <2>1, <2>2, ChannelSendReaches
<1>7. CASE sub \in Channels \ bg.active /\ wire' = Tail(wire) /\ UNCHANGED <<subs, bg>>
  BY <1>2, <1>3, <1>7, UnwantedReaches
<1> QED
  BY <1>2, <1>5, <1>6, <1>7 DEF ReadClosed

\* The first REQ of a subscription.
LEMMA AskedReaches ==
    ASSUME Reaching, BaseInv', Excused \subseteq Excused', CommandStep, NEW sub \in Subs, AsksFor(Head(cmds), sub),
           NEW ts, SendOk(wire, sub, ts), UNCHANGED <<log, enqueued>>,
           Stayed(sub) => \A i \in log : SubOf(i) = sub /\ i.ts >= FromIn(bg', sub) => i.ts >= SinceTs(ts),
           \A d \in Subs \ {sub} : OnWire(d, "closed") = OnWire(d, "closed")' /\ ResubscribeDue(d) => ResubscribeDue(d)'
    PROVE  LineInv'
<1>1. ReachInv /\ LogOK /\ LineOK /\ LineOK' /\ CutOK /\ InOrder(wire) /\ Ahead /\ bg \in States
  BY DEF Reaching, BaseInv, ReachInv, TaskOK
<1>2. Rest(wire, sub)
  BY DEF Rest
<1>3. /\ Wrote(wire, sub)
      /\ \/ Replayed(wire, sub, SinceTs(ts))
         \/ sub \notin member \cup {Membership}
         \/ Quiet(wire, sub)
  BY <1>1, <1>2, SendForms
<1>4. InOrder(wire)'
  BY <1>3 DEF Wrote
<1>5. Ahead'
  BY <1>1, <1>3, CommandEffect, AheadKept DEF Wrote
<1>6. ASSUME NEW d \in Subs, Stayed(d)' PROVE Fine(d)'
  <2>1. Stayed(d) /\ Fine(d)
    BY <1>1, <1>6 DEF Stayed, ReachInv
  <2>2. \/ SameStamps(bg, bg', d) /\ ~AsksFor(Head(cmds), d)
        \/ Started(d) /\ AsksFor(Head(cmds), d) /\ (d # Membership => d \in member)
        \/ StillOff(d) /\ ~AsksFor(Head(cmds), d)
    BY <2>1, CommandEffect
  <2>3. CASE d # sub
    <3>1. About(d)' = About(d) /\ (d \in subs' => d \in subs)
      BY <1>3, <2>3 DEF Wrote
    <3>2. ~AsksFor(Head(cmds), d)
      BY <2>3 DEF AsksFor
    <3>3. CASE StillOff(d)
      BY <2>1, <3>1, <3>3, FineOff DEF StillOff
    <3>4. CASE SameStamps(bg, bg', d)
      <4>1. OnWire(d, "closed") <=> OnWire(d, "closed")'
        BY <1>1, <3>1, ClosedAbout
      <4>2. OnWire(d, "closed") = OnWire(d, "closed")'
        BY <4>1 DEF OnWire
      <4>3. DropDue(d)'
        BY <2>1, <2>3, <3>4, <4>2, DropDueKept
      <4> QED
        BY <2>1, <3>1, <3>4, <4>3, FineKept
    <3> QED
      BY <2>2, <3>2, <3>3, <3>4
  <2>4. CASE d = sub
    <3>1. Started(d) /\ d \in member \cup {Membership}
      BY <2>2, <2>4
    <3>2. About(d) = {} /\ d \notin subs /\ DropIn(bg', d) = 0 /\ OnIn(bg', d)
      BY <2>1, <3>1 DEF Fine, Untouched, Started
    <3>3. CASE Replayed(wire, sub, SinceTs(ts))
      <4>1. DropDue(d)'
        BY <3>2 DEF DropDue, DropIn
      <4>2. NotDenied(d)
        BY <3>2 DEF NotDenied
      <4>3. \A i \in log : SubOf(i) = d /\ i.ts >= FromIn(bg', d) => i.ts >= SinceTs(ts)
        BY <2>1, <2>4
      <4> QED
        BY <2>4, <3>2, <3>3, <4>1, <4>2, <4>3, FineReplayed
    <3>4. CASE Quiet(wire, sub)
      <4>1. Closed(sub, "rate-limited").type = "closed" /\ Closed(sub, "rate-limited").why = "rate-limited"
        BY DEF Closed
      <4>2. About(d)' = {m \in Sent(wire') : m.type # "notice" /\ m.sub = d}
        BY DEF About, Sent
      <4>3. \A m \in About(d)' : m \in About(d) \/ m = Closed(sub, "rate-limited")
        BY <3>4, <4>2 DEF About, Quiet
      <4>4. \A m \in About(d)' : m.type = "closed" /\ m.why # "denied"
        BY <3>2, <4>1, <4>3
      <4>5. d \notin subs'
        BY <3>2, <3>4 DEF Quiet
      <4> QED
        BY <1>1, <2>1, <3>1, <4>4, <4>5, FineStarted
    <3> QED
      BY <1>3, <2>4, <3>1, <3>3, <3>4
  <2> QED
    BY <2>3, <2>4
<1> QED
  BY <1>4, <1>5, <1>6 DEF LineInv

LEMMA SinceSmall ==
    ASSUME clock \in Nat, NEW n \in Nat \ {0}, NEW t \in Nat, n <= t
    PROVE  t >= SinceTs(n)
<1>1. Skew \in Nat
  BY ClientAssumption
<1> QED
  BY <1>1 DEF SinceTs

\* A command that is carried out.
LEMMA ExecuteReaches ==
    ASSUME Reaching, BaseInv', Excused \subseteq Excused', CommandStep, NEW cmd \in Commands, cmd = Head(cmds),
           cmd.op # "reconnect", Execute(cmd), UNCHANGED <<log, enqueued, conn, sock, todo>>
    PROVE  LineInv'
<1>1. /\ BaseInv /\ ReachInv /\ StampsOK /\ LogOK /\ bg \in States /\ clock \in Nat \ {0}
      /\ Membership \notin Channels
  BY ClientAssumption DEF Reaching, BaseInv, TaskOK, ReachInv, LogOK
<1>2. PICK s : s = ApplyCommand(bg, cmd)
  OBVIOUS
<1>3. /\ s \in States /\ s.proactive = bg.proactive /\ s.mResub = bg.mResub
      /\ cmd.op # "unsubscribe" => s.pending = bg.pending /\ s.retry = bg.retry
      /\ cmd.op = "unsubscribe" => s.pending = bg.pending \ {cmd.ch} /\ s.retry = bg.retry \ {cmd.ch}
  BY <1>1, <1>2, ApplyTypes, ApplyFields
<1>4. ASSUME UNCHANGED wire, subs' \subseteq subs, bg'.proactive = bg.proactive, bg.mResub => bg'.mResub,
             \A d : d \in bg.pending \cup bg.retry /\ ~(cmd.op = "unsubscribe" /\ cmd.ch = d)
                => d \in bg'.pending \cup bg'.retry
      PROVE  LineInv'
  <2>1. ASSUME NEW d \in Subs, Stayed(d), ResubscribeDue(d) PROVE ResubscribeDue(d)'
    <3>1. ~(cmd.op = "unsubscribe" /\ cmd.ch = d)
      BY <2>1, CommandEffect
    <3>2. OnWire(d, "closed")' <=> OnWire(d, "closed")
      BY <1>4 DEF OnWire
    <3> QED
      BY <1>4, <2>1, <3>1, <3>2, DueKept
  <2> QED
    BY <1>4, <2>1, IntentReaches
<1>5. CASE cmd.op = "subscribe" /\ bg.gate
  <2>1. bg' = [s EXCEPT !.pending = @ \cup {cmd.ch}] /\ UNCHANGED <<wire, subs>>
    BY <1>2, <1>5 DEF Execute, line
  <2>2. /\ bg'.proactive = s.proactive /\ bg'.mResub = s.mResub /\ bg'.pending = s.pending \cup {cmd.ch}
        /\ bg'.retry = s.retry
    BY <1>3, <2>1 DEF States
  <2> QED
    BY <1>3, <1>4, <1>5, <2>1, <2>2
<1>6. CASE cmd.op = "subscribe" /\ ~bg.gate
  <2>1. PICK c \in Channels : c = cmd.ch
    BY <1>6 DEF Commands
  <2>2. PICK ts : ts = OrElse(s.lastSeen[c], s.subSince[c])
    OBVIOUS
  <2>3. /\ SendOk(wire, c, ts)
        /\ bg' = [s EXCEPT !.pending = @ \ {c}, !.retry = @ \ {c}]
    BY <1>2, <1>6, <2>1, <2>2 DEF Execute
  <2>4. /\ bg'.proactive = s.proactive /\ bg'.mResub = s.mResub /\ bg'.pending = s.pending \ {c}
        /\ bg'.retry = s.retry \ {c} /\ bg'.lastSeen = s.lastSeen /\ bg'.subSince = s.subSince
    BY <1>3, <2>3 DEF States
  <2>5. c \in Subs /\ c # Membership /\ AsksFor(cmd, c)
    BY <1>1, <1>6, <2>1 DEF Subs, AsksFor
  <2>6. ASSUME Stayed(c), NEW i \in log, SubOf(i) = c, i.ts >= FromIn(bg', c) PROVE i.ts >= SinceTs(ts)
    <3>1. Started(c) /\ Fine(c)
      BY <1>1, <2>5, <2>6, CommandEffect DEF ReachInv
    <3>2. UptoIn(bg', c) = 0
      BY <2>5, <3>1 DEF Fine, Untouched, Started
    <3>3. FromIn(s, c) # 0 /\ FromIn(s, c) \in Nat
      BY <1>1, <1>2, <1>3, <2>5, ApplyStamps, StampTyped
    <3>4. s.lastSeen[c] = 0 /\ s.subSince[c] \in Nat \ {0} /\ FromIn(bg', c) = s.subSince[c]
      BY <2>4, <2>5, <3>2, <3>3 DEF UptoIn, FromIn
    <3>5. ts = s.subSince[c] /\ i.ts \in Nat
      BY <1>1, <2>2, <3>4 DEF OrElse, LogOK, Items
    <3>6. ts \in Nat \ {0} /\ ts <= i.ts
      BY <2>6, <3>4, <3>5
    <3> QED
      BY <1>1, <3>5, <3>6, SinceSmall
  <2>7. ASSUME NEW d \in Subs \ {c}, OnWire(d, "closed") = OnWire(d, "closed")', ResubscribeDue(d)
        PROVE  ResubscribeDue(d)'
    BY <1>3, <1>6, <2>4, <2>7, DueKept
  <2> QED
    BY <2>3, <2>5, <2>6, <2>7, AskedReaches
<1>7. CASE cmd.op = "unsubscribe"
  <2>1. bg' = s /\ UNCHANGED wire /\ subs' \subseteq subs
    BY <1>2, <1>7 DEF Execute, line, SendClose
  <2> QED
    BY <1>3, <1>4, <1>7, <2>1
<1>8. CASE cmd.op = "membership" /\ bg.gate
  <2>1. bg' = [bg EXCEPT !.mActive = TRUE, !.mResub = TRUE] /\ UNCHANGED <<wire, subs>>
    BY <1>8 DEF Execute, line
  <2>2. bg'.proactive = bg.proactive /\ bg'.mResub /\ bg'.pending = bg.pending /\ bg'.retry = bg.retry
    BY <1>1, <2>1 DEF States
  <2> QED
    BY <1>4, <2>1, <2>2
<1>9. CASE cmd.op = "membership" /\ ~bg.gate
  <2>1. PICK ts : ts = OrElse(bg.mLast, bg.watermark)
    OBVIOUS
  <2>2. SendOk(wire, Membership, ts) /\ bg' = [bg EXCEPT !.mActive = TRUE, !.mResub = FALSE, !.mLast = ts]
    BY <1>9, <2>1 DEF Execute
  <2>3. bg'.proactive = bg.proactive /\ bg'.pending = bg.pending /\ bg'.retry = bg.retry
    BY <1>1, <2>2 DEF States
  <2>4. Membership \in Subs /\ AsksFor(cmd, Membership)
    BY <1>9 DEF Subs, AsksFor
  <2>5. ASSUME NEW i \in log, SubOf(i) = Membership PROVE i.ts >= SinceTs(ts)
    <3>1. Started(Membership) /\ Fine(Membership)
      BY <1>1, <2>4, NoticesStay, CommandEffect DEF ReachInv
    <3>2. bg.mLast <= 1 /\ bg.mLast \in Nat
      BY <1>1, <3>1 DEF Fine, Untouched, Started, UptoIn, States
    <3>3. bg.mLast # 0
      <4>1. cmds # <<>> /\ cmds[1] = cmd
        BY <1>1, CommandIntent, HeadTail DEF BaseInv, QueuesOK
      <4> QED
        BY <1>1, <1>9, <4>1 DEF StampsOK
    <3>4. ts = 1 /\ i.ts \in Nat /\ i.ts > 1
      BY <1>1, <2>1, <3>2, <3>3 DEF OrElse, LogOK, Items
    <3> QED
      BY <1>1, <3>4, SinceSmall
  <2>6. ASSUME NEW d \in Subs \ {Membership}, OnWire(d, "closed") = OnWire(d, "closed")', ResubscribeDue(d)
        PROVE  ResubscribeDue(d)'
    BY <2>3, <2>6, DueKept
  <2> QED
    BY <2>2, <2>4, <2>5, <2>6, AskedReaches
<1>10. CASE cmd.op = "watermark"
  <2>1. bg' = s /\ UNCHANGED <<wire, subs>>
    BY <1>2, <1>10 DEF Execute, line
  <2> QED
    BY <1>3, <1>4, <1>10, <2>1
<1> QED
  BY <1>5, <1>6, <1>7, <1>8, <1>9, <1>10 DEF Commands

LEMMA CommandsReach ==
    ASSUME "post" \notin SlowSends, Reaching, BaseInv', Excused \subseteq Excused', CommandStep
    PROVE  LineInv'
<1>1. BaseInv /\ ReachInv /\ StampsOK /\ bg \in States /\ clock \in Nat
  BY DEF Reaching, BaseInv, TaskOK, ReachInv, LogOK
<1>2. PICK cmd : cmd = Head(cmds)
  OBVIOUS
<1>3. cmd \in Commands /\ UNCHANGED <<log, enqueued>>
  BY <1>1, <1>2, CommandIntent
<1>4. CASE RecordIntent
  <2>1. /\ bg' = ApplyCommand(bg, cmd) /\ UNCHANGED <<wire, subs, conn, sock, todo>>
    BY <1>2, <1>4 DEF RecordIntent, line
  <2>2. /\ bg'.proactive = bg.proactive /\ bg'.mResub = bg.mResub
        /\ cmd.op # "unsubscribe" => bg'.pending = bg.pending /\ bg'.retry = bg.retry
        /\ cmd.op = "unsubscribe" => bg'.pending = bg.pending \ {cmd.ch} /\ bg'.retry = bg.retry \ {cmd.ch}
    BY <1>1, <1>3, <2>1, ApplyFields
  <2>3. ASSUME NEW d \in Subs, Stayed(d), ResubscribeDue(d) PROVE ResubscribeDue(d)'
    <3>1. ~(cmd.op = "unsubscribe" /\ cmd.ch = d)
      BY <1>2, <2>3, CommandEffect
    <3>2. OnWire(d, "closed")' <=> OnWire(d, "closed")
      BY <2>1 DEF OnWire
    <3> QED
      BY <2>1, <2>2, <2>3, <3>1, <3>2, DueKept
  <2> QED
    BY <1>3, <2>1, <2>3, IntentReaches
<1>5. CASE PostDrainFails
  <2>1. ~sock /\ UNCHANGED <<wire, subs, sock>>
    BY <1>5 DEF PostDrainFails, SendFails, WriteFails
  <2>2. \A d \in Subs : ResubscribeDue(d)'
    BY <2>1 DEF ResubscribeDue
  <2> QED
    BY <1>3, <2>1, <2>2, IntentReaches
<1>6. CASE UpCommandFails \/ DrainCommandFails \/ (UpCommand /\ cmd.op = "reconnect")
  BY <1>2, <1>6, LosingReaches
<1>7. CASE (UpCommand \/ DrainCommand) /\ cmd.op # "reconnect"
  <2>1. Execute(cmd) /\ UNCHANGED <<conn, sock, todo>>
    BY <1>2, <1>7 DEF UpCommand, DrainCommand
  <2> QED
    BY <1>2, <1>3, <1>7, <2>1, ExecuteReaches
<1>8. CASE DrainCommand /\ cmd.op = "reconnect"
  <2>1. UNCHANGED <<wire, subs, bg, conn, sock, todo>>
    BY <1>2, <1>8 DEF DrainCommand, line
  <2>2. ASSUME NEW d \in Subs, ResubscribeDue(d) PROVE ResubscribeDue(d)'
    <3>1. OnWire(d, "closed")' <=> OnWire(d, "closed")
      BY <2>1 DEF OnWire
    <3> QED
      BY <2>1, <2>2, <3>1, DueKept
  <2> QED
    BY <1>3, <2>1, <2>2, IntentReaches
<1> QED
  BY <1>4, <1>5, <1>6, <1>7, <1>8 DEF CommandStep

LEMMA LineStep ==
    ASSUME "post" \notin SlowSends, Reaching, BaseInv', Excused \subseteq Excused', Next
    PROVE  LineInv'
<1>1. CASE CommandStep
  BY <1>1, CommandsReach
<1>2. CASE \E c \in Channels : ResubscribeChannel(c) \/ DrainPending(c) \/ DrainRetry(c)
  BY <1>2, ChannelReaches
<1>3. CASE ResubscribeMembership \/ DrainMembership
  BY <1>3, NoticesReach
<1>4. CASE DetectLoss \/ ResubscribeMembershipFails \/ ReadClosedFails
  BY <1>4, LosingReaches
<1>5. CASE GateExpires \/ Connect \/ ProactiveResubscribe \/ DrainDone \/ Harness \/ SocketDies
  BY <1>5, RestingReaches
<1>6. CASE ReadItem
  BY <1>6, ReadItemReaches
<1>7. CASE ReadRefusal \/ ReadNotice
  BY <1>7, RefusalReaches
<1>8. CASE ReadClosed
  BY <1>8, ReadClosedReaches
<1>9. CASE RelayThrottles \/ \E sub \in Channels \cup {Membership} : RelayCloses(sub)
  BY <1>9, RelayTells DEF Subs
<1>10. CASE \E c \in Channels, k \in {"event", "added", "removed"} : Publish(c, k)
  BY <1>10, PublishReaches
<1> QED
  BY <1>1, <1>2, <1>3, <1>4, <1>5, <1>6, <1>7, <1>8, <1>9, <1>10 DEF Next, Task, CommandStep

LEMMA ReachStep ==
    ASSUME "post" \notin SlowSends, Reaching, [Next]_vars
    PROVE  Reaching'
<1>1. BaseInv /\ CutOK /\ WantedOnly /\ SettlingInv /\ ReachInv
  BY DEF Reaching
<1>2. BaseInv' /\ SettlingInv' /\ CutOK' /\ Excused \subseteq Excused'
  BY <1>1, BaseStep, SettlingStep, CutStep
<1>3. CASE Next
  <2>1. WantedOnly' /\ StampsOK' /\ SeenIn' /\ ResubOn' /\ LineInv'
    BY <1>1, <1>2, <1>3, WantedStep, StampsStep, SeenInStep, ResubOnStep, LineStep DEF ReachInv
  <2>2. \A d \in Subs : Stayed(d)' => AskedOnce(d)'
    BY <1>1, <1>3, OnceStep
  <2>3. Subs' = Subs
    BY DEF Subs, Membership
  <2>4. ReachInv'
    BY <2>1, <2>2, <2>3 DEF ReachInv, LineInv
  <2> QED
    BY <1>2, <2>1, <2>4 DEF Reaching
<1>4. CASE UNCHANGED vars
  <2>1. UNCHANGED <<log, clock, subs, wire, conn, sock, todo, bg, cmds, subscribed, enqueued>>
    BY <1>4 DEF vars, relay, line, harness
  <2>2. WantedOnly'
    BY <1>1, <2>1 DEF WantedOnly
  <2>3. StampsOK' /\ SeenIn' /\ ResubOn'
    BY <1>1, <2>1 DEF ReachInv, StampsOK, StampOf, UptoIn, DropIn, FromIn, OnIn, SeenIn, SeenOf, ResubOn
  <2>4. LineInv'
    <3>1. \A d \in Subs : SameStamps(bg, bg', d)
      BY <2>1 DEF SameStamps
    <3>2. ASSUME NEW d \in Subs, ResubscribeDue(d) PROVE ResubscribeDue(d)'
      BY <2>1, <3>2 DEF ResubscribeDue, OnWire
    <3>3. LineOK'
      BY <1>2 DEF BaseInv
    <3> QED
      BY <1>2, <2>1, <3>1, <3>2, <3>3, IdleReaches
  <2>5. \A d \in Subs : Stayed(d)' => AskedOnce(d)'
    <3> SUFFICES ASSUME NEW d \in Subs, Stayed(d)' PROVE AskedOnce(d)'
      OBVIOUS
    <3>1. AskedOnce(d)
      BY <1>1, <2>1 DEF ReachInv, Stayed
    <3> QED
      BY <2>1, <3>1 DEF AskedOnce, AsksFor, OnIn
  <2>6. ReachInv'
    BY <2>3, <2>4, <2>5 DEF ReachInv, LineInv, Subs
  <2> QED
    BY <1>2, <2>2, <2>6 DEF Reaching
<1> QED
  BY <1>3, <1>4

LEMMA JoinedParts ==
    ASSUME NEW S, NEW a \in Seq(S), NEW b \in Seq(S)
    PROVE  /\ Len(a \o b) = Len(a) + Len(b)
           /\ \A k \in 1..(Len(a) + Len(b)) : (a \o b)[k] = IF k <= Len(a) THEN a[k] ELSE b[k - Len(a)]
  OBVIOUS

\* What the harness asks for when it starts: each subscription once.
LEMMA FirstCommands ==
    ASSUME Init
    PROVE  /\ cmds # <<>> /\ cmds[1] = [op |-> "watermark", ts |-> 1]
           /\ \A k \in 1..Len(cmds) : cmds[k].op = "watermark" => k = 1
           /\ \A k \in 1..Len(cmds) : cmds[k].op # "unsubscribe"
           /\ \A k, j \in 1..Len(cmds) : cmds[k].op = "membership" /\ cmds[j].op = "membership" => j = k
           /\ \A k, j \in 1..Len(cmds) :
                (cmds[k].op = "subscribe" /\ cmds[j].op = "subscribe" /\ cmds[k].ch = cmds[j].ch) => j = k
           /\ \A k \in 1..Len(cmds) : cmds[k].op = "subscribe" => cmds[k].ch \in Founding
<1>1. PICK n : n = Cardinality(Founding)
  OBVIOUS
<1>2. PICK f : f = SetToSeq(Founding)
  OBVIOUS
<1>3. n \in Nat /\ IsFiniteSet(Founding)
  BY <1>1, ClientAssumption, FS_CardinalityType
<1>4. f \in [1..n -> Founding] /\ IsInjective(f)
  <2>1. \E g \in [1..n -> Founding] : IsInjective(g)
    <3>1. ExistsBijection(1..n, Founding)
      BY <1>1, <1>3, FS_CardinalityType
    <3> QED
      BY <3>1 DEF ExistsBijection, Bijection, Injection
  <2> QED
    BY <1>1, <1>2, <2>1 DEF SetToSeq
<1>5. \A j, k \in 1..n : f[j] = f[k] => j = k
  BY <1>4 DEF IsInjective
<1>6. PICK first : first = <<[op |-> "watermark", ts |-> 1], [op |-> "membership"]>>
  OBVIOUS
<1>7. PICK rest : rest = [k \in 1..n |-> [op |-> "subscribe", ch |-> f[k], ts |-> 0]]
  OBVIOUS
<1>8. cmds = first \o rest
  BY <1>1, <1>2, <1>6, <1>7 DEF Init
<1>9. /\ first \in Seq(Commands) /\ Len(first) = 2 /\ first[1] = [op |-> "watermark", ts |-> 1]
      /\ first[2] = [op |-> "membership"]
  BY <1>6 DEF Commands
<1>10. rest \in Seq(Commands) /\ Len(rest) = n /\ \A k \in 1..n : rest[k] = [op |-> "subscribe", ch |-> f[k], ts |-> 0]
  <2>1. \A k \in 1..n : [op |-> "subscribe", ch |-> f[k], ts |-> 0] \in Commands
    BY <1>4, ClientAssumption DEF Commands
  <2>2. rest \in [1..n -> Commands]
    BY <1>7, <2>1
  <2> QED
    BY <1>3, <1>7, <2>2
<1>11. /\ Len(cmds) = n + 2
       /\ \A k \in 1..(n + 2) : cmds[k] = IF k <= 2 THEN first[k] ELSE rest[k - 2]
  <2>1. PICK s : s = first \o rest
    OBVIOUS
  <2>2. first \in Seq(Commands) /\ rest \in Seq(Commands)
    BY <1>9, <1>10
  <2>3. /\ Len(s) = Len(first) + Len(rest)
        /\ \A k \in 1..(Len(first) + Len(rest)) : s[k] = IF k <= Len(first) THEN first[k] ELSE rest[k - Len(first)]
    <3>1. /\ Len(first \o rest) = Len(first) + Len(rest)
          /\ \A k \in 1..(Len(first) + Len(rest)) :
               (first \o rest)[k] = IF k <= Len(first) THEN first[k] ELSE rest[k - Len(first)]
      BY <2>2, JoinedParts
    <3> QED
      BY <2>1, <3>1
  <2>4. cmds = s /\ Len(first) = 2 /\ Len(rest) = n /\ 2 + n = n + 2
    BY <1>3, <1>8, <1>9, <1>10, <2>1
  <2> QED
    BY <2>3, <2>4
<1>12. cmds[1] = [op |-> "watermark", ts |-> 1] /\ cmds[2] = [op |-> "membership"]
  BY <1>3, <1>9, <1>11
<1>13. \A k \in 1..Len(cmds) : k # 1 /\ k # 2 =>
         k - 2 \in 1..n /\ cmds[k] = [op |-> "subscribe", ch |-> f[k - 2], ts |-> 0]
  BY <1>3, <1>10, <1>11
<1>14. \A k \in 1..Len(cmds) : \/ k = 1 /\ cmds[k].op = "watermark"
                               \/ k = 2 /\ cmds[k].op = "membership"
                               \/ k - 2 \in 1..n /\ cmds[k].op = "subscribe" /\ cmds[k].ch = f[k - 2]
  <2> SUFFICES ASSUME NEW k \in 1..Len(cmds)
               PROVE  \/ k = 1 /\ cmds[k].op = "watermark"
                      \/ k = 2 /\ cmds[k].op = "membership"
                      \/ k - 2 \in 1..n /\ cmds[k].op = "subscribe" /\ cmds[k].ch = f[k - 2]
    OBVIOUS
  <2>1. CASE k = 1
    BY <1>12, <2>1
  <2>2. CASE k = 2
    BY <1>12, <2>2
  <2>3. CASE k # 1 /\ k # 2
    <3>1. k - 2 \in 1..n /\ cmds[k] = [op |-> "subscribe", ch |-> f[k - 2], ts |-> 0]
      BY <1>13, <2>3
    <3>2. cmds[k].op = "subscribe" /\ cmds[k].ch = f[k - 2]
      BY <3>1
    <3> QED
      BY <3>1, <3>2
  <2> QED
    BY <2>1, <2>2, <2>3
<1>15. \A k, j \in 1..Len(cmds) :
         (cmds[k].op = "subscribe" /\ cmds[j].op = "subscribe" /\ cmds[k].ch = cmds[j].ch) => j = k
  <2> SUFFICES ASSUME NEW k \in 1..Len(cmds), NEW j \in 1..Len(cmds), cmds[k].op = "subscribe",
                      cmds[j].op = "subscribe", cmds[k].ch = cmds[j].ch
               PROVE  j = k
    OBVIOUS
  <2>1. k - 2 \in 1..n /\ j - 2 \in 1..n /\ f[k - 2] = f[j - 2]
    BY <1>14
  <2>2. k - 2 = j - 2
    BY <1>5, <2>1
  <2> QED
    BY <1>3, <1>11, <2>2
<1>16. \A k \in 1..Len(cmds) : cmds[k].op = "subscribe" => cmds[k].ch \in Founding
  BY <1>4, <1>14
<1>17. cmds # <<>>
  BY <1>3, <1>11
<1> QED
  BY <1>12, <1>14, <1>15, <1>16, <1>17

LEMMA ReachInit == Init => Reaching
<1> SUFFICES ASSUME Init PROVE Reaching
  OBVIOUS
<1>1. BaseInv /\ CutOK /\ WantedOnly /\ SettlingInv
  BY BaseInit, WantedInit, SettlingInit DEF Init, CutOK
<1>2. /\ bg = InitialState /\ log = {} /\ wire = <<>> /\ subs = {} /\ clock = 1 /\ subscribed = Founding
      /\ Membership \notin Channels
  BY ClientAssumption DEF Init
<1>3. \A d \in Subs : ~OnIn(bg, d) /\ FromIn(bg, d) = 0 /\ UptoIn(bg, d) = 0 /\ DropIn(bg, d) = 0
  BY <1>2 DEF InitialState, NoStamps, OnIn, FromIn, UptoIn, DropIn, Subs
<1>4. bg.mLast = 0 /\ ~bg.mResub /\ SeenOf(bg.seen) = {}
  BY <1>2 DEF InitialState, NothingSeen, SeenOf
<1>5. StampsOK
  BY <1>2, <1>3, <1>4, FirstCommands DEF StampsOK, StampOf
<1>6. SeenIn /\ ResubOn
  BY <1>4 DEF SeenIn, ResubOn
<1>7. Sent(wire) = {} /\ InOrder(wire)
  BY <1>2 DEF Sent, InOrder
<1>8. Ahead /\ \A d : About(d) = {}
  BY <1>7 DEF Ahead, About
<1>9. ASSUME NEW d \in Subs PROVE AskedOnce(d) /\ Fine(d)
  <2>1. \A k, j \in 1..Len(cmds) : AsksFor(cmds[k], d) /\ AsksFor(cmds[j], d) => j = k
    BY FirstCommands DEF AsksFor
  <2>2. \A k \in 1..Len(cmds) : AsksFor(cmds[k], d) /\ d # Membership => d \in subscribed
    BY <1>2, FirstCommands DEF AsksFor
  <2>3. AskedOnce(d)
    BY <1>3, <2>1, <2>2, FirstCommands DEF AskedOnce
  <2>4. NotDenied(d) /\ Untouched(d) /\ DropDue(d)
    BY <1>2, <1>3, <1>8 DEF NotDenied, Untouched, DropDue
  <2>5. InReach(d)
    BY <1>2 DEF InReach
  <2> QED
    BY <2>3, <2>4, <2>5 DEF Fine
<1> QED
  BY <1>1, <1>5, <1>6, <1>7, <1>8, <1>9 DEF Reaching, ReachInv

LEMMA WantedWithinReach ==
    ASSUME Reaching, CoverInv, NEW i \in log, Wanted(i)
    PROVE  WithinReach(i) \/ i.id \in Excused
<1>1. BaseInv /\ ReachInv /\ LogOK /\ LineOK /\ bg \in States /\ enqueued \in [Ids -> Nat]
  BY DEF Reaching, BaseInv, TaskOK, HarnessOK
<1>2. PICK d : d = SubOf(i)
  OBVIOUS
<1>3. /\ i.ch \in Channels /\ i.id \in Ids /\ i.ts \in Nat /\ d \in Subs
      /\ (i.kind = "event" => d = i.ch) /\ (i.kind # "event" => d = Membership) /\ Membership \notin Channels
  BY <1>1, <1>2, ClientAssumption DEF LogOK, Items, Ids, SubOf, Subs
<1>4. OnIn(bg, d) /\ i.ts >= FromIn(bg, d) /\ Stayed(d)
  BY <1>1, <1>3, NoticesStay DEF Wanted, OnIn, FromIn
<1>5. CASE Awaited(i)
  BY <1>1, <1>5, OnWayAwaited DEF WithinReach
<1>6. CASE enqueued[i.id] > 0
  BY <1>6 DEF WithinReach
<1>7. CASE ~Awaited(i) /\ ~(enqueued[i.id] > 0) /\ i.id \notin Excused
  <2>1. Missing(i)
    BY <1>1, <1>2, <1>3, <1>4, <1>7 DEF Missing
  <2>2. Fine(d)
    BY <1>1, <1>3, <1>4 DEF ReachInv
  <2>3. i.ts >= SinceTs(SinceIn(bg, d))
    BY <1>2, <1>3, <2>1, <2>2, SinceReaches DEF Fine
  <2>4. AskedNext(i)
    BY <1>2, <2>3 DEF AskedNext, NextSince, SinceIn
  <2>5. CASE DropIn(bg, d) \in 1..Reach(i)
    BY <1>2, <1>4, <2>2, <2>4, <2>5 DEF Fine, DropDue, WithinReach
  <2>6. CASE d \notin subs
    <3>1. d \in WantedSubs
      BY <1>4 DEF OnIn, WantedSubs
    <3>2. ResubscribeDue(d)
      BY <2>6, <3>1 DEF CoverInv, Covered
    <3> QED
      BY <1>2, <2>4, <3>2 DEF WithinReach
  <2> QED
    BY <1>2, <2>1, <2>2, <2>5, <2>6 DEF Fine, InReach
<1> QED
  BY <1>5, <1>6, <1>7

\* No membership notice and no event of a subscribed channel the agent was never
\* removed from gets out of reach but in two ways, whatever the relay throttles,
\* closes or refuses, whenever the socket dies or the task gives the connection
\* up, and however full the event channel is: the connection ended before the rest
\* of a replay was read or before a REQ that carried the mark of dropped items
\* arrived, or the relay refused such a REQ.  As in the run, no write of the drain
\* that follows a reconnect times out on a live socket.
THEOREM OnlyCutReplaysMiss ==
    ASSUME "post" \notin SlowSends
    PROVE  Spec => []NothingMissed
<1>1. Init => CoverInv
  BY DEF Init, InitialState, CoverInv, DeadAfterFailure, WantedSubs
<1>2. BaseInv /\ CoverInv /\ [Next]_vars => CoverInv'
  BY CoverStep
<1>3. Reaching /\ [Next]_vars => Reaching'
  BY ReachStep
<1>4. Reaching => BaseInv
  BY DEF Reaching
<1>5. Reaching /\ CoverInv => NothingMissed
  BY WantedWithinReach DEF NothingMissed, Excused
<1> QED
  BY <1>1, <1>2, <1>3, <1>4, <1>5, ReachInit, PTL DEF Spec

=============================================================================
