-------------------------- MODULE ShardSyncProofs --------------------------
(***************************************************************************)
(* Proofs that a shard server makes one snapshot for each tick, that its   *)
(* clients are sent every delta they lack, that a client's own time never  *)
(* goes back nor passes its deltas, that a synchronized client shows the   *)
(* snapshot of its tick, that every variable keeps its type, and that all  *)
(* of this implements WorldReplica.                                        *)
(***************************************************************************)
EXTENDS ShardSync, WellFoundedInduction, TLAPS

(* Null is neither a tick nor a time.                                      *)
LEMMA NullIsBelow == Null \in Int /\ Null < -1 /\ Null < -Steps /\ \A t \in Ticks : t # Null
BY SyncAssumption DEF Null, Ticks

(* The last snapshot is that of the tick before the current one, if there  *)
(* is one, and none was made for the ticks to come.                        *)
LastSnapshotIsKept ==
  /\ tick \in Ticks /\ tick >= 0
  /\ world \in Worlds
  /\ made \in [Ticks -> Worlds \union {NoWorld}]
  /\ \A t \in Ticks : t >= tick => made[t] = NoWorld
  /\ \/ /\ prev = NoSnapshot
        /\ \A t \in Ticks : made[t] = NoWorld
     \/ /\ made[tick - 1] \in Worlds
        /\ prev = Snapshot(tick - 1, made[tick - 1])

(* ShardSynchronizationServer starts with no snapshot.                     *)
LEMMA KeptInit == Init => LastSnapshotIsKept
BY SyncAssumption DEF Init, LastSnapshotIsKept, Ticks, Worlds, NoWorld

(* A step that leaves the server's fields alone keeps the invariant.       *)
LEMMA KeptFrame ==
  LastSnapshotIsKept /\ UNCHANGED <<tick, world, prev, made>> => LastSnapshotIsKept'
BY DEF LastSnapshotIsKept

(* UnpausedTick makes the first snapshot of its tick, and the tick passes. *)
LEMMA KeptUnpausedTick ==
  ASSUME LastSnapshotIsKept, UnpausedTick
  PROVE  LastSnapshotIsKept' /\ \A t \in Ticks : made[t] # NoWorld => made'[t] = made[t]
<1>1. /\ tick \in Nat /\ tick >= 0 /\ tick < MaxTick /\ MaxTick \in Nat
      /\ world \in Worlds
      /\ made \in [Ticks -> Worlds \union {NoWorld}]
      /\ \A t \in Ticks : t >= tick => made[t] = NoWorld
  BY SyncAssumption DEF LastSnapshotIsKept, UnpausedTick, Ticks
<1>2. /\ tick' = tick + 1 /\ world' = world
      /\ made' = [made EXCEPT ![tick] = world]
      /\ prev' = Snapshot(tick, world)
  BY DEF UnpausedTick
<1>3. tick \in Ticks /\ tick' \in Ticks /\ tick' >= 0
  BY <1>1, <1>2 DEF Ticks
<1>4. made'[tick] = world /\ \A t \in Ticks : t # tick => made'[t] = made[t]
  BY <1>1, <1>2, <1>3
<1>5. made' \in [Ticks -> Worlds \union {NoWorld}]
  BY <1>1, <1>2, <1>3
<1>6. \A t \in Ticks : t >= tick' => made'[t] = NoWorld
  BY <1>1, <1>2, <1>4 DEF Ticks
<1>7. made'[tick' - 1] \in Worlds /\ prev' = Snapshot(tick' - 1, made'[tick' - 1])
  <2>1. tick' - 1 = tick
    BY <1>1, <1>2
  <2>2. QED
    BY <2>1, <1>1, <1>2, <1>4
<1>8. world' \in Worlds
  BY <1>1, <1>2
<1>9. LastSnapshotIsKept'
  BY <1>3, <1>5, <1>6, <1>7, <1>8 DEF LastSnapshotIsKept, Ticks, Worlds, Snapshot
<1>10. QED
  BY <1>1, <1>3, <1>4, <1>9 DEF Ticks

(* PausedTick makes the snapshot of the tick before, unless there is one.  *)
LEMMA KeptPausedTick ==
  ASSUME LastSnapshotIsKept, PausedTick
  PROVE  LastSnapshotIsKept' /\ \A t \in Ticks : made[t] # NoWorld => made'[t] = made[t]
<1>1. /\ tick \in Nat /\ tick >= 0 /\ tick \in Ticks /\ tick - 1 \in Ticks
      /\ world \in Worlds
      /\ made \in [Ticks -> Worlds \union {NoWorld}]
      /\ \A t \in Ticks : t >= tick => made[t] = NoWorld
  BY SyncAssumption DEF LastSnapshotIsKept, Ticks
<1>2. /\ tick' = tick /\ world' = world
      /\ prev' = PausedSnapshot
      /\ made' = [made EXCEPT ![PausedSnapshot.tick] = PausedSnapshot.world]
  BY DEF PausedTick, Kept
<1>3. CASE prev = NoSnapshot /\ \A t \in Ticks : made[t] = NoWorld
  <2>1. PausedSnapshot = Snapshot(tick - 1, world)
    BY <1>3 DEF PausedSnapshot
  <2>2. made' = [made EXCEPT ![tick - 1] = world]
    BY <1>2, <2>1 DEF Snapshot
  <2>3. made'[tick - 1] = world /\ \A t \in Ticks : t # tick - 1 => made'[t] = made[t]
    BY <1>1, <2>2
  <2>4. made' \in [Ticks -> Worlds \union {NoWorld}]
    BY <1>1, <2>2
  <2>5. \A t \in Ticks : t >= tick' => made'[t] = NoWorld
    BY <1>1, <1>2, <2>3 DEF Ticks
  <2>6. made'[tick' - 1] \in Worlds /\ prev' = Snapshot(tick' - 1, made'[tick' - 1])
    BY <1>1, <1>2, <2>1, <2>3
  <2>7. tick' \in Ticks /\ tick' >= 0 /\ world' \in Worlds
    BY <1>1, <1>2
  <2>8. LastSnapshotIsKept'
    BY <2>4, <2>5, <2>6, <2>7 DEF LastSnapshotIsKept, Ticks, Worlds, Snapshot
  <2>9. QED
    BY <1>3, <2>8
<1>4. CASE made[tick - 1] \in Worlds /\ prev = Snapshot(tick - 1, made[tick - 1])
  <2>1. PausedSnapshot = prev
    <3>1. tick - 1 # Null
      BY <1>1, NullIsBelow
    <3> QED BY <3>1, <1>4 DEF PausedSnapshot, Snapshot, NoSnapshot
  <2>2. PausedSnapshot.tick = tick - 1 /\ PausedSnapshot.world = made[tick - 1]
    BY <1>4, <2>1 DEF Snapshot
  <2>3. made' = made
    BY <1>1, <1>2, <2>2
  <2>4. QED
    BY <1>2, <2>1, <2>3, KeptFrame
<1>5. QED
  BY <1>3, <1>4 DEF LastSnapshotIsKept

(* ChangeWorld changes the world and no snapshot.                          *)
LEMMA KeptChangeWorld ==
  ASSUME LastSnapshotIsKept, ChangeWorld
  PROVE  LastSnapshotIsKept' /\ made' = made
<1>1. world' \in Worlds
  BY SyncAssumption DEF LastSnapshotIsKept, ChangeWorld, Worlds
<1>2. QED
  BY <1>1 DEF ChangeWorld, LastSnapshotIsKept

(* No other step touches the snapshots.                                    *)
LEMMA OtherStepsKeepSnapshots ==
  ASSUME Next, ~UnpausedTick, ~PausedTick, ~ChangeWorld
  PROVE  UNCHANGED <<tick, world, prev, made>>
<1>1. CASE StartSession \/ EndSession
  BY <1>1 DEF StartSession, EndSession
<1>2. ASSUME NEW c \in Clients,
             \/ PeerConnected(c) \/ ReceiveSnapshotRequest(c)
             \/ Connect(c) \/ Disconnect(c)
      PROVE  UNCHANGED <<tick, world, prev, made>>
  BY <1>2 DEF PeerConnected, ReceiveSnapshotRequest, Connect, Disconnect, serverVars
<1>3. ASSUME NEW c \in Clients, ClientStep(c)
      PROVE  UNCHANGED <<tick, world, prev, made>>
  BY <1>3 DEF ClientStep, ReceiveSnapshot, ReceiveDelta, LoseSnapshot, FallBehind,
              Desynchronize, WaitFrame, AdvanceFrame, serverVars
<1>4. QED
  BY <1>1, <1>2, <1>3 DEF Next, ServerStep

(* Every step keeps the invariant and the snapshots that were made.        *)
LEMMA KeptNext ==
  ASSUME LastSnapshotIsKept, [Next]_vars
  PROVE  LastSnapshotIsKept' /\ \A t \in Ticks : made[t] # NoWorld => made'[t] = made[t]
<1>1. CASE UnpausedTick
  BY <1>1, KeptUnpausedTick
<1>2. CASE PausedTick
  BY <1>2, KeptPausedTick
<1>3. CASE ChangeWorld
  BY <1>3, KeptChangeWorld
<1>4. CASE UNCHANGED vars
  BY <1>4, KeptFrame DEF vars, serverVars
<1>5. CASE Next /\ ~UnpausedTick /\ ~PausedTick /\ ~ChangeWorld
  BY <1>5, OtherStepsKeepSnapshots, KeptFrame
<1>6. QED
  BY <1>1, <1>2, <1>3, <1>4, <1>5

(* One snapshot is made for a tick and never another, whatever the number  *)
(* of clients, of ticks and of changes made to the world while the shard   *)
(* is paused (ShardSynchronizationServer.Tick).                            *)
THEOREM SnapshotsAreUnique == Spec => OneSnapshotPerTick
<1>1. LastSnapshotIsKept /\ [Next]_vars => LastSnapshotIsKept'
  BY KeptNext
<1>2. LastSnapshotIsKept /\ [Next]_vars
        => [\A t \in Ticks : made[t] # NoWorld => made'[t] = made[t]]_vars
  BY KeptNext
<1>3. QED
  BY <1>1, <1>2, KeptInit, PTL DEF Spec, OneSnapshotPerTick

-----------------------------------------------------------------------------
(***************************************************************************)
(* No delta is missing.                                                    *)
(***************************************************************************)

IsDelta(p) == p.type = "Delta"

(* Behind position i of a queue there is a delta for every tick from first *)
(* to last.                                                                *)
HasDeltas(q, i, first, last) ==
  \A t \in first..last : \E j \in i + 1..Len(q) : IsDelta(q[j]) /\ q[j].tick = t

(* The packets under way to a client, when `last' is the last tick passed: *)
(* deltas are in the order of their ticks, and those that a snapshot lacks *)
(* are behind it.                                                          *)
QueueOK(q, last) ==
  /\ q \in Seq(Packet)
  /\ \A j \in 1..Len(q) : IsDelta(q[j]) => q[j].tick <= last
  /\ \A i, j \in 1..Len(q) : i < j /\ IsDelta(q[i]) /\ IsDelta(q[j]) => q[i].tick < q[j].tick
  /\ \A i \in 1..Len(q) : ~IsDelta(q[i]) => HasDeltas(q, i, q[i].tick + 1, last)

SyncDataOK ==
  /\ DOMAIN sync = Clients /\ DOMAIN state = Clients
  /\ \A c \in Clients :
       /\ {"tick", "last", "snapshot", "received", "ring", "history"} \subseteq DOMAIN sync[c]
       /\ sync[c].last \in Int /\ sync[c].snapshot \in Int /\ sync[c].received \in Nat
       /\ state[c] = "Desynchronized" => sync[c].received = 0

(* A client with a snapshot is sent every delta it lacks; before the first *)
(* snapshot nobody has one.                                                *)
DeltasAreSent ==
  /\ DOMAIN toClient = Clients
  /\ \A c \in Clients :
       /\ QueueOK(toClient[c], tick - 1)
       /\ c \notin connected => toClient[c] = <<>>
       /\ c \in connected /\ state[c] # "Desynchronized" =>
            HasDeltas(toClient[c], 0, ExpectedTick(c), tick - 1)
       /\ prev = NoSnapshot => toClient[c] = <<>> /\ state[c] = "Desynchronized"

GapInv == LastSnapshotIsKept /\ SyncDataOK /\ DeltasAreSent

(* Packets have integer ticks.                                             *)
LEMMA PacketTicks == \A p \in Packet : p.tick \in Int /\ p.type \in {"Snapshot", "Delta"}
BY SyncAssumption DEF Packet, Ticks

LEMMA EmptyQueue == \A last \in Int : QueueOK(<<>>, last)
BY DEF QueueOK

(* What is left when the first packet is taken.                            *)
LEMMA TailOfQueue ==
  ASSUME NEW q, NEW last \in Int, QueueOK(q, last), q # <<>>
  PROVE  /\ QueueOK(Tail(q), last)
         /\ Head(q) = q[1] /\ q[1] \in Packet
         /\ \A first \in Int :
              HasDeltas(q, 0, first, last) /\ (IsDelta(q[1]) => q[1].tick < first)
                => HasDeltas(Tail(q), 0, first, last)
         /\ ~IsDelta(q[1]) => HasDeltas(Tail(q), 0, q[1].tick + 1, last)
<1> DEFINE r == Tail(q)
<1>1. q \in Seq(Packet) /\ Len(q) \in Nat /\ Len(q) >= 1
  BY DEF QueueOK
<1>2. r \in Seq(Packet) /\ Len(r) = Len(q) - 1 /\ \A j \in 1..Len(r) : r[j] = q[j + 1]
  BY <1>1
<1>3. Head(q) = q[1] /\ q[1] \in Packet
  BY <1>1
<1> HIDE DEF r
<1>4. \A i \in 0..Len(r), first \in Int :
        HasDeltas(q, i + 1, first, last) => HasDeltas(r, i, first, last)
  <2> SUFFICES ASSUME NEW i \in 0..Len(r), NEW first \in Int,
                      HasDeltas(q, i + 1, first, last), NEW t \in first..last
               PROVE  \E j \in i + 1..Len(r) : IsDelta(r[j]) /\ r[j].tick = t
    BY DEF HasDeltas
  <2>1. PICK k \in i + 2..Len(q) : IsDelta(q[k]) /\ q[k].tick = t
    BY DEF HasDeltas
  <2>2. k - 1 \in i + 1..Len(r) /\ r[k - 1] = q[k]
    BY <1>1, <1>2
  <2> QED BY <2>1, <2>2
<1>5. QueueOK(r, last)
  <2>1. \A j \in 1..Len(r) : IsDelta(r[j]) => r[j].tick <= last
    BY <1>1, <1>2 DEF QueueOK
  <2>2. \A i, j \in 1..Len(r) : i < j /\ IsDelta(r[i]) /\ IsDelta(r[j]) => r[i].tick < r[j].tick
    <3> SUFFICES ASSUME NEW i \in 1..Len(r), NEW j \in 1..Len(r), i < j, IsDelta(r[i]), IsDelta(r[j])
                 PROVE  r[i].tick < r[j].tick
      OBVIOUS
    <3>1. i + 1 \in 1..Len(q) /\ j + 1 \in 1..Len(q) /\ i + 1 < j + 1
      BY <1>1, <1>2
    <3> QED BY <1>2, <3>1 DEF QueueOK
  <2>3. \A i \in 1..Len(r) : ~IsDelta(r[i]) => HasDeltas(r, i, r[i].tick + 1, last)
    <3> SUFFICES ASSUME NEW i \in 1..Len(r), ~IsDelta(r[i])
                 PROVE  HasDeltas(r, i, r[i].tick + 1, last)
      OBVIOUS
    <3>1. i + 1 \in 1..Len(q) /\ r[i] = q[i + 1]
      BY <1>1, <1>2
    <3>2. HasDeltas(q, i + 1, r[i].tick + 1, last)
      BY <3>1 DEF QueueOK
    <3>3. r[i].tick + 1 \in Int
      BY <1>2, PacketTicks
    <3> QED BY <1>4, <3>2, <3>3, <1>1, <1>2
  <2> QED BY <1>2, <2>1, <2>2, <2>3 DEF QueueOK
<1>6. ASSUME NEW first \in Int, HasDeltas(q, 0, first, last), IsDelta(q[1]) => q[1].tick < first
      PROVE  HasDeltas(q, 1, first, last)
  <2> SUFFICES ASSUME NEW t \in first..last
               PROVE  \E j \in 2..Len(q) : IsDelta(q[j]) /\ q[j].tick = t
    BY DEF HasDeltas
  <2>1. PICK j \in 1..Len(q) : IsDelta(q[j]) /\ q[j].tick = t
    BY <1>6 DEF HasDeltas
  <2>2. q[1].tick \in Int
    BY <1>3, PacketTicks
  <2>3. j # 1
    BY <1>6, <2>1, <2>2
  <2> QED BY <1>1, <2>1, <2>3
<1>7. ~IsDelta(q[1]) => HasDeltas(q, 1, q[1].tick + 1, last) /\ q[1].tick + 1 \in Int
  BY <1>1, <1>3, PacketTicks DEF QueueOK
<1> QED BY <1>1, <1>2, <1>3, <1>4, <1>5, <1>6, <1>7 DEF r

(* The first delta of a queue is not later than the one that is expected.  *)
LEMMA NextIsExpected ==
  ASSUME NEW q, NEW last \in Int, NEW expected \in Int, QueueOK(q, last), q # <<>>,
         HasDeltas(q, 0, expected, last), IsDelta(q[1])
  PROVE  q[1].tick <= expected
<1>1. q \in Seq(Packet) /\ 1 \in 1..Len(q) /\ q[1].tick \in Int /\ q[1].tick <= last
  BY PacketTicks DEF QueueOK
<1>2. CASE expected > last
  BY <1>1, <1>2
<1>3. CASE expected <= last
  <2>1. PICK j \in 1..Len(q) : IsDelta(q[j]) /\ q[j].tick = expected
    BY <1>3 DEF HasDeltas
  <2> QED BY <1>1, <2>1 DEF QueueOK
<1> QED BY <1>2, <1>3

(* A snapshot of the last tick, or a later one, is sent.                   *)
LEMMA SnapshotSent ==
  ASSUME NEW q, NEW last \in Int, QueueOK(q, last),
         NEW p \in Packet, ~IsDelta(p), p.tick >= last
  PROVE  /\ QueueOK(Append(q, p), last)
         /\ \A first \in Int : HasDeltas(q, 0, first, last) => HasDeltas(Append(q, p), 0, first, last)
<1> DEFINE r == Append(q, p)
<1>1. /\ q \in Seq(Packet) /\ Len(q) \in Nat /\ r \in Seq(Packet) /\ Len(r) = Len(q) + 1
      /\ r[Len(r)] = p /\ \A j \in 1..Len(q) : r[j] = q[j]
  BY DEF QueueOK
<1> HIDE DEF r
<1>2. \A i \in 0..Len(q), first \in Int : HasDeltas(q, i, first, last) => HasDeltas(r, i, first, last)
  <2> SUFFICES ASSUME NEW i \in 0..Len(q), NEW first \in Int,
                      HasDeltas(q, i, first, last), NEW t \in first..last
               PROVE  \E j \in i + 1..Len(r) : IsDelta(r[j]) /\ r[j].tick = t
    BY DEF HasDeltas
  <2>1. PICK k \in i + 1..Len(q) : IsDelta(q[k]) /\ q[k].tick = t
    BY DEF HasDeltas
  <2> QED BY <1>1, <2>1
<1>3. \A j \in 1..Len(r) : j \in 1..Len(q) \/ j = Len(r)
  BY <1>1
<1>4. \A j \in 1..Len(r) : IsDelta(r[j]) => j \in 1..Len(q) /\ r[j] = q[j]
  BY <1>1, <1>3
<1>5. \A j \in 1..Len(r) : IsDelta(r[j]) => r[j].tick <= last
  BY <1>4 DEF QueueOK
<1>6. \A i, j \in 1..Len(r) : i < j /\ IsDelta(r[i]) /\ IsDelta(r[j]) => r[i].tick < r[j].tick
  BY <1>4 DEF QueueOK
<1>7. \A i \in 1..Len(r) : ~IsDelta(r[i]) => HasDeltas(r, i, r[i].tick + 1, last)
  <2> SUFFICES ASSUME NEW i \in 1..Len(r), ~IsDelta(r[i])
               PROVE  HasDeltas(r, i, r[i].tick + 1, last)
    OBVIOUS
  <2>1. CASE i \in 1..Len(q)
    <3>1. HasDeltas(q, i, r[i].tick + 1, last) /\ r[i].tick + 1 \in Int
      BY <1>1, <2>1, PacketTicks DEF QueueOK
    <3> QED BY <1>1, <1>2, <2>1, <3>1
  <2>2. CASE i = Len(r)
    <3>1. r[i].tick + 1 > last /\ r[i].tick + 1 \in Int
      BY <1>1, <2>2, PacketTicks
    <3> QED BY <3>1 DEF HasDeltas
  <2> QED BY <1>3, <2>1, <2>2
<1>8. QueueOK(r, last)
  BY <1>1, <1>5, <1>6, <1>7 DEF QueueOK
<1> QED BY <1>1, <1>2, <1>8 DEF r

(* The delta of the next tick is sent, and the tick passes.                *)
LEMMA DeltaSent ==
  ASSUME NEW q, NEW last \in Int, QueueOK(q, last),
         NEW p \in Packet, IsDelta(p), p.tick = last + 1
  PROVE  /\ QueueOK(Append(q, p), last + 1)
         /\ \A first \in Int :
              HasDeltas(q, 0, first, last) => HasDeltas(Append(q, p), 0, first, last + 1)
<1> DEFINE r == Append(q, p)
<1>1. /\ q \in Seq(Packet) /\ Len(q) \in Nat /\ r \in Seq(Packet) /\ Len(r) = Len(q) + 1
      /\ r[Len(r)] = p /\ \A j \in 1..Len(q) : r[j] = q[j]
  BY DEF QueueOK
<1> HIDE DEF r
<1>2. \A i \in 0..Len(q), first \in Int :
        HasDeltas(q, i, first, last) => HasDeltas(r, i, first, last + 1)
  <2> SUFFICES ASSUME NEW i \in 0..Len(q), NEW first \in Int,
                      HasDeltas(q, i, first, last), NEW t \in first..last + 1
               PROVE  \E j \in i + 1..Len(r) : IsDelta(r[j]) /\ r[j].tick = t
    BY DEF HasDeltas
  <2>1. CASE t = last + 1
    BY <1>1, <2>1
  <2>2. CASE t # last + 1
    <3>1. PICK k \in i + 1..Len(q) : IsDelta(q[k]) /\ q[k].tick = t
      BY <2>2 DEF HasDeltas
    <3> QED BY <1>1, <3>1
  <2> QED BY <2>1, <2>2
<1>3. \A j \in 1..Len(r) : (j \in 1..Len(q) /\ r[j] = q[j]) \/ (j = Len(r) /\ r[j] = p)
  <2>1. \A j \in 1..Len(r) : j \in 1..Len(q) \/ j = Len(r)
    BY <1>1
  <2> QED BY <1>1, <2>1
<1>4. \A j \in 1..Len(q) : IsDelta(q[j]) => q[j].tick <= last /\ q[j].tick \in Int
  BY <1>1, PacketTicks DEF QueueOK
<1>5. \A j \in 1..Len(r) : IsDelta(r[j]) => r[j].tick <= last + 1
  BY <1>3, <1>4
<1>6. \A i, j \in 1..Len(r) : i < j /\ IsDelta(r[i]) /\ IsDelta(r[j]) => r[i].tick < r[j].tick
  <2> SUFFICES ASSUME NEW i \in 1..Len(r), NEW j \in 1..Len(r), i < j, IsDelta(r[i]), IsDelta(r[j])
               PROVE  r[i].tick < r[j].tick
    OBVIOUS
  <2>1. i \in 1..Len(q) /\ r[i] = q[i]
    BY <1>1, <1>3
  <2>2. CASE j = Len(r)
    BY <1>1, <1>4, <2>1, <2>2
  <2>3. CASE j \in 1..Len(q) /\ r[j] = q[j]
    BY <2>1, <2>3 DEF QueueOK
  <2> QED BY <1>3, <2>2, <2>3
<1>7. \A i \in 1..Len(r) : ~IsDelta(r[i]) => HasDeltas(r, i, r[i].tick + 1, last + 1)
  <2> SUFFICES ASSUME NEW i \in 1..Len(r), ~IsDelta(r[i])
               PROVE  HasDeltas(r, i, r[i].tick + 1, last + 1)
    OBVIOUS
  <2>1. i \in 1..Len(q) /\ r[i] = q[i]
    BY <1>3
  <2>2. HasDeltas(q, i, r[i].tick + 1, last) /\ r[i].tick + 1 \in Int
    BY <1>1, <2>1, PacketTicks DEF QueueOK
  <2> QED BY <1>1, <1>2, <2>1, <2>2
<1>8. QueueOK(r, last + 1)
  BY <1>1, <1>5, <1>6, <1>7 DEF QueueOK
<1> QED BY <1>1, <1>2, <1>8 DEF r

(* ------------------------------ the steps ------------------------------ *)

LEMMA GapInit == Init => GapInv
<1> SUFFICES ASSUME Init PROVE GapInv
  OBVIOUS
<1>1. SyncDataOK
  BY NullIsBelow DEF Init, SyncDataOK, NewSyncData
<1>2. tick - 1 \in Int
  BY SyncAssumption DEF Init
<1>3. DeltasAreSent
  BY <1>2, EmptyQueue DEF Init, DeltasAreSent
<1> QED BY <1>1, <1>3, KeptInit DEF GapInv

(* What the server sends to a client, in a step that sends snapshot p and  *)
(* at most one delta.                                                      *)
LEMMA SendTypes ==
  ASSUME GapInv, NEW p, NEW ds, NEW c \in Clients
  PROVE  Send(p, ds)[c] = toClient[c] \o (IF c \in connected \intersect requesters THEN <<p>> ELSE <<>>)
                                      \o (IF c \in connected THEN ds ELSE <<>>)
BY DEF Send, Receivers

(* Append, as the concatenation that Send makes.                           *)
LEMMA Concatenated ==
  ASSUME NEW q \in Seq(Packet), NEW p \in Packet
  PROVE  q \o <<p>> = Append(q, p) /\ q \o <<>> = q /\ Append(q, p) \in Seq(Packet)
OBVIOUS

(* The snapshots that the server makes.                                    *)
LEMMA SnapshotsMade ==
  ASSUME LastSnapshotIsKept
  PROVE  /\ tick \in Int /\ tick >= 0
         /\ Snapshot(tick, world) \in Packet /\ ~IsDelta(Snapshot(tick, world))
         /\ Snapshot(tick, world).tick = tick
         /\ PausedSnapshot \in Packet /\ ~IsDelta(PausedSnapshot)
         /\ PausedSnapshot.tick = tick - 1
         /\ prev # NoSnapshot =>
              /\ Delta(tick, prev.world, world) \in Packet
              /\ IsDelta(Delta(tick, prev.world, world))
              /\ Delta(tick, prev.world, world).tick = tick
<1>1. tick \in Ticks /\ tick - 1 \in Ticks /\ tick \in Int /\ tick >= 0 /\ world \in Worlds
  BY SyncAssumption DEF LastSnapshotIsKept, Ticks
<1>2. \A t \in Ticks, w \in Worlds :
        /\ Snapshot(t, w) \in Packet /\ Snapshot(t, w).tick = t /\ ~IsDelta(Snapshot(t, w))
        /\ Snapshot(t, w).world = w
  BY DEF Snapshot, Packet, IsDelta
<1>3. \A t \in Ticks, v, w \in Worlds :
        /\ Delta(t, v, w) \in Packet /\ Delta(t, v, w).tick = t /\ IsDelta(Delta(t, v, w))
  BY DEF Delta, Packet, IsDelta
<1>4. CASE prev = NoSnapshot
  BY <1>1, <1>2, <1>4 DEF PausedSnapshot
<1>5. CASE /\ prev # NoSnapshot
           /\ made[tick - 1] \in Worlds /\ prev = Snapshot(tick - 1, made[tick - 1])
  <2>1. PausedSnapshot = prev /\ prev.world \in Worlds
    BY <1>1, <1>2, <1>5 DEF PausedSnapshot
  <2> QED BY <1>1, <1>2, <1>3, <1>5, <2>1
<1> QED BY <1>4, <1>5 DEF LastSnapshotIsKept

(* No other snapshot is NoSnapshot.                                        *)
LEMMA SnapshotIsMade == \A p \in Packet : p # NoSnapshot
BY SyncAssumption DEF NoSnapshot, Snapshot, Packet, Ticks, Worlds, Null

(* Steps that leave queues and clients alone.                              *)
LEMMA ServerKept ==
  ASSUME GapInv, LastSnapshotIsKept', UNCHANGED <<tick, prev, connected, toClient, state, sync>>
  PROVE  GapInv'
BY DEF GapInv, SyncDataOK, DeltasAreSent, ExpectedTick

LEMMA GapUnpausedTick == ASSUME GapInv, UnpausedTick PROVE GapInv'
<1> DEFINE p == Snapshot(tick, world)
           d == Delta(tick, prev.world, world)
           ds == IF prev = NoSnapshot THEN <<>> ELSE <<d>>
<1>1. LastSnapshotIsKept'
  BY KeptUnpausedTick DEF GapInv
<1>2. SyncDataOK'
  BY DEF GapInv, SyncDataOK, UnpausedTick, clientVars
<1>3. tick' = tick + 1 /\ prev' = p /\ UNCHANGED <<connected, state, sync>>
      /\ toClient' = Send(p, ds)
  BY DEF UnpausedTick, clientVars
<1>4. /\ tick \in Int /\ p \in Packet /\ ~IsDelta(p) /\ p.tick = tick
      /\ prev # NoSnapshot => d \in Packet /\ IsDelta(d) /\ d.tick = tick
  BY SnapshotsMade DEF GapInv
<1>5. prev' # NoSnapshot
  BY <1>3, <1>4, SnapshotIsMade
<1> HIDE DEF p, d
<1>6. ASSUME NEW c \in Clients
      PROVE  /\ QueueOK(toClient'[c], tick)
             /\ c \notin connected => toClient'[c] = <<>>
             /\ c \in connected /\ state[c] # "Desynchronized" =>
                  HasDeltas(toClient'[c], 0, ExpectedTick(c), tick)
  <2> DEFINE q == toClient[c]
             r == q \o (IF c \in connected \intersect requesters THEN <<p>> ELSE <<>>)
  <2>1. /\ QueueOK(q, tick - 1)
        /\ c \notin connected => q = <<>>
        /\ c \in connected /\ state[c] # "Desynchronized" =>
             HasDeltas(q, 0, ExpectedTick(c), tick - 1)
        /\ prev = NoSnapshot => q = <<>> /\ state[c] = "Desynchronized"
    BY DEF GapInv, DeltasAreSent
  <2>2. ExpectedTick(c) \in Int
    BY DEF GapInv, SyncDataOK, ExpectedTick
  <2>3. q \in Seq(Packet)
    BY <2>1 DEF QueueOK
  <2>4. toClient'[c] = r \o (IF c \in connected THEN ds ELSE <<>>)
    BY <1>3, SendTypes
  <2> HIDE DEF q
  <2>5. r = IF c \in connected \intersect requesters THEN Append(q, p) ELSE q
    BY <1>4, <2>3, Concatenated
  <2> HIDE DEF r
  <2>6. /\ QueueOK(r, tick - 1)
        /\ c \in connected /\ state[c] # "Desynchronized" =>
             HasDeltas(r, 0, ExpectedTick(c), tick - 1)
    BY <1>4, <2>1, <2>2, <2>5, SnapshotSent
  <2>7. r \in Seq(Packet)
    BY <2>6 DEF QueueOK
  <2>8. CASE c \notin connected
    <3>1. toClient'[c] = <<>>
      BY <2>1, <2>4, <2>5, <2>8
    <3> QED BY <1>4, <2>8, <3>1, EmptyQueue
  <2>9. CASE c \in connected /\ prev # NoSnapshot
    <3>1. toClient'[c] = Append(r, d)
      BY <1>4, <2>4, <2>7, <2>9, Concatenated
    <3>2. (tick - 1) + 1 = tick /\ tick - 1 \in Int
      BY <1>4
    <3> QED BY <1>4, <2>2, <2>6, <2>9, <3>1, <3>2, DeltaSent
  <2>10. CASE c \in connected /\ prev = NoSnapshot
    <3>1. toClient'[c] = r
      BY <1>4, <2>4, <2>7, <2>10, Concatenated
    <3>2. QueueOK(<<>>, tick)
      BY <1>4, EmptyQueue
    <3>3. q = <<>> /\ p.tick >= tick
      BY <1>4, <2>1, <2>10
    <3>4. QueueOK(r, tick)
      BY <1>4, <2>5, <3>2, <3>3, SnapshotSent
    <3> QED BY <2>1, <2>10, <3>1, <3>4
  <2> QED BY <2>8, <2>9, <2>10
<1>7. DOMAIN toClient' = Clients
  BY <1>3 DEF Send
<1>8. tick' - 1 = tick
  BY <1>3, <1>4
<1>9. \A c \in Clients : ExpectedTick(c)' = ExpectedTick(c)
  BY <1>3 DEF ExpectedTick
<1>10. DeltasAreSent'
  BY <1>3, <1>5, <1>6, <1>7, <1>8, <1>9 DEF DeltasAreSent
<1> QED BY <1>1, <1>2, <1>10 DEF GapInv

LEMMA GapPausedTick == ASSUME GapInv, PausedTick PROVE GapInv'
<1> DEFINE p == PausedSnapshot
<1>1. LastSnapshotIsKept'
  BY KeptPausedTick DEF GapInv
<1>2. SyncDataOK'
  BY DEF GapInv, SyncDataOK, PausedTick, clientVars
<1>3. prev' = p /\ UNCHANGED <<tick, connected, state, sync>> /\ toClient' = Send(p, <<>>)
  BY DEF PausedTick, clientVars, Kept
<1>4. tick \in Int /\ p \in Packet /\ ~IsDelta(p) /\ p.tick = tick - 1
  BY SnapshotsMade DEF GapInv
<1>5. prev' # NoSnapshot
  BY <1>3, <1>4, SnapshotIsMade
<1> HIDE DEF p
<1>6. ASSUME NEW c \in Clients
      PROVE  /\ QueueOK(toClient'[c], tick - 1)
             /\ c \notin connected => toClient'[c] = <<>>
             /\ c \in connected /\ state[c] # "Desynchronized" =>
                  HasDeltas(toClient'[c], 0, ExpectedTick(c), tick - 1)
  <2> DEFINE q == toClient[c]
  <2>1. /\ QueueOK(q, tick - 1)
        /\ c \notin connected => q = <<>>
        /\ c \in connected /\ state[c] # "Desynchronized" =>
             HasDeltas(q, 0, ExpectedTick(c), tick - 1)
    BY DEF GapInv, DeltasAreSent
  <2>2. ExpectedTick(c) \in Int
    BY DEF GapInv, SyncDataOK, ExpectedTick
  <2>3. q \in Seq(Packet)
    BY <2>1 DEF QueueOK
  <2>4. toClient'[c] = q \o (IF c \in connected \intersect requesters THEN <<p>> ELSE <<>>) \o <<>>
    BY <1>3, SendTypes
  <2> HIDE DEF q
  <2>5. toClient'[c] = IF c \in connected \intersect requesters THEN Append(q, p) ELSE q
    BY <1>4, <2>3, <2>4, Concatenated
  <2> QED BY <1>4, <2>1, <2>2, <2>5, SnapshotSent
<1>7. DOMAIN toClient' = Clients
  BY <1>3 DEF Send
<1>8. \A c \in Clients : ExpectedTick(c)' = ExpectedTick(c)
  BY <1>3 DEF ExpectedTick
<1>9. DeltasAreSent'
  BY <1>3, <1>5, <1>6, <1>7, <1>8 DEF DeltasAreSent
<1> QED BY <1>1, <1>2, <1>9 DEF GapInv

(* A client that connects has a snapshot to wait for, and one that         *)
(* disconnects is sent nothing.                                            *)
LEMMA GapConnections ==
  ASSUME GapInv, NEW c \in Clients, Connect(c) \/ Disconnect(c) PROVE GapInv'
<1>1. LastSnapshotIsKept'
  BY KeptFrame DEF Connect, Disconnect, serverVars, GapInv
<1>2. SyncDataOK'
  <2>1. CASE Connect(c)
    <3>1. /\ sync' = [sync EXCEPT ![c] = NewSyncData]
          /\ state' = [state EXCEPT ![c] = "Desynchronized"]
      BY <2>1 DEF Connect
    <3>2. /\ {"tick", "last", "snapshot", "received", "ring", "history"} \subseteq DOMAIN NewSyncData
          /\ NewSyncData.last \in Int /\ NewSyncData.snapshot \in Int /\ NewSyncData.received = 0
      BY NullIsBelow DEF NewSyncData
    <3> QED BY <3>1, <3>2 DEF GapInv, SyncDataOK
  <2>2. CASE Disconnect(c)
    BY <2>2 DEF GapInv, SyncDataOK, Disconnect, clientVars
  <2> QED BY <2>1, <2>2
<1>3. tick - 1 \in Int /\ tick' = tick /\ prev' = prev
  BY SnapshotsMade DEF GapInv, Connect, Disconnect, serverVars
<1>4. ASSUME NEW b \in Clients, b # c
      PROVE  /\ toClient'[b] = toClient[b] /\ (b \in connected' <=> b \in connected)
             /\ state'[b] = state[b] /\ ExpectedTick(b)' = ExpectedTick(b)
  BY <1>4 DEF Connect, Disconnect, clientVars, GapInv, SyncDataOK, DeltasAreSent, ExpectedTick
<1>5. /\ toClient'[c] = <<>> /\ (c \in connected' => state'[c] = "Desynchronized")
      /\ state'[c] = "Desynchronized" \/ state'[c] = state[c]
      /\ DOMAIN toClient' = Clients
  BY DEF Connect, Disconnect, clientVars, GapInv, SyncDataOK, DeltasAreSent
<1>6. DeltasAreSent'
  <2> SUFFICES ASSUME NEW b \in Clients
               PROVE  /\ QueueOK(toClient'[b], tick - 1)
                      /\ b \notin connected' => toClient'[b] = <<>>
                      /\ b \in connected' /\ state'[b] # "Desynchronized" =>
                           HasDeltas(toClient'[b], 0, ExpectedTick(b)', tick - 1)
                      /\ prev = NoSnapshot => toClient'[b] = <<>> /\ state'[b] = "Desynchronized"
    BY <1>3, <1>5 DEF DeltasAreSent
  <2>1. CASE b = c
    BY <1>3, <1>5, <2>1, EmptyQueue DEF GapInv, DeltasAreSent
  <2>2. CASE b # c
    BY <1>4, <2>2 DEF GapInv, DeltasAreSent
  <2> QED BY <2>1, <2>2
<1> QED BY <1>1, <1>2, <1>6 DEF GapInv

(* A step of a client that leaves its packets alone, and what it expects:  *)
(* it loses its snapshot, or a frame passes.                               *)
LEMMA GapFrames ==
  ASSUME GapInv, NEW c \in Clients,
         \/ LoseSnapshot(c) \/ FallBehind(c)
         \/ \E n \in 1..MaxFrame : WaitFrame(c, n) \/ AdvanceFrame(c, n)
  PROVE  GapInv'
<1>1. UNCHANGED <<tick, world, prev, made, connected, toClient>>
  BY DEF LoseSnapshot, FallBehind, Desynchronize, WaitFrame, AdvanceFrame, serverVars, netVars
<1>2. LastSnapshotIsKept'
  BY <1>1, KeptFrame DEF GapInv
<1>3. /\ DOMAIN sync' = Clients /\ DOMAIN state' = Clients
      /\ \A b \in Clients : b # c => sync'[b] = sync[b] /\ state'[b] = state[b]
  BY DEF LoseSnapshot, FallBehind, Desynchronize, WaitFrame, AdvanceFrame, InFrame, GapInv, SyncDataOK
<1>4. \/ /\ state'[c] = "Desynchronized" /\ sync'[c] = NewSyncData
      \/ /\ state[c] # "Desynchronized" /\ state'[c] = "Synchronized"
         /\ sync'[c].last = sync[c].last /\ sync'[c].snapshot = sync[c].snapshot
         /\ sync'[c].received = sync[c].received /\ DOMAIN sync'[c] = DOMAIN sync[c]
  <2>1. CASE LoseSnapshot(c) \/ FallBehind(c)
    BY <2>1 DEF LoseSnapshot, FallBehind, Desynchronize, GapInv, SyncDataOK
  <2>2. CASE \E n \in 1..MaxFrame : WaitFrame(c, n) \/ AdvanceFrame(c, n)
    <3>1. PICK n \in 1..MaxFrame : WaitFrame(c, n) \/ AdvanceFrame(c, n)
      BY <2>2
    <3>2. state[c] # "Desynchronized" /\ state'[c] = "Synchronized"
      BY <3>1 DEF WaitFrame, AdvanceFrame, InFrame, CanProcess, GapInv, SyncDataOK
    <3>3. \E t, h : sync' = [sync EXCEPT ![c].tick = t, ![c].history = h]
      <4>1. CASE WaitFrame(c, n)
        BY <4>1 DEF WaitFrame, GapInv, SyncDataOK
      <4>2. CASE AdvanceFrame(c, n)
        BY <4>2 DEF AdvanceFrame
      <4> QED BY <3>1, <4>1, <4>2
    <3>4. PICK t, h : sync' = [sync EXCEPT ![c].tick = t, ![c].history = h]
      BY <3>3
    <3> QED BY <3>2, <3>4 DEF GapInv, SyncDataOK
  <2> QED BY <2>1, <2>2
<1>5. /\ {"tick", "last", "snapshot", "received", "ring", "history"} \subseteq DOMAIN NewSyncData
      /\ NewSyncData.last \in Int /\ NewSyncData.snapshot \in Int /\ NewSyncData.received = 0
  BY NullIsBelow DEF NewSyncData
<1>6. SyncDataOK'
  BY <1>3, <1>4, <1>5 DEF GapInv, SyncDataOK
<1>7. \A b \in Clients :
        state'[b] # "Desynchronized" =>
          state[b] # "Desynchronized" /\ ExpectedTick(b)' = ExpectedTick(b)
  BY <1>3, <1>4 DEF ExpectedTick
<1>8. DeltasAreSent'
  BY <1>1, <1>7 DEF GapInv, DeltasAreSent
<1> QED BY <1>2, <1>6, <1>8 DEF GapInv

(* What a client expects of the packets that are left when it takes one.   *)
LEMMA GapReceive ==
  ASSUME GapInv, NEW c \in Clients, ReceiveSnapshot(c) \/ ReceiveDelta(c) PROVE GapInv'
<1> DEFINE q == toClient[c]
<1>1. /\ UNCHANGED <<tick, world, prev, made, connected>>
      /\ q # <<>> /\ toClient' = [toClient EXCEPT ![c] = Tail(q)]
  BY DEF ReceiveSnapshot, ReceiveDelta, FromServer, serverVars
<1>2. LastSnapshotIsKept'
  BY <1>1, KeptFrame DEF GapInv
<1>3. /\ QueueOK(q, tick - 1) /\ c \in connected /\ prev # NoSnapshot /\ tick - 1 \in Int
      /\ state[c] # "Desynchronized" => HasDeltas(q, 0, ExpectedTick(c), tick - 1)
  BY <1>1, SnapshotsMade DEF GapInv, DeltasAreSent
<1>4. /\ QueueOK(Tail(q), tick - 1)
      /\ Head(q) = q[1] /\ q[1] \in Packet
      /\ \A first \in Int :
           HasDeltas(q, 0, first, tick - 1) /\ (IsDelta(q[1]) => q[1].tick < first)
             => HasDeltas(Tail(q), 0, first, tick - 1)
      /\ ~IsDelta(q[1]) => HasDeltas(Tail(q), 0, q[1].tick + 1, tick - 1)
  BY <1>1, <1>3, TailOfQueue
<1>5. ExpectedTick(c) \in Int /\ q[1].tick \in Int
  BY <1>4, PacketTicks DEF GapInv, SyncDataOK, ExpectedTick
<1>6. /\ DOMAIN sync' = Clients /\ DOMAIN state' = Clients
      /\ \A b \in Clients : b # c => sync'[b] = sync[b] /\ state'[b] = state[b]
  BY DEF ReceiveSnapshot, ReceiveDelta, GapInv, SyncDataOK
<1>7. /\ \A x \in {"tick", "last", "snapshot", "received", "ring", "history"} : x \in DOMAIN sync'[c]
      /\ sync'[c].last \in Int /\ sync'[c].snapshot \in Int /\ sync'[c].received \in Nat
      /\ state'[c] = "Desynchronized" => sync'[c].received = 0
      /\ state'[c] # "Desynchronized" =>
           HasDeltas(Tail(q), 0, ExpectedTick(c)', tick - 1)
  <2> USE DEF GapInv, SyncDataOK
  <2>1. CASE ReceiveSnapshot(c) /\ state[c] = "Desynchronized"
    <3>1. /\ sync' = [sync EXCEPT ![c].snapshot = q[1].tick]
          /\ state' = [state EXCEPT ![c] = "Synchronizing"] /\ ~IsDelta(q[1])
      BY <1>4, <2>1 DEF ReceiveSnapshot, FromServer, IsDelta
    <3>2. /\ sync'[c].snapshot = q[1].tick /\ sync'[c].last = sync[c].last
          /\ sync'[c].received = sync[c].received /\ DOMAIN sync'[c] = DOMAIN sync[c]
      BY <3>1
    <3>3. ExpectedTick(c)' = q[1].tick + 1
      BY <2>1, <3>2 DEF ExpectedTick
    <3> QED BY <1>4, <1>5, <2>1, <3>1, <3>2, <3>3
  <2>2. CASE ReceiveSnapshot(c) /\ state[c] # "Desynchronized"
    <3>1. UNCHANGED <<sync, state>> /\ ~IsDelta(q[1])
      BY <1>4, <2>2 DEF ReceiveSnapshot, FromServer, IsDelta
    <3>2. ExpectedTick(c)' = ExpectedTick(c)
      BY <3>1 DEF ExpectedTick
    <3> QED BY <1>3, <1>4, <1>5, <2>2, <3>1, <3>2
  <2>3. CASE ReceiveDelta(c) /\ state[c] # "Desynchronized" /\ q[1].tick = ExpectedTick(c)
    <3>1. /\ \E r : sync' = [sync EXCEPT ![c].ring = r, ![c].last = q[1].tick, ![c].received = @ + 1]
          /\ state' = state
      BY <1>4, <2>3 DEF ReceiveDelta
    <3>2. /\ sync'[c].snapshot = sync[c].snapshot /\ sync'[c].last = q[1].tick
          /\ sync'[c].received = sync[c].received + 1 /\ DOMAIN sync'[c] = DOMAIN sync[c]
      BY <3>1
    <3>3. ExpectedTick(c)' = q[1].tick + 1
      BY <3>2 DEF ExpectedTick
    <3>4. HasDeltas(q, 0, ExpectedTick(c)', tick - 1)
      BY <1>3, <1>5, <2>3, <3>3 DEF HasDeltas
    <3> QED BY <1>4, <1>5, <2>3, <3>1, <3>2, <3>3, <3>4
  <2>4. CASE ReceiveDelta(c) /\ ~(state[c] # "Desynchronized" /\ q[1].tick = ExpectedTick(c))
    <3>1. UNCHANGED <<sync, state>> /\ IsDelta(q[1])
      BY <1>4, <2>4 DEF ReceiveDelta, FromServer, IsDelta
    <3>2. ExpectedTick(c)' = ExpectedTick(c)
      BY <3>1 DEF ExpectedTick
    <3>3. state[c] # "Desynchronized" => q[1].tick < ExpectedTick(c)
      <4>1. state[c] # "Desynchronized" => q[1].tick <= ExpectedTick(c)
        BY <1>1, <1>3, <1>5, <3>1, NextIsExpected
      <4> QED BY <1>5, <2>4, <4>1
    <3> QED BY <1>3, <1>4, <1>5, <2>4, <3>1, <3>2, <3>3
  <2> QED BY <2>1, <2>2, <2>3, <2>4
<1>8. SyncDataOK'
  BY <1>6, <1>7 DEF GapInv, SyncDataOK
<1>9. /\ DOMAIN toClient' = Clients /\ toClient'[c] = Tail(q)
      /\ \A b \in Clients : b # c => toClient'[b] = toClient[b]
                                     /\ ExpectedTick(b)' = ExpectedTick(b)
  BY <1>1, <1>6 DEF GapInv, DeltasAreSent, ExpectedTick
<1>10. DeltasAreSent'
  BY <1>1, <1>3, <1>4, <1>6, <1>7, <1>9 DEF GapInv, DeltasAreSent
<1> QED BY <1>2, <1>8, <1>10 DEF GapInv

LEMMA GapNext == GapInv /\ [Next]_vars => GapInv'
<1> SUFFICES ASSUME GapInv, [Next]_vars PROVE GapInv'
  OBVIOUS
<1>1. LastSnapshotIsKept'
  BY KeptNext DEF GapInv
<1>2. CASE StartSession \/ EndSession \/ ChangeWorld \/ UNCHANGED vars
  BY <1>1, <1>2, ServerKept DEF StartSession, EndSession, ChangeWorld, vars, serverVars, netVars, clientVars
<1>3. CASE UnpausedTick \/ PausedTick
  BY <1>3, GapUnpausedTick, GapPausedTick
<1>4. ASSUME NEW c \in Clients, PeerConnected(c) \/ ReceiveSnapshotRequest(c)
      PROVE  GapInv'
  BY <1>1, <1>4, ServerKept DEF PeerConnected, ReceiveSnapshotRequest, clientVars
<1>5. ASSUME NEW c \in Clients, Connect(c) \/ Disconnect(c) \/ ClientStep(c)
      PROVE  GapInv'
  BY <1>5, GapConnections, GapFrames, GapReceive DEF ClientStep
<1> QED BY <1>2, <1>3, <1>4, <1>5 DEF Next, ServerStep

(* No client is ever handed a delta that comes too early, whatever the     *)
(* number of clients, of ticks, of reconnections and of lost snapshots     *)
(* (ShardSynchronizationClient.ReceiveShardSnapshotDeltaPacket).           *)
THEOREM NoDeltaIsMissing == Spec => []NoGap
<1>1. GapInv => NoGap
  <2> SUFFICES ASSUME GapInv, NEW c \in Clients, state[c] # "Desynchronized",
                      toClient[c] # <<>>, Head(toClient[c]).type = "Delta"
               PROVE  Head(toClient[c]).tick <= ExpectedTick(c)
    BY DEF NoGap
  <2>1. /\ QueueOK(toClient[c], tick - 1) /\ tick - 1 \in Int
        /\ HasDeltas(toClient[c], 0, ExpectedTick(c), tick - 1)
    BY SnapshotsMade DEF GapInv, DeltasAreSent
  <2>2. ExpectedTick(c) \in Int
    BY DEF GapInv, SyncDataOK, ExpectedTick
  <2>3. Head(toClient[c]) = toClient[c][1]
    BY <2>1 DEF QueueOK
  <2> QED BY <2>1, <2>2, <2>3, NextIsExpected DEF IsDelta
<1> QED BY <1>1, GapInit, GapNext, PTL DEF Spec

-----------------------------------------------------------------------------
(***************************************************************************)
(* A client's own time.                                                    *)
(***************************************************************************)

HistoryOK(history) == history \in [0..HistoryLength - 1 -> Int]

(* A client that has synchronized has deltas later than its snapshot, and  *)
(* is not ahead of the last.                                               *)
TimeInv ==
  /\ DOMAIN sync = Clients /\ DOMAIN state = Clients
  /\ fastForwards \in [Clients -> Nat]
  /\ \A c \in Clients :
       /\ {"tick", "last", "snapshot", "received", "ring", "history"} \subseteq DOMAIN sync[c]
       /\ sync[c].tick \in Int /\ sync[c].last \in Int /\ sync[c].snapshot \in Int
       /\ sync[c].received \in Nat
       /\ HistoryOK(sync[c].history)
       /\ state[c] = "Desynchronized" => sync[c].received = 0
       /\ sync[c].received > 0 => sync[c].snapshot < sync[c].last
       /\ state[c] = "Synchronized" =>
            sync[c].received > 0 /\ sync[c].tick <= sync[c].last * Steps

(* The earlier of two numbers.                                             *)
Below == {ss \in Nat \X Nat : ss[1] < ss[2]}

LEMMA BelowIsWellFounded == IsWellFoundedOn(Below, Nat)
BY NatLessThanWellFounded DEF OpToRel, Below

(* A set of numbers has a least one.                                       *)
LEMMA LeastNumber ==
  ASSUME NEW S \in SUBSET Nat, S # {}
  PROVE  Min(S) \in S /\ \A y \in S : Min(S) <= y
<1>1. PICK x \in S : \A y \in S : ~(<<y, x>> \in Below)
  BY BelowIsWellFounded, WFMin
<1>2. ASSUME NEW y \in S PROVE x <= y
  <2>1. x \in Nat /\ y \in Nat /\ <<y, x>> \in Nat \X Nat
    OBVIOUS
  <2>2. <<y, x>>[1] = y /\ <<y, x>>[2] = x
    OBVIOUS
  <2>3. y < x => <<y, x>> \in Below
    BY <2>1, <2>2 DEF Below
  <2> QED BY <1>1, <2>1, <2>3
<1> QED BY <1>2 DEF Min

(* A tick of the shard, in steps of its clients.                           *)
LEMMA LaterTick ==
  ASSUME NEW a \in Int, NEW b \in Int, a <= b
  PROVE  a * Steps \in Int /\ b * Steps \in Int /\ a * Steps <= b * Steps
<1>1. Steps \in Nat
  BY SyncAssumption
<1> QED BY <1>1

LEMMA HistoryIndexed == \A t \in Int : HistoryIndex(t) \in 0..HistoryLength - 1
<1>1. StepsPerSecond \in Nat \ {0} /\ HistoryLength \in Nat \ {0}
  BY SyncAssumption
<1>2. ASSUME NEW t \in Int PROVE Second(t) \in Int
  BY <1>1, SyncAssumption DEF Second
<1> QED BY <1>1, <1>2 DEF HistoryIndex

(* Writing the history keeps it a history; the entry of the second that    *)
(* was written is at most what was written.                                *)
LEMMA HistoryWritten ==
  ASSUME NEW h, HistoryOK(h), NEW from \in Int, NEW to \in Int, NEW buffer \in Int
  PROVE  /\ HistoryOK(EnterSecond(h, from, to))
         /\ HistoryOK(WriteHistory(h, to, buffer))
         /\ WriteHistory(h, to, buffer)[HistoryIndex(to)] <= buffer
         /\ HistoryOK([h EXCEPT ![HistoryIndex(to)] = buffer])
<1>1. HistoryIndex(to) \in 0..HistoryLength - 1
  BY HistoryIndexed
<1>2. Infinity \in Int
  BY SyncAssumption DEF Infinity
<1>3. ASSUME NEW v \in Int PROVE HistoryOK([h EXCEPT ![HistoryIndex(to)] = v])
  BY <1>1 DEF HistoryOK
<1>4. h[HistoryIndex(to)] \in Int
  BY <1>1 DEF HistoryOK
<1>5. [h EXCEPT ![HistoryIndex(to)] = buffer][HistoryIndex(to)] = buffer
  BY <1>1 DEF HistoryOK
<1>6. HistoryOK(EnterSecond(h, from, to))
  BY <1>2, <1>3 DEF EnterSecond
<1>7. HistoryOK(WriteHistory(h, to, buffer)) /\ WriteHistory(h, to, buffer)[HistoryIndex(to)] <= buffer
  <2>1. CASE buffer < h[HistoryIndex(to)]
    BY <1>3, <1>5, <2>1 DEF WriteHistory
  <2>2. CASE ~(buffer < h[HistoryIndex(to)])
    BY <1>4, <2>2 DEF WriteHistory
  <2> QED BY <2>1, <2>2
<1> QED BY <1>3, <1>6, <1>7

(* A history that lets a client fast-forward has a least entry, which      *)
(* leaves more than the safe buffer.                                       *)
LEMMA FastForwardIsAhead ==
  ASSUME NEW h, HistoryOK(h), MayFastForward(h), NEW i \in 0..HistoryLength - 1
  PROVE  ForwardBy(h) \in Nat /\ ForwardBy(h) <= h[i] - MinSafe
<1>1. MinSafe \in Nat /\ MinToFastForward \in Nat /\ MinSafe < MinToFastForward
  BY SyncAssumption
<1>2. DOMAIN h = 0..HistoryLength - 1 /\ \A j \in DOMAIN h : h[j] \in Int
  BY DEF HistoryOK
<1>3. Range(h) \in SUBSET Nat /\ h[i] \in Range(h)
  <2>1. \A b \in Range(h) : b \in Int
    BY <1>2 DEF Range
  <2>2. \A b \in Range(h) : b >= MinToFastForward
    BY DEF MayFastForward
  <2>3. h[i] \in Range(h)
    BY <1>2 DEF Range
  <2> QED BY <1>1, <2>1, <2>2, <2>3
<1>4. Min(Range(h)) \in Range(h) /\ Min(Range(h)) <= h[i]
  BY <1>3, LeastNumber
<1>5. Min(Range(h)) >= MinToFastForward
  BY <1>4 DEF MayFastForward
<1> QED BY <1>1, <1>3, <1>4, <1>5 DEF ForwardBy

(* ------------------------------ the steps ------------------------------ *)

(* What holds of the time of one client in a step.                         *)
TimeAdvances(c) ==
  state[c] = "Synchronized" /\ state'[c] = "Synchronized" =>
    /\ sync[c].tick <= sync'[c].tick
    /\ sync'[c].tick <= sync'[c].last * Steps
    /\ fastForwards'[c] > fastForwards[c] => sync'[c].tick <= sync'[c].last * Steps - MinSafe

LEMMA NewDataOK ==
  /\ {"tick", "last", "snapshot", "received", "ring", "history"} \subseteq DOMAIN NewSyncData
  /\ NewSyncData.tick \in Int /\ NewSyncData.last \in Int /\ NewSyncData.snapshot \in Int
  /\ NewSyncData.received = 0 /\ HistoryOK(NewSyncData.history)
BY NullIsBelow DEF NewSyncData, HistoryOK

LEMMA TimeInit == Init => TimeInv
BY NewDataOK DEF Init, TimeInv

LEMMA TimeKept ==
  ASSUME TimeInv, UNCHANGED clientVars
  PROVE  TimeInv' /\ \A c \in Clients : TimeAdvances(c)
BY DEF TimeInv, clientVars, TimeAdvances

(* A client starts anew.                                                   *)
LEMMA TimeReset ==
  ASSUME TimeInv, NEW c \in Clients, Connect(c) \/ LoseSnapshot(c) \/ FallBehind(c)
  PROVE  TimeInv' /\ \A b \in Clients : TimeAdvances(b)
<1>1. /\ sync' = [sync EXCEPT ![c] = NewSyncData]
      /\ state' = [state EXCEPT ![c] = "Desynchronized"]
  BY DEF Connect, LoseSnapshot, FallBehind, Desynchronize
<1>2. fastForwards' = fastForwards \/ fastForwards' = [fastForwards EXCEPT ![c] = 0]
  BY DEF Connect, LoseSnapshot, FallBehind, Desynchronize
<1>3. /\ fastForwards' \in [Clients -> Nat]
      /\ \A b \in Clients : b # c => fastForwards'[b] = fastForwards[b]
  BY <1>2 DEF TimeInv
<1>4. DOMAIN sync' = Clients /\ DOMAIN state' = Clients
  BY <1>1 DEF TimeInv
<1>5. \A b \in Clients : b # c => sync'[b] = sync[b] /\ state'[b] = state[b]
  BY <1>1 DEF TimeInv
<1>6. sync'[c] = NewSyncData /\ state'[c] = "Desynchronized"
  BY <1>1 DEF TimeInv
<1>7. TimeInv'
  BY <1>3, <1>4, <1>5, <1>6, NewDataOK DEF TimeInv
<1>8. ASSUME NEW b \in Clients PROVE TimeAdvances(b)
  BY <1>3, <1>5, <1>6 DEF TimeInv, TimeAdvances
<1> QED BY <1>7, <1>8

(* A client takes a packet.                                                *)
LEMMA TimeReceive ==
  ASSUME TimeInv, NEW c \in Clients, toClient[c] # <<>> => Head(toClient[c]).tick \in Int,
         ReceiveSnapshot(c) \/ ReceiveDelta(c)
  PROVE  TimeInv' /\ \A b \in Clients : TimeAdvances(b)
<1> DEFINE p == Head(toClient[c])
<1>1. p.tick \in Int /\ fastForwards' = fastForwards
  BY DEF ReceiveSnapshot, ReceiveDelta, FromServer
<1>2. CASE ReceiveSnapshot(c) /\ state[c] = "Desynchronized"
  <2>1. /\ sync' = [sync EXCEPT ![c].snapshot = p.tick]
        /\ state' = [state EXCEPT ![c] = "Synchronizing"]
    BY <1>2 DEF ReceiveSnapshot
  <2> HIDE DEF p
  <2>2. /\ DOMAIN sync' = Clients /\ DOMAIN state' = Clients
        /\ \A b \in Clients : b # c => sync'[b] = sync[b] /\ state'[b] = state[b]
        /\ state'[c] = "Synchronizing"
        /\ DOMAIN sync'[c] = DOMAIN sync[c] /\ sync'[c].snapshot = p.tick
        /\ sync'[c].tick = sync[c].tick /\ sync'[c].last = sync[c].last
        /\ sync'[c].received = sync[c].received /\ sync'[c].history = sync[c].history
    BY <2>1 DEF TimeInv
  <2>3. TimeInv'
    BY <1>1, <1>2, <2>2 DEF TimeInv
  <2>4. ASSUME NEW b \in Clients PROVE TimeAdvances(b)
    BY <1>1, <1>2, <2>2 DEF TimeInv, TimeAdvances
  <2> QED BY <2>3, <2>4
<1>3. CASE ReceiveDelta(c) /\ state[c] # "Desynchronized" /\ p.tick = ExpectedTick(c)
  <2>1. /\ \E r : sync' = [sync EXCEPT ![c].ring = r, ![c].last = p.tick, ![c].received = @ + 1]
        /\ state' = state
    BY <1>3 DEF ReceiveDelta
  <2> HIDE DEF p
  <2>2. /\ DOMAIN sync' = Clients
        /\ \A b \in Clients : b # c => sync'[b] = sync[b]
        /\ DOMAIN sync'[c] = DOMAIN sync[c] /\ sync'[c].last = p.tick
        /\ sync'[c].tick = sync[c].tick /\ sync'[c].snapshot = sync[c].snapshot
        /\ sync'[c].received = sync[c].received + 1 /\ sync'[c].history = sync[c].history
    BY <2>1 DEF TimeInv
  <2>3. /\ sync[c].received > 0 => sync'[c].last = sync[c].last + 1
        /\ sync[c].received = 0 => sync'[c].last = sync[c].snapshot + 1
        /\ sync'[c].last \in Int /\ sync[c].last \in Int /\ sync[c].received \in Nat
    BY <1>1, <1>3, <2>2 DEF ExpectedTick, TimeInv
  <2>4. sync'[c].snapshot < sync'[c].last
    BY <2>2, <2>3 DEF TimeInv
  <2>5. state[c] = "Synchronized" => sync'[c].tick <= sync'[c].last * Steps
    <3> SUFFICES ASSUME state[c] = "Synchronized" PROVE sync'[c].tick <= sync'[c].last * Steps
      OBVIOUS
    <3>1. sync[c].last <= sync'[c].last /\ sync[c].tick <= sync[c].last * Steps /\ sync[c].tick \in Int
      BY <2>3 DEF TimeInv
    <3>2. /\ sync[c].last * Steps \in Int /\ sync'[c].last * Steps \in Int
          /\ sync[c].last * Steps <= sync'[c].last * Steps
      BY <2>3, <3>1, LaterTick
    <3> QED BY <2>2, <3>1, <3>2
  <2>6. TimeInv'
    BY <1>1, <1>3, <2>1, <2>2, <2>3, <2>4, <2>5 DEF TimeInv
  <2>7. ASSUME NEW b \in Clients PROVE TimeAdvances(b)
    BY <1>1, <2>1, <2>2, <2>5 DEF TimeInv, TimeAdvances
  <2> QED BY <2>6, <2>7
<1>4. CASE UNCHANGED <<sync, state>>
  BY <1>1, <1>4 DEF TimeInv, TimeAdvances
<1>5. QED
  BY <1>2, <1>3, <1>4 DEF ReceiveSnapshot, ReceiveDelta

(* A frame of a client, whose time goes from one step to another.          *)
LEMMA TimeOfFrame ==
  ASSUME TimeInv, NEW c \in Clients, CanProcess(c)
  PROVE  /\ StartTick(c) \in Int /\ sync[c].last * Steps \in Int /\ sync[c].received > 0
         /\ StartTick(c) <= sync[c].last * Steps
         /\ state[c] = "Synchronized" => StartTick(c) = sync[c].tick
<1>1. CASE state[c] = "Synchronized"
  <2>1. sync[c].last * Steps \in Int
    BY LaterTick DEF TimeInv
  <2> QED BY <1>1, <2>1 DEF TimeInv, StartTick
<1>2. CASE state[c] # "Synchronized"
  <2>1. sync[c].received > 0 /\ sync[c].snapshot \in Int /\ sync[c].last \in Int
        /\ sync[c].snapshot <= sync[c].last
    BY <1>2 DEF CanProcess, TimeInv
  <2> QED BY <1>2, <2>1, LaterTick DEF StartTick
<1> QED BY <1>1, <1>2

LEMMA TimeFrames ==
  ASSUME TimeInv, NEW c \in Clients, NEW n \in 1..MaxFrame, WaitFrame(c, n) \/ AdvanceFrame(c, n)
  PROVE  TimeInv' /\ \A b \in Clients : TimeAdvances(b)
<1> DEFINE from == StartTick(c)
           to == from + n
           last == sync[c].last * Steps
<1>1. CanProcess(c) /\ state' = [state EXCEPT ![c] = "Synchronized"]
  BY DEF WaitFrame, AdvanceFrame, InFrame
<1>2. /\ from \in Int /\ last \in Int /\ to \in Int /\ from <= last /\ from <= to
      /\ sync[c].received > 0
      /\ state[c] = "Synchronized" => from = sync[c].tick
  BY <1>1, TimeOfFrame
<1>3. HistoryOK(sync[c].history)
  BY DEF TimeInv
<1>4. \E t, h :
        /\ t \in Int
        /\ sync' = [sync EXCEPT ![c].tick = t, ![c].history = h]
        /\ HistoryOK(h) /\ from <= t /\ t <= last
        /\ \/ fastForwards' = fastForwards
           \/ fastForwards' = [fastForwards EXCEPT ![c] = @ + 1] /\ t <= last - MinSafe
  <2>1. CASE WaitFrame(c, n)
    <3> DEFINE entered == EnterSecond(sync[c].history, from, to)
               h == [entered EXCEPT ![HistoryIndex(from)] = -1]
    <3>1. /\ sync' = [sync EXCEPT ![c].tick = from, ![c].history = h]
          /\ fastForwards' = fastForwards
      BY <2>1 DEF WaitFrame, TimeInv
    <3>2. HistoryOK(entered)
      BY <1>2, <1>3, HistoryWritten
    <3> HIDE DEF entered
    <3>3. HistoryOK(h)
      BY <1>2, <3>2, HistoryWritten
    <3> HIDE DEF h, from, last
    <3> WITNESS from, h
    <3> QED BY <1>2, <3>1, <3>3
  <2>2. CASE AdvanceFrame(c, n)
    <3> DEFINE entered == EnterSecond(sync[c].history, from, to)
               h == WriteHistory(entered, to, last - to)
               forward == to + ForwardBy(h)
    <3>1. HistoryOK(entered)
      BY <1>2, <1>3, HistoryWritten
    <3>2. HistoryOK(h) /\ h[HistoryIndex(to)] <= last - to
      <4>1. last - to \in Int
        BY <1>2
      <4> HIDE DEF entered, last, from
      <4> QED BY <1>2, <3>1, <4>1, HistoryWritten
    <3>3. to <= last
      BY <1>2, <2>2 DEF AdvanceFrame, OutOfDeltas
    <3>4. CASE MayFastForward(h)
      <4>1. /\ sync' = [sync EXCEPT ![c].tick = forward,
                          ![c].history = [h EXCEPT ![HistoryIndex(forward)] = last - forward]]
            /\ fastForwards' = [fastForwards EXCEPT ![c] = @ + 1]
        BY <2>2, <3>4 DEF AdvanceFrame
      <4> HIDE DEF h
      <4>2. MinSafe \in Nat /\ HistoryIndex(to) \in 0..HistoryLength - 1
        BY <1>2, SyncAssumption, HistoryIndexed
      <4>3. h[HistoryIndex(to)] \in Int
        BY <3>2, <4>2 DEF HistoryOK
      <4>4. ForwardBy(h) \in Nat /\ ForwardBy(h) <= h[HistoryIndex(to)] - MinSafe
        BY <3>2, <3>4, <4>2, FastForwardIsAhead
      <4> HIDE DEF from, last
      <4>5. /\ forward \in Int /\ from <= forward /\ forward <= last - MinSafe
            /\ forward <= last /\ last - forward \in Int
        BY <1>2, <3>2, <4>2, <4>3, <4>4
      <4> HIDE DEF forward
      <4>6. HistoryOK([h EXCEPT ![HistoryIndex(forward)] = last - forward])
        BY <3>2, <4>5, HistoryWritten
      <4> QED BY <4>1, <4>5, <4>6
    <3>5. CASE ~MayFastForward(h)
      <4>1. /\ sync' = [sync EXCEPT ![c].tick = to, ![c].history = h]
            /\ fastForwards' = fastForwards
        BY <2>2, <3>5 DEF AdvanceFrame
      <4> HIDE DEF h
      <4> QED BY <1>2, <3>2, <3>3, <4>1
    <3> QED BY <3>4, <3>5
  <2> QED BY <2>1, <2>2
<1>5. PICK t, h :
        /\ t \in Int
        /\ sync' = [sync EXCEPT ![c].tick = t, ![c].history = h]
        /\ HistoryOK(h) /\ from <= t /\ t <= last
        /\ \/ fastForwards' = fastForwards
           \/ fastForwards' = [fastForwards EXCEPT ![c] = @ + 1] /\ t <= last - MinSafe
  BY <1>4
<1>6. /\ DOMAIN sync' = Clients /\ DOMAIN state' = Clients
      /\ \A b \in Clients : b # c => sync'[b] = sync[b] /\ state'[b] = state[b]
      /\ state'[c] = "Synchronized" /\ DOMAIN sync'[c] = DOMAIN sync[c]
      /\ sync'[c].tick = t /\ sync'[c].history = h
      /\ sync'[c].last = sync[c].last /\ sync'[c].snapshot = sync[c].snapshot
      /\ sync'[c].received = sync[c].received
  BY <1>1, <1>5 DEF TimeInv
<1>7. /\ fastForwards' \in [Clients -> Nat]
      /\ \A b \in Clients : b # c => fastForwards'[b] = fastForwards[b]
      /\ fastForwards'[c] = fastForwards[c] \/ t <= last - MinSafe
  BY <1>5 DEF TimeInv
<1> HIDE DEF from
<1>8. TimeInv'
  BY <1>2, <1>5, <1>6, <1>7 DEF TimeInv
<1>9. ASSUME NEW b \in Clients PROVE TimeAdvances(b)
  BY <1>2, <1>5, <1>6, <1>7 DEF TimeInv, TimeAdvances
<1> QED BY <1>8, <1>9

LEMMA TimeNext ==
  ASSUME GapInv, TimeInv, [Next]_vars
  PROVE  TimeInv' /\ \A c \in Clients : TimeAdvances(c)
<1>1. CASE ServerStep \/ UNCHANGED vars
  BY <1>1, TimeKept DEF ServerStep, StartSession, EndSession, ChangeWorld, UnpausedTick, PausedTick, vars
<1>2. ASSUME NEW c \in Clients, PeerConnected(c) \/ ReceiveSnapshotRequest(c) \/ Disconnect(c)
      PROVE  TimeInv' /\ \A b \in Clients : TimeAdvances(b)
  BY <1>2, TimeKept DEF PeerConnected, ReceiveSnapshotRequest, Disconnect
<1>3. ASSUME NEW c \in Clients, ReceiveSnapshot(c) \/ ReceiveDelta(c)
      PROVE  TimeInv' /\ \A b \in Clients : TimeAdvances(b)
  <2>1. toClient[c] # <<>> => Head(toClient[c]) \in Packet
    BY DEF GapInv, DeltasAreSent, QueueOK
  <2> QED BY <1>3, <2>1, PacketTicks, TimeReceive
<1>4. ASSUME NEW c \in Clients,
             \/ Connect(c) \/ LoseSnapshot(c) \/ FallBehind(c)
             \/ \E n \in 1..MaxFrame : WaitFrame(c, n) \/ AdvanceFrame(c, n)
      PROVE  TimeInv' /\ \A b \in Clients : TimeAdvances(b)
  BY <1>4, TimeReset, TimeFrames
<1> QED BY <1>1, <1>2, <1>3, <1>4 DEF Next, ClientStep

(* Time of a synchronized client never goes back nor passes its deltas,    *)
(* and a fast-forward leaves the safe buffer, for any lengths of the ring  *)
(* and the history and any frames (TryFastForward).                        *)
THEOREM ClientTimeAdvances == Spec => ClientTimeIsSound
<1>1. Init => GapInv /\ TimeInv
  BY GapInit, TimeInit
<1>2. GapInv /\ TimeInv /\ [Next]_vars => GapInv' /\ TimeInv'
  BY GapNext, TimeNext
<1>3. GapInv /\ TimeInv /\ [Next]_vars =>
        [\A c \in Clients :
           state[c] = "Synchronized" /\ state'[c] = "Synchronized" =>
             /\ sync[c].tick <= sync'[c].tick
             /\ sync'[c].tick <= sync'[c].last * Steps
             /\ fastForwards'[c] > fastForwards[c] =>
                  sync'[c].tick <= sync'[c].last * Steps - MinSafe]_vars
  BY TimeNext DEF TimeAdvances
<1> QED BY <1>1, <1>2, <1>3, PTL DEF Spec, ClientTimeIsSound

-----------------------------------------------------------------------------
(***************************************************************************)
(* What a client shows.                                                    *)
(***************************************************************************)

LEMMA Division ==
  ASSUME NEW t \in Int, NEW n \in Nat \ {0}
  PROVE  /\ t \div n \in Int /\ t % n \in 0..n - 1
         /\ t = n * (t \div n) + (t % n)
OBVIOUS

LEMMA Quotient ==
  ASSUME NEW q \in Int, NEW r \in Int, NEW n \in Nat \ {0}, 0 <= r, r < n
  PROVE  (n * q + r) \div n = q /\ (n * q + r) % n = r
OBVIOUS

LEMMA Multiples ==
  ASSUME NEW a \in Int, NEW b \in Int, NEW n \in Nat \ {0}, a < b
  PROVE  a * n + n <= b * n /\ a * n \in Int /\ b * n \in Int
<1>1. (b - a) * n = b * n - a * n /\ b - a >= 1
  OBVIOUS
<1>2. (b - a) * n >= n
  BY <1>1
<1> QED BY <1>1, <1>2

(* Ticks that are less than a ring apart have different places in it.      *)
LEMMA PlacesDiffer ==
  ASSUME NEW a \in Int, NEW b \in Int, NEW n \in Nat \ {0}, a < b, b - a < n
  PROVE  a % n # b % n
<1> DEFINE p == a \div n
           q == b \div n
<1>1. /\ p \in Int /\ q \in Int
      /\ a = n * p + (a % n) /\ b = n * q + (b % n) /\ a % n \in Int /\ b % n \in Int
  BY Division
<1> HIDE DEF p, q
<1>2. SUFFICES ASSUME a % n = b % n PROVE FALSE
  OBVIOUS
<1>3. n * q - n * p = b - a
  BY <1>1, <1>2
<1>4. CASE p < q
  BY <1>1, <1>3, <1>4, Multiples
<1>5. CASE q <= p
  BY <1>1, <1>3, <1>5, Multiples
<1> QED BY <1>1, <1>4, <1>5

(* The ticks around a client's time between those of a and of b.           *)
LEMMA TicksOfTime ==
  ASSUME NEW t \in Int, NEW a \in Int, NEW b \in Int, a * Steps <= t, t <= b * Steps
  PROVE  /\ FloorTick(t) \in a..b /\ CeilTick(t) \in Int
         /\ t % Steps # 0 => FloorTick(t) + 1 \in a..b /\ CeilTick(t) = FloorTick(t) + 1
         /\ t % Steps = 0 => CeilTick(t) = FloorTick(t) /\ t = FloorTick(t) * Steps
         /\ FloorTick(t) * Steps <= t /\ t < FloorTick(t) * Steps + Steps
<1> DEFINE q == t \div Steps
           r == t % Steps
<1>1. Steps \in Nat \ {0}
  BY SyncAssumption
<1>2. q \in Int /\ r \in 0..Steps - 1 /\ t = Steps * q + r /\ FloorTick(t) = q
  BY <1>1, Division DEF FloorTick
<1> HIDE DEF q, r
<1>3. a <= q
  BY <1>1, <1>2, Multiples
<1>4. q <= b /\ (r # 0 => q < b)
  BY <1>1, <1>2, Multiples
<1>5. CASE r = 0
  <2>1. t + Steps - 1 = Steps * q + (Steps - 1) /\ 0 <= Steps - 1 /\ Steps - 1 < Steps
    BY <1>1, <1>2, <1>5
  <2>2. CeilTick(t) = q
    BY <1>1, <1>2, <2>1, Quotient DEF CeilTick
  <2> QED BY <1>1, <1>2, <1>3, <1>4, <1>5, <2>2 DEF r
<1>6. CASE r # 0
  <2> DEFINE q1 == q + 1
             r1 == r - 1
  <2>1. t + Steps - 1 = Steps * q1 + r1 /\ 0 <= r1 /\ r1 < Steps /\ q1 \in Int /\ r1 \in Int
    BY <1>1, <1>2, <1>6
  <2> HIDE DEF q1, r1
  <2>2. (Steps * q1 + r1) \div Steps = q1
    BY <1>1, <2>1, Quotient
  <2>3. CeilTick(t) = q1
    BY <2>1, <2>2 DEF CeilTick
  <2> QED BY <1>1, <1>2, <1>3, <1>4, <1>6, <2>3 DEF r, q1
<1> QED BY <1>5, <1>6

(* The ticks of which there is a snapshot, and the delta that leads to one, *)
(* where m is the snapshots made.                                          *)
IsMade(m, t) == t \in Ticks /\ m[t] \in Worlds
DeltaOf(m, t) == Delta(t, m[t - 1], m[t])
Grows(m, n) == \A t \in Ticks : m[t] # NoWorld => n[t] = m[t]

PacketOK(m, p) ==
  IF IsDelta(p) THEN IsMade(m, p.tick - 1) /\ IsMade(m, p.tick) /\ p = DeltaOf(m, p.tick)
  ELSE IsMade(m, p.tick) /\ p.world = m[p.tick]

PacketsOK(m, q) == \A j \in 1..Len(q) : PacketOK(m, q[j])

(* The snapshot of a time is shown, from tick 0 on its way to the next.    *)
ShowsTime(m, v, t) ==
  /\ v.world = m[FloorTick(t)]
  /\ v.towards = IF t < 0 \/ t % Steps = 0 THEN m[FloorTick(t)] ELSE m[FloorTick(t) + 1]

DeltasKept(m, s) ==
  s.received > 0 =>
    /\ \A t \in s.snapshot..s.last : IsMade(m, t)
    /\ \A t \in s.snapshot + 1..s.last :
         t > s.last - RingLength => RingGet(s.ring, t) = DeltaOf(m, t)

(* A client in state st keeps the deltas of the last ticks since its       *)
(* snapshot, and shows what its time is at.                                *)
DataOK(m, st, s, v, ff) ==
  st # "Desynchronized" =>
    /\ IsMade(m, s.snapshot)
    /\ DeltasKept(m, s)
    /\ st = "Synchronized" => s.snapshot * Steps <= s.tick
    /\ st # "Synchronized" => v = Show(m[s.snapshot])
    /\ st = "Synchronized" /\ ff = 0 => ShowsTime(m, v, s.tick)

ViewInv ==
  /\ DOMAIN view = Clients
  /\ \A c \in Clients :
       /\ DOMAIN sync[c].ring = 0..RingLength - 1
       /\ PacketsOK(made, toClient[c])
       /\ DataOK(made, state[c], sync[c], view[c], fastForwards[c])

(* The ring holds the deltas of ticks first to last.                       *)
RingHolds(m, ring, first, last) ==
  \A t \in first..last : RingGet(ring, t) = DeltaOf(m, t)

(* A tick is shown, or what is between it and the next.                    *)
ShowsTick(m, v, t) == v.world = m[t] /\ v.towards \in {m[t], m[t + 1]}

(* Deltas that follow on what is shown lead to the snapshot of the last.   *)
LEMMA PassedExact ==
  ASSUME NEW m, NEW v, NEW ring, NEW first \in Int, NEW last \in Int, first <= last, -1 <= first,
         RingHolds(m, ring, first + 1, last), ShowsTick(m, v, first)
  PROVE  ApplyPassed(v, ring, first, last) = IF first = last THEN v ELSE Show(m[last])
<1> DEFINE goal == [t \in first..last |-> IF t = first THEN v ELSE Show(m[t])]
           Step(f, t) == IF t = first THEN v ELSE ApplyDelta(f[t - 1], RingGet(ring, t))
           shown == CHOOSE f : f = [t \in first..last |-> Step(f, t)]
<1>1. ASSUME NEW t \in first..last PROVE goal[t] = Step(goal, t)
  <2>1. CASE t = first
    BY <2>1
  <2>2. CASE t # first
    <3>1. t - 1 \in first..last /\ t \in first + 1..last /\ t # Null
      BY <2>2, NullIsBelow
    <3>2. goal[t - 1].world = m[t - 1] /\ goal[t - 1].towards \in {m[t - 1], m[t]}
      <4>1. CASE t - 1 = first
        <5>1. goal[t - 1] = v /\ first < last /\ t = first + 1
              /\ v.world = m[first] /\ v.towards \in {m[first], m[first + 1]}
          BY <3>1, <4>1 DEF ShowsTick
        <5> HIDE DEF goal
        <5> QED BY <4>1, <5>1
      <4>2. CASE t - 1 # first
        <5>1. goal[t - 1] = Show(m[t - 1])
          BY <3>1, <4>2
        <5> HIDE DEF goal
        <5> QED BY <5>1 DEF Show
      <4> QED BY <4>1, <4>2
    <3>3. RingGet(ring, t) = Delta(t, m[t - 1], m[t])
      BY <3>1 DEF RingHolds, DeltaOf
    <3> DEFINE w == goal[t - 1]
               d == Delta(t, m[t - 1], m[t])
    <3>4. d.tick = t /\ d.from = m[t - 1] /\ d.to = m[t]
      BY DEF Delta
    <3> HIDE DEF d, w
    <3>5. ApplyDelta(w, d) = Show(m[t])
      BY <3>1, <3>2, <3>4 DEF ApplyDelta, Fits, w
    <3>6. goal[t] = Show(m[t])
      BY <2>2
    <3> QED BY <2>2, <3>3, <3>5, <3>6 DEF w, d
  <2> QED BY <2>1, <2>2
<1>2. goal = [t \in first..last |-> Step(goal, t)]
  <2>1. DOMAIN goal = first..last /\ goal = [t \in first..last |-> goal[t]]
    OBVIOUS
  <2> HIDE DEF goal, Step
  <2> QED BY <1>1, <2>1
<1>3. shown = [t \in first..last |-> Step(shown, t)]
  <2> HIDE DEF goal, Step
  <2> QED BY <1>2
<1>4. \A t \in first..last : shown[t] = Step(shown, t)
  <2> HIDE DEF shown, Step
  <2> QED BY <1>3
<1> DEFINE Wrong == {k \in Nat : first + k <= last /\ shown[first + k] # goal[first + k]}
<1>5. Wrong = {}
  <2> SUFFICES ASSUME Wrong # {} PROVE FALSE
    OBVIOUS
  <2> DEFINE k == Min(Wrong)
  <2>1. k \in Wrong /\ \A y \in Wrong : k <= y
    <3>1. Wrong \in SUBSET Nat
      OBVIOUS
    <3> HIDE DEF Wrong
    <3> QED BY <3>1, LeastNumber
  <2> HIDE DEF k, shown, goal
  <2>2. k \in Nat /\ first + k \in first..last /\ shown[first + k] # goal[first + k]
    BY <2>1
  <2>3. CASE k = 0
    <3>1. shown[first] = v /\ goal[first] = v
      BY <1>1, <1>4, <2>2, <2>3
    <3> QED BY <2>2, <2>3, <3>1
  <2>4. CASE k # 0
    <3>1. k - 1 \in Nat /\ first + (k - 1) = (first + k) - 1 /\ first + k # first
          /\ k - 1 \notin Wrong
      BY <2>1, <2>2, <2>4
    <3>2. shown[(first + k) - 1] = goal[(first + k) - 1]
      BY <2>2, <3>1
    <3> QED BY <1>1, <1>4, <2>2, <3>1, <3>2
  <2> QED BY <2>2, <2>3, <2>4
<1>6. shown[last] = goal[last]
  <2> HIDE DEF shown, goal
  <2>1. last - first \in Nat /\ first + (last - first) = last
    OBVIOUS
  <2>2. last - first \notin Wrong
    BY <1>5
  <2> QED BY <2>1, <2>2
<1>7. ApplyPassed(v, ring, first, last) = shown[last]
  BY DEF ApplyPassed
<1>8. goal[last] = IF first = last THEN v ELSE Show(m[last])
  OBVIOUS
<1> HIDE DEF shown, goal
<1> QED BY <1>6, <1>7, <1>8

LEMMA AppliedExact ==
  ASSUME NEW m, NEW v, NEW s, NEW from \in Int, NEW to \in Int, from < to,
         s.snapshot \in Int, -1 <= s.snapshot, s.last \in Int, s.received > 0, DeltasKept(m, s),
         s.snapshot * Steps <= from, to <= s.last * Steps,
         EarliestValid(s) <= CeilTick(from), ShowsTime(m, v, from)
  PROVE  ShowsTime(m, Applied(v, s.ring, from, to), to)
<1> DEFINE F == FloorTick(from)
           T == FloorTick(to)
           full == ApplyPassed(v, s.ring, F, T)
<1>1. Steps \in Nat \ {0} /\ RingLength \in Nat
  BY SyncAssumption
<1>2. s.snapshot * Steps \in Int /\ s.last * Steps \in Int
  BY <1>1
<1>3. /\ F \in s.snapshot..s.last /\ CeilTick(from) \in Int /\ CeilTick(from) <= F + 1
      /\ from % Steps = 0 => from = F * Steps
      /\ F * Steps <= from /\ from < F * Steps + Steps
  <2>1. s.snapshot * Steps <= from /\ from <= s.last * Steps /\ s.snapshot \in Int
    BY <1>2
  <2>2. /\ F \in s.snapshot..s.last /\ CeilTick(from) \in Int
        /\ from % Steps # 0 => F + 1 \in s.snapshot..s.last /\ CeilTick(from) = F + 1
        /\ from % Steps = 0 => CeilTick(from) = F /\ from = F * Steps
        /\ F * Steps <= from /\ from < F * Steps + Steps
    BY <2>1, TicksOfTime
  <2> HIDE DEF F
  <2> QED BY <2>2
<1>4. /\ T \in s.snapshot..s.last
      /\ to % Steps # 0 => T + 1 \in s.snapshot..s.last
      /\ to % Steps = 0 => to = T * Steps
      /\ T * Steps <= to /\ to < T * Steps + Steps
  <2>1. s.snapshot * Steps <= to /\ to <= s.last * Steps /\ s.snapshot \in Int
    BY <1>2
  <2>2. /\ T \in s.snapshot..s.last /\ CeilTick(to) \in Int
        /\ to % Steps # 0 => T + 1 \in s.snapshot..s.last /\ CeilTick(to) = T + 1
        /\ to % Steps = 0 => CeilTick(to) = T /\ to = T * Steps
        /\ T * Steps <= to /\ to < T * Steps + Steps
    BY <2>1, TicksOfTime
  <2> HIDE DEF T
  <2> QED BY <2>2
<1>5. F \in Int /\ T \in Int /\ -1 <= F /\ -1 <= T
  BY <1>3, <1>4
<1>6. ShowsTime(m, v, from) <=>
        /\ v.world = m[F]
        /\ v.towards = IF from < 0 \/ from % Steps = 0 THEN m[F] ELSE m[F + 1]
  BY DEF ShowsTime
<1>7. ShowsTime(m, Applied(v, s.ring, from, to), to) <=>
        /\ Applied(v, s.ring, from, to).world = m[T]
        /\ Applied(v, s.ring, from, to).towards =
             IF to < 0 \/ to % Steps = 0 THEN m[T] ELSE m[T + 1]
  BY DEF ShowsTime
<1>8. Applied(v, s.ring, from, to) = IF IsBetweenTicks(to)
                                     THEN ApplyPartly(full, RingGet(s.ring, T + 1))
                                     ELSE full
  BY DEF Applied
<1> HIDE DEF F, T
<1>9. F <= T
  <2>1. T < F => T * Steps + Steps <= F * Steps /\ T * Steps \in Int /\ F * Steps \in Int
    BY <1>1, <1>5, Multiples
  <2>2. T * Steps \in Int /\ F * Steps \in Int
    BY <1>1, <1>5
  <2> QED BY <1>1, <1>3, <1>4, <1>5, <2>1, <2>2
<1>10. RingHolds(m, s.ring, F + 1, s.last)
  <2> SUFFICES ASSUME NEW t \in F + 1..s.last PROVE RingGet(s.ring, t) = DeltaOf(m, t)
    BY DEF RingHolds
  <2>1. t \in s.snapshot + 1..s.last /\ t > s.last - RingLength
    BY <1>1, <1>3, <1>5 DEF EarliestValid
  <2> QED BY <2>1 DEF DeltasKept
<1>11. ShowsTick(m, v, F)
  BY <1>6 DEF ShowsTick
<1>12. full = IF F = T THEN v ELSE Show(m[T])
  <2>1. RingHolds(m, s.ring, F + 1, T)
    BY <1>4, <1>5, <1>10 DEF RingHolds
  <2> QED BY <1>5, <1>9, <1>11, <2>1, PassedExact
<1> HIDE DEF full
<1>13. CASE to < 0 \/ to % Steps = 0
  <2>1. ~IsBetweenTicks(to)
    BY <1>13 DEF IsBetweenTicks
  <2>2. F # T \/ from < 0
    BY <1>3, <1>4, <1>13
  <2>3. full.world = m[T] /\ full.towards = m[T]
    <3>1. CASE F # T
      BY <1>12, <3>1 DEF Show
    <3>2. CASE F = T /\ from < 0
      BY <1>6, <1>12, <3>2
    <3> QED BY <2>2, <3>1, <3>2
  <2> QED BY <1>7, <1>8, <1>13, <2>1, <2>3
<1>14. CASE 0 <= to /\ to % Steps # 0
  <2> DEFINE d == RingGet(s.ring, T + 1)
  <2>1. d = Delta(T + 1, m[T], m[T + 1])
    <3>1. T + 1 \in F + 1..s.last /\ (T + 1) - 1 = T
      BY <1>4, <1>5, <1>9, <1>14
    <3> QED BY <1>10, <3>1 DEF DeltaOf, RingHolds
  <2>2. d.tick = T + 1 /\ d.from = m[T] /\ d.to = m[T + 1]
    BY <2>1 DEF Delta
  <2>3. full.world = m[T] /\ full.towards \in {m[T], m[T + 1]}
    BY <1>6, <1>12 DEF Show
  <2> HIDE DEF d
  <2>4. ApplyPartly(full, d) = [world |-> m[T], towards |-> m[T + 1]]
    <3>1. T + 1 # Null
      BY <1>5, NullIsBelow
    <3> QED BY <2>2, <2>3, <3>1 DEF ApplyPartly, Fits
  <2>5. IsBetweenTicks(to)
    <3>1. to # 0
      BY <1>1, <1>14
    <3> QED BY <1>14, <3>1 DEF IsBetweenTicks
  <2>6. ~ (to < 0 \/ to % Steps = 0)
    BY <1>14
  <2> QED BY <1>7, <1>8, <2>4, <2>5, <2>6 DEF d
<1> QED BY <1>13, <1>14

(* What holds of the snapshots made holds when others are made.            *)
LEMMA MadeStays ==
  ASSUME NEW m, NEW n, Grows(m, n), NEW t, IsMade(m, t)
  PROVE  IsMade(n, t) /\ n[t] = m[t]
BY SyncAssumption DEF Grows, IsMade, NoWorld, Worlds

LEMMA PacketsStay ==
  ASSUME NEW m, NEW n, Grows(m, n), NEW q, PacketsOK(m, q) PROVE PacketsOK(n, q)
<1> SUFFICES ASSUME NEW j \in 1..Len(q) PROVE PacketOK(n, q[j])
  BY DEF PacketsOK
<1>1. PacketOK(m, q[j])
  BY DEF PacketsOK
<1> QED BY <1>1, MadeStays DEF PacketOK, DeltaOf

LEMMA DataStays ==
  ASSUME NEW m, NEW n, Grows(m, n), NEW st, NEW s, NEW v, NEW ff,
         s.snapshot \in Int, s.last \in Int, s.tick \in Int,
         st = "Synchronized" => s.received > 0 /\ s.tick <= s.last * Steps,
         DataOK(m, st, s, v, ff)
  PROVE  DataOK(n, st, s, v, ff)
<1> SUFFICES ASSUME st # "Desynchronized" PROVE DataOK(n, st, s, v, ff)
  BY DEF DataOK
<1>1. IsMade(n, s.snapshot) /\ n[s.snapshot] = m[s.snapshot]
  BY MadeStays DEF DataOK
<1>2. DeltasKept(n, s)
  <2> SUFFICES ASSUME s.received > 0 PROVE DeltasKept(n, s)
    BY DEF DeltasKept
  <2>1. \A t \in s.snapshot..s.last : IsMade(n, t) /\ n[t] = m[t]
    BY MadeStays DEF DataOK, DeltasKept
  <2>2. ASSUME NEW t \in s.snapshot + 1..s.last, t > s.last - RingLength
        PROVE  RingGet(s.ring, t) = DeltaOf(n, t)
    <3>1. t \in s.snapshot..s.last /\ t - 1 \in s.snapshot..s.last
      OBVIOUS
    <3>2. RingGet(s.ring, t) = DeltaOf(m, t)
      BY <2>2 DEF DataOK, DeltasKept
    <3> QED BY <2>1, <3>1, <3>2 DEF DeltaOf
  <2> QED BY <2>1, <2>2 DEF DeltasKept
<1>3. st = "Synchronized" /\ ff = 0 => ShowsTime(n, v, s.tick)
  <2> SUFFICES ASSUME st = "Synchronized", ff = 0 PROVE ShowsTime(n, v, s.tick)
    OBVIOUS
  <2>1. s.received > 0 /\ s.snapshot * Steps <= s.tick /\ s.tick <= s.last * Steps
        /\ ShowsTime(m, v, s.tick)
    BY DEF DataOK
  <2>2. \A t \in s.snapshot..s.last : n[t] = m[t]
    BY <2>1, MadeStays DEF DataOK, DeltasKept
  <2>3. /\ FloorTick(s.tick) \in s.snapshot..s.last
        /\ s.tick % Steps # 0 => FloorTick(s.tick) + 1 \in s.snapshot..s.last
    BY <2>1, TicksOfTime
  <2> QED BY <2>1, <2>2, <2>3 DEF ShowsTime
<1> QED BY <1>1, <1>2, <1>3 DEF DataOK

(* ------------------------------ the steps ------------------------------ *)

SyncInv == GapInv /\ TimeInv /\ ViewInv

LEMMA ViewInit == Init => ViewInv
<1> SUFFICES ASSUME Init PROVE ViewInv
  OBVIOUS
<1>1. DOMAIN NewSyncData.ring = 0..RingLength - 1
  BY DEF NewSyncData
<1> QED BY <1>1 DEF Init, ViewInv, DataOK, PacketsOK

LEMMA MadeGrows == GapInv /\ [Next]_vars => Grows(made, made')
BY KeptNext DEF GapInv, Grows

(* A client whose data stay as they are.                                   *)
LEMMA ClientStays ==
  ASSUME SyncInv, [Next]_vars, NEW b \in Clients,
         sync'[b] = sync[b] /\ state'[b] = state[b] /\ view'[b] = view[b]
           /\ fastForwards'[b] = fastForwards[b]
  PROVE  /\ DOMAIN sync'[b].ring = 0..RingLength - 1
         /\ DataOK(made', state'[b], sync'[b], view'[b], fastForwards'[b])
         /\ PacketsOK(made', toClient[b])
<1>1. Grows(made, made')
  BY MadeGrows DEF SyncInv
<1>2. /\ DataOK(made, state[b], sync[b], view[b], fastForwards[b])
      /\ PacketsOK(made, toClient[b]) /\ DOMAIN sync[b].ring = 0..RingLength - 1
  BY DEF SyncInv, ViewInv
<1>3. /\ sync[b].snapshot \in Int /\ sync[b].last \in Int /\ sync[b].tick \in Int
      /\ state[b] = "Synchronized" =>
           sync[b].received > 0 /\ sync[b].tick <= sync[b].last * Steps
  BY DEF SyncInv, TimeInv
<1> QED BY <1>1, <1>2, <1>3, DataStays, PacketsStay

(* A step of one client.                                                   *)
LEMMA OneClientSteps ==
  ASSUME SyncInv, [Next]_vars, NEW c \in Clients, DOMAIN view' = Clients,
         \A b \in Clients : b # c =>
           /\ sync'[b] = sync[b] /\ state'[b] = state[b] /\ view'[b] = view[b]
           /\ fastForwards'[b] = fastForwards[b] /\ toClient'[b] = toClient[b],
         DOMAIN sync'[c].ring = 0..RingLength - 1,
         PacketsOK(made', toClient'[c]),
         DataOK(made', state'[c], sync'[c], view'[c], fastForwards'[c])
  PROVE  ViewInv'
<1> SUFFICES ASSUME NEW b \in Clients
             PROVE  /\ DOMAIN sync'[b].ring = 0..RingLength - 1
                    /\ PacketsOK(made', toClient'[b])
                    /\ DataOK(made', state'[b], sync'[b], view'[b], fastForwards'[b])
  BY DEF ViewInv
<1>1. CASE b = c
  BY <1>1
<1>2. CASE b # c
  BY <1>2, ClientStays
<1> QED BY <1>1, <1>2

(* A step of no client, that leaves packets that are in order.             *)
LEMMA NoClientSteps ==
  ASSUME SyncInv, [Next]_vars, UNCHANGED clientVars,
         \A c \in Clients : PacketsOK(made', toClient'[c])
  PROVE  ViewInv'
<1> SUFFICES ASSUME NEW b \in Clients
             PROVE  /\ DOMAIN sync'[b].ring = 0..RingLength - 1
                    /\ DataOK(made', state'[b], sync'[b], view'[b], fastForwards'[b])
  BY DEF SyncInv, ViewInv, clientVars
<1> QED BY ClientStays DEF clientVars

LEMMA PacketAdded ==
  ASSUME NEW m, NEW q \in Seq(Packet), PacketsOK(m, q), NEW p \in Packet, PacketOK(m, p)
  PROVE  PacketsOK(m, q \o <<p>>) /\ q \o <<p>> \in Seq(Packet)
<1> DEFINE r == q \o <<p>>
<1>1. /\ r \in Seq(Packet) /\ Len(r) = Len(q) + 1 /\ Len(q) \in Nat
      /\ r[Len(q) + 1] = p /\ \A j \in 1..Len(q) : r[j] = q[j]
  OBVIOUS
<1> HIDE DEF r
<1>2. ASSUME NEW j \in 1..Len(r) PROVE PacketOK(m, r[j])
  <2>1. CASE j \in 1..Len(q)
    BY <1>1, <2>1 DEF PacketsOK
  <2>2. CASE j = Len(q) + 1
    BY <1>1, <2>2
  <2> QED BY <1>1, <2>1, <2>2
<1>3. PacketsOK(m, r)
  BY <1>2 DEF PacketsOK
<1> QED BY <1>1, <1>3 DEF r

LEMMA NoPacketAdded == ASSUME NEW q \in Seq(Packet) PROVE q \o <<>> = q
OBVIOUS

LEMMA ViewUnpausedTick == ASSUME SyncInv, UnpausedTick PROVE ViewInv'
<1> DEFINE p == Snapshot(tick, world)
           d == Delta(tick, prev.world, world)
           ds == IF prev = NoSnapshot THEN <<>> ELSE <<d>>
<1>1. [Next]_vars
  BY DEF Next, ServerStep
<1>2. /\ tick \in Ticks /\ tick \in Int /\ tick - 1 \in Int /\ world \in Worlds
      /\ made \in [Ticks -> Worlds \union {NoWorld}] /\ made' = [made EXCEPT ![tick] = world]
      /\ toClient' = Send(p, ds) /\ UNCHANGED clientVars
  BY SnapshotsMade DEF SyncInv, GapInv, LastSnapshotIsKept, UnpausedTick
<1>3. made'[tick] = world /\ IsMade(made', tick)
  BY <1>2 DEF IsMade
<1>4. p \in Packet /\ PacketOK(made', p)
  <2>1. p \in Packet /\ ~IsDelta(p) /\ p.tick = tick
    BY SnapshotsMade DEF SyncInv, GapInv
  <2>2. p.world = world
    BY DEF Snapshot
  <2> QED BY <1>3, <2>1, <2>2 DEF PacketOK
<1>5. ASSUME prev # NoSnapshot PROVE d \in Packet /\ PacketOK(made', d)
  <2>1. d \in Packet /\ IsDelta(d) /\ d.tick = tick
    BY <1>5, SnapshotsMade DEF SyncInv, GapInv
  <2>2. made[tick - 1] \in Worlds /\ prev.world = made[tick - 1]
    BY <1>5 DEF SyncInv, GapInv, LastSnapshotIsKept, Snapshot
  <2>3. tick - 1 \in Ticks
    BY SyncAssumption DEF SyncInv, GapInv, LastSnapshotIsKept, Ticks
  <2>4. made'[tick - 1] = prev.world /\ IsMade(made', tick - 1)
    BY <1>2, <2>2, <2>3 DEF IsMade
  <2>5. d = DeltaOf(made', tick)
    BY <1>3, <2>4 DEF DeltaOf
  <2> QED BY <1>3, <2>1, <2>4, <2>5 DEF PacketOK
<1> HIDE DEF p, d
<1>6. ASSUME NEW c \in Clients PROVE PacketsOK(made', toClient'[c])
  <2> DEFINE q == toClient[c]
             r == q \o (IF c \in connected \intersect requesters THEN <<p>> ELSE <<>>)
  <2>1. q \in Seq(Packet)
    BY DEF SyncInv, GapInv, DeltasAreSent, QueueOK
  <2>2. PacketsOK(made', q)
    BY <1>1, <1>2, ClientStays DEF clientVars
  <2>3. toClient'[c] = r \o (IF c \in connected THEN ds ELSE <<>>)
    BY <1>2, SendTypes DEF SyncInv
  <2>4. PacketsOK(made', r) /\ r \in Seq(Packet)
    <3>1. CASE c \in connected \intersect requesters
      BY <1>4, <2>1, <2>2, <3>1, PacketAdded
    <3>2. CASE c \notin connected \intersect requesters
      BY <2>1, <2>2, <3>2, NoPacketAdded
    <3> QED BY <3>1, <3>2
  <2> HIDE DEF r
  <2>5. CASE c \in connected /\ prev # NoSnapshot
    BY <1>5, <2>3, <2>4, <2>5, PacketAdded
  <2>6. CASE ~(c \in connected /\ prev # NoSnapshot)
    BY <2>3, <2>4, <2>6, NoPacketAdded
  <2> QED BY <2>5, <2>6
<1> QED BY <1>1, <1>2, <1>6, NoClientSteps

LEMMA ViewPausedTick == ASSUME SyncInv, PausedTick PROVE ViewInv'
<1> DEFINE p == PausedSnapshot
<1>1. [Next]_vars
  BY DEF Next, ServerStep
<1>2. p \in Packet /\ ~IsDelta(p) /\ p.tick = tick - 1
  BY SnapshotsMade DEF SyncInv, GapInv
<1>3. /\ tick - 1 \in Ticks /\ made \in [Ticks -> Worlds \union {NoWorld}]
      /\ made' = [made EXCEPT ![p.tick] = p.world]
      /\ toClient' = Send(p, <<>>) /\ UNCHANGED clientVars
  BY SyncAssumption DEF SyncInv, GapInv, LastSnapshotIsKept, PausedTick, Ticks
<1>4. p.world \in Worlds
  BY <1>2 DEF Packet, IsDelta
<1>5. PacketOK(made', p)
  BY <1>2, <1>3, <1>4 DEF PacketOK, IsMade
<1> HIDE DEF p
<1>6. ASSUME NEW c \in Clients PROVE PacketsOK(made', toClient'[c])
  <2> DEFINE q == toClient[c]
             r == q \o (IF c \in connected \intersect requesters THEN <<p>> ELSE <<>>)
  <2>1. q \in Seq(Packet)
    BY DEF SyncInv, GapInv, DeltasAreSent, QueueOK
  <2>2. PacketsOK(made', q)
    BY <1>1, <1>3, ClientStays DEF clientVars
  <2>3. toClient'[c] = r \o <<>>
    BY <1>3, SendTypes DEF SyncInv
  <2>4. PacketsOK(made', r) /\ r \in Seq(Packet)
    <3>1. CASE c \in connected \intersect requesters
      BY <1>2, <1>5, <2>1, <2>2, <3>1, PacketAdded
    <3>2. CASE c \notin connected \intersect requesters
      BY <2>1, <2>2, <3>2, NoPacketAdded
    <3> QED BY <3>1, <3>2
  <2> HIDE DEF r
  <2> QED BY <2>3, <2>4, NoPacketAdded
<1> QED BY <1>1, <1>3, <1>6, NoClientSteps

(* Steps of the network and of the server that send nothing.               *)
LEMMA ViewQuietSteps ==
  ASSUME SyncInv, [Next]_vars, UNCHANGED clientVars,
         \A c \in Clients : toClient'[c] = toClient[c] \/ toClient'[c] = <<>>
  PROVE  ViewInv'
<1> SUFFICES ASSUME NEW c \in Clients PROVE PacketsOK(made', toClient'[c])
  BY NoClientSteps
<1>1. PacketsOK(made', toClient[c])
  BY ClientStays DEF clientVars
<1>2. PacketsOK(made', <<>>)
  BY DEF PacketsOK
<1> QED BY <1>1, <1>2

(* A client that has no snapshot, or loses it.                             *)
LEMMA ViewReset ==
  ASSUME SyncInv, NEW c \in Clients, Connect(c) \/ LoseSnapshot(c) \/ FallBehind(c)
  PROVE  ViewInv'
<1>1. [Next]_vars
  BY DEF Next, ClientStep
<1>2. /\ sync' = [sync EXCEPT ![c] = NewSyncData]
      /\ state' = [state EXCEPT ![c] = "Desynchronized"]
      /\ toClient' = toClient \/ toClient' = [toClient EXCEPT ![c] = <<>>]
      /\ view' = view \/ view' = [view EXCEPT ![c] = Nothing]
      /\ fastForwards' = fastForwards \/ fastForwards' = [fastForwards EXCEPT ![c] = 0]
  BY DEF Connect, LoseSnapshot, FallBehind, Desynchronize
<1>3. /\ DOMAIN view' = Clients
      /\ \A b \in Clients : b # c =>
           /\ sync'[b] = sync[b] /\ state'[b] = state[b] /\ view'[b] = view[b]
           /\ fastForwards'[b] = fastForwards[b] /\ toClient'[b] = toClient[b]
  BY <1>2 DEF SyncInv, TimeInv, GapInv, DeltasAreSent, ViewInv
<1>4. sync'[c] = NewSyncData /\ state'[c] = "Desynchronized"
      /\ (toClient'[c] = toClient[c] \/ toClient'[c] = <<>>)
  BY <1>2 DEF SyncInv, TimeInv, GapInv, DeltasAreSent
<1>5. DOMAIN sync'[c].ring = 0..RingLength - 1
  BY <1>4 DEF NewSyncData
<1>6. PacketsOK(made', toClient'[c])
  <2>1. Grows(made, made') /\ PacketsOK(made, toClient[c])
    BY <1>1, MadeGrows DEF SyncInv, ViewInv
  <2>2. PacketsOK(made', <<>>)
    BY DEF PacketsOK
  <2> QED BY <1>4, <2>1, <2>2, PacketsStay
<1>7. DataOK(made', state'[c], sync'[c], view'[c], fastForwards'[c])
  BY <1>4 DEF DataOK
<1> QED BY <1>1, <1>3, <1>5, <1>6, <1>7, OneClientSteps

(* A delta that is stored takes the place of one that has left the ring.   *)
LEMMA DeltaStored ==
  ASSUME NEW m, NEW s, NEW r, DeltasKept(m, s), IsMade(m, s.snapshot),
         s.snapshot \in Int, s.last \in Int, s.received \in Nat,
         s.received > 0 => s.snapshot < s.last,
         DOMAIN s.ring = 0..RingLength - 1,
         NEW p, IsDelta(p), PacketOK(m, p),
         p.tick = IF s.received > 0 THEN s.last + 1 ELSE s.snapshot + 1,
         r.snapshot = s.snapshot, r.last = p.tick, r.received = s.received + 1,
         r.ring = [s.ring EXCEPT ![p.tick % RingLength] = p]
  PROVE  DeltasKept(m, r)
<1>1. RingLength \in Nat \ {0} /\ p.tick \in Int /\ IsMade(m, p.tick) /\ p = DeltaOf(m, p.tick)
  BY SyncAssumption DEF PacketOK
<1>2. p.tick % RingLength \in 0..RingLength - 1
  BY <1>1, Division
<1>3. RingGet(r.ring, p.tick) = DeltaOf(m, p.tick)
  BY <1>1, <1>2 DEF RingGet
<1>4. CASE s.received = 0
  <2>1. \A t \in s.snapshot..p.tick : t = s.snapshot \/ t = p.tick
    BY <1>1, <1>4
  <2>2. \A t \in s.snapshot + 1..p.tick : t = p.tick
    BY <1>1, <1>4
  <2> QED BY <1>1, <1>3, <2>1, <2>2 DEF DeltasKept
<1>5. CASE s.received > 0
  <2>1. \A t \in s.snapshot..p.tick : t \in s.snapshot..s.last \/ t = p.tick
    BY <1>1, <1>5
  <2>2. \A t \in s.snapshot..p.tick : IsMade(m, t)
    BY <1>1, <1>5, <2>1 DEF DeltasKept
  <2>3. ASSUME NEW t \in s.snapshot + 1..p.tick, t > p.tick - RingLength, t # p.tick
        PROVE  RingGet(r.ring, t) = DeltaOf(m, t)
    <3>1. t \in s.snapshot + 1..s.last /\ t > s.last - RingLength /\ t < p.tick
          /\ p.tick - t < RingLength /\ t \in Int
      BY <1>1, <1>5, <2>3
    <3>2. t % RingLength # p.tick % RingLength
      BY <1>1, <3>1, PlacesDiffer
    <3>3. RingGet(r.ring, t) = RingGet(s.ring, t)
      <4>1. t % RingLength \in 0..RingLength - 1
        BY <1>1, <3>1, Division
      <4> QED BY <3>2, <4>1 DEF RingGet
    <3>4. RingGet(s.ring, t) = DeltaOf(m, t)
      BY <1>5, <3>1 DEF DeltasKept
    <3> QED BY <3>3, <3>4
  <2> QED BY <1>3, <2>2, <2>3 DEF DeltasKept
<1> QED BY <1>4, <1>5

(* The first packet, and those behind it.                                  *)
LEMMA PacketsTaken ==
  ASSUME NEW m, NEW q \in Seq(Packet), q # <<>>, PacketsOK(m, q)
  PROVE  PacketOK(m, Head(q)) /\ PacketsOK(m, Tail(q)) /\ Head(q) \in Packet
<1>1. Len(q) \in Nat /\ 1 \in 1..Len(q) /\ Head(q) = q[1] /\ q[1] \in Packet
  OBVIOUS
<1>2. Len(Tail(q)) = Len(q) - 1 /\ \A j \in 1..Len(q) - 1 : Tail(q)[j] = q[j + 1]
  OBVIOUS
<1>3. \A j \in 1..Len(Tail(q)) : j + 1 \in 1..Len(q) /\ Tail(q)[j] = q[j + 1]
  BY <1>1, <1>2
<1> QED BY <1>1, <1>3 DEF PacketsOK

LEMMA ViewReceive ==
  ASSUME SyncInv, NEW c \in Clients, ReceiveSnapshot(c) \/ ReceiveDelta(c) PROVE ViewInv'
<1> DEFINE q == toClient[c]
           p == Head(q)
<1>1. [Next]_vars
  BY DEF Next, ClientStep
<1>2. /\ q # <<>> /\ toClient' = [toClient EXCEPT ![c] = Tail(q)] /\ made' = made
      /\ fastForwards' = fastForwards
  BY DEF ReceiveSnapshot, ReceiveDelta, FromServer, serverVars
<1>3. q \in Seq(Packet) /\ DOMAIN toClient = Clients
  BY DEF SyncInv, GapInv, DeltasAreSent, QueueOK
<1>4. PacketOK(made, p) /\ PacketsOK(made, Tail(q)) /\ p \in Packet /\ p.tick \in Int
  BY <1>2, <1>3, PacketsTaken, PacketTicks DEF SyncInv, ViewInv
<1>5. DataOK(made, state[c], sync[c], view[c], fastForwards[c])
      /\ DOMAIN sync[c].ring = 0..RingLength - 1
  BY DEF SyncInv, ViewInv
<1>6. PacketsOK(made', toClient'[c])
  BY <1>2, <1>3, <1>4
<1>7. /\ DOMAIN sync = Clients /\ DOMAIN state = Clients /\ DOMAIN view = Clients
      /\ {"tick", "last", "snapshot", "received", "ring", "history"} \subseteq DOMAIN sync[c]
      /\ sync[c].snapshot \in Int /\ sync[c].last \in Int /\ sync[c].received \in Nat
      /\ sync[c].tick \in Int
      /\ sync[c].received > 0 => sync[c].snapshot < sync[c].last
      /\ state[c] = "Desynchronized" => sync[c].received = 0
      /\ state[c] = "Synchronized" => sync[c].received > 0 /\ sync[c].tick <= sync[c].last * Steps
  BY DEF SyncInv, TimeInv, ViewInv
<1>8. CASE ReceiveSnapshot(c) /\ state[c] = "Desynchronized"
  <2>1. /\ sync' = [sync EXCEPT ![c].snapshot = p.tick]
        /\ state' = [state EXCEPT ![c] = "Synchronizing"]
        /\ view' = [view EXCEPT ![c] = Show(p.world)] /\ ~IsDelta(p)
    BY <1>8 DEF ReceiveSnapshot, FromServer, IsDelta
  <2> HIDE DEF p, q
  <2>2. /\ sync'[c].snapshot = p.tick /\ sync'[c].received = 0 /\ sync'[c].ring = sync[c].ring
        /\ state'[c] = "Synchronizing" /\ view'[c] = Show(p.world) /\ DOMAIN view' = Clients
    BY <1>7, <1>8, <2>1
  <2>3. \A b \in Clients : b # c =>
          sync'[b] = sync[b] /\ state'[b] = state[b] /\ view'[b] = view[b]
          /\ toClient'[b] = toClient[b]
    BY <1>2, <1>3, <1>7, <2>1
  <2>4. IsMade(made, p.tick) /\ p.world = made[p.tick]
    BY <1>4, <2>1 DEF PacketOK
  <2>5. DataOK(made', state'[c], sync'[c], view'[c], fastForwards'[c])
    BY <1>2, <2>2, <2>4 DEF DataOK, DeltasKept
  <2> QED BY <1>1, <1>2, <1>5, <1>6, <2>2, <2>3, <2>5, OneClientSteps
<1>9. CASE ReceiveDelta(c) /\ state[c] # "Desynchronized" /\ p.tick = ExpectedTick(c)
  <2>1. /\ sync' = [sync EXCEPT ![c].ring[p.tick % RingLength] = p,
                                ![c].last = p.tick,
                                ![c].received = @ + 1]
        /\ state' = state /\ view' = view /\ IsDelta(p)
    BY <1>9 DEF ReceiveDelta, FromServer, IsDelta
  <2> HIDE DEF p, q
  <2>2. /\ sync'[c].ring = [sync[c].ring EXCEPT ![p.tick % RingLength] = p]
        /\ sync'[c].last = p.tick /\ sync'[c].received = sync[c].received + 1
        /\ sync'[c].snapshot = sync[c].snapshot /\ sync'[c].tick = sync[c].tick
    BY <1>7, <2>1
  <2>3. \A b \in Clients : b # c => sync'[b] = sync[b] /\ toClient'[b] = toClient[b]
    BY <1>2, <1>3, <1>7, <2>1
  <2>4. DeltasKept(made, sync'[c])
    <3>1. p.tick = IF sync[c].received > 0 THEN sync[c].last + 1 ELSE sync[c].snapshot + 1
      BY <1>9 DEF ExpectedTick
    <3>2. DeltasKept(made, sync[c]) /\ IsMade(made, sync[c].snapshot)
      BY <1>5, <1>9 DEF DataOK
    <3> QED BY <1>4, <1>5, <1>7, <2>1, <2>2, <3>1, <3>2, DeltaStored
  <2>5. DOMAIN sync'[c].ring = 0..RingLength - 1
    BY <1>5, <2>2
  <2>6. DataOK(made', state'[c], sync'[c], view'[c], fastForwards'[c])
    BY <1>2, <1>5, <2>1, <2>2, <2>4 DEF DataOK
  <2> QED BY <1>1, <1>2, <1>6, <1>7, <2>1, <2>3, <2>5, <2>6, OneClientSteps
<1>10. CASE UNCHANGED <<sync, state, view>>
  <2>1. \A b \in Clients : b # c => toClient'[b] = toClient[b]
    BY <1>2, <1>3
  <2>2. DataOK(made', state'[c], sync'[c], view'[c], fastForwards'[c])
    BY <1>2, <1>5, <1>10
  <2> QED BY <1>1, <1>2, <1>5, <1>6, <1>7, <1>10, <2>1, <2>2, OneClientSteps
<1> QED BY <1>8, <1>9, <1>10 DEF ReceiveSnapshot, ReceiveDelta

(* What a client shows when a frame starts.                                *)
LEMMA FrameStarts ==
  ASSUME SyncInv, NEW c \in Clients, CanProcess(c)
  PROVE  /\ sync[c].snapshot * Steps <= StartTick(c)
         /\ fastForwards[c] = 0 \/ state[c] # "Synchronized" =>
              ShowsTime(made, view[c], StartTick(c))
         /\ DeltasKept(made, sync[c]) /\ IsMade(made, sync[c].snapshot)
<1>1. /\ state[c] # "Desynchronized"
      /\ DataOK(made, state[c], sync[c], view[c], fastForwards[c])
      /\ sync[c].snapshot \in Int
  BY DEF CanProcess, SyncInv, ViewInv, TimeInv
<1>2. CASE state[c] = "Synchronized"
  BY <1>1, <1>2 DEF DataOK, StartTick
<1>3. CASE state[c] # "Synchronized"
  <2> DEFINE t == sync[c].snapshot * Steps
  <2>1. StartTick(c) = t /\ t \in Int /\ view[c] = Show(made[sync[c].snapshot])
    BY <1>1, <1>3, LaterTick DEF DataOK, StartTick
  <2>2. t % Steps = 0 /\ FloorTick(t) = sync[c].snapshot
    <3>1. Steps \in Nat \ {0} /\ sync[c].snapshot * Steps <= t /\ t <= sync[c].snapshot * Steps
      BY <1>1, <2>1, SyncAssumption
    <3>2. FloorTick(t) = sync[c].snapshot
          /\ (t % Steps # 0 => FloorTick(t) + 1 = sync[c].snapshot)
      <4> HIDE DEF t
      <4>1. /\ FloorTick(t) \in sync[c].snapshot..sync[c].snapshot
            /\ t % Steps # 0 => FloorTick(t) + 1 \in sync[c].snapshot..sync[c].snapshot
        BY <1>1, <2>1, <3>1, TicksOfTime
      <4> QED BY <1>1, <4>1
    <3> HIDE DEF t
    <3> QED BY <1>1, <3>1, <3>2
  <2> HIDE DEF t
  <2>3. ShowsTime(made, view[c], t)
    BY <2>1, <2>2 DEF ShowsTime, Show
  <2> QED BY <1>1, <1>3, <2>1, <2>3 DEF DataOK, t
<1> QED BY <1>2, <1>3

LEMMA ViewFrames ==
  ASSUME SyncInv, NEW c \in Clients, NEW n \in 1..MaxFrame, WaitFrame(c, n) \/ AdvanceFrame(c, n)
  PROVE  ViewInv'
<1> DEFINE from == StartTick(c)
           to == from + n
           last == sync[c].last * Steps
<1>1. [Next]_vars
  BY DEF Next, ClientStep
<1>2. /\ CanProcess(c) /\ ~BehindRing(c) /\ state' = [state EXCEPT ![c] = "Synchronized"]
      /\ made' = made /\ toClient' = toClient
  BY DEF WaitFrame, AdvanceFrame, InFrame, serverVars, netVars
<1>3. /\ from \in Int /\ last \in Int /\ to \in Int /\ from <= last /\ from < to
      /\ sync[c].received > 0
  BY <1>2, TimeOfFrame DEF SyncInv
<1>4. /\ sync[c].snapshot * Steps <= from
      /\ fastForwards[c] = 0 \/ state[c] # "Synchronized" => ShowsTime(made, view[c], from)
      /\ DeltasKept(made, sync[c]) /\ IsMade(made, sync[c].snapshot)
  BY <1>2, FrameStarts
<1>5. /\ DOMAIN sync = Clients /\ DOMAIN state = Clients /\ DOMAIN view = Clients
      /\ fastForwards \in [Clients -> Nat]
      /\ {"tick", "last", "snapshot", "received", "ring", "history"} \subseteq DOMAIN sync[c]
      /\ sync[c].snapshot \in Int /\ sync[c].last \in Int
      /\ DOMAIN sync[c].ring = 0..RingLength - 1
      /\ PacketsOK(made, toClient[c])
      /\ sync[c].snapshot * Steps \in Int
  BY LaterTick DEF SyncInv, TimeInv, ViewInv
<1>6. \E t, h :
        /\ t \in Int /\ from <= t
        /\ sync' = [sync EXCEPT ![c].tick = t, ![c].history = h]
        /\ \A b \in Clients : b # c => fastForwards'[b] = fastForwards[b] /\ view'[b] = view[b]
        /\ DOMAIN view' = Clients
        /\ fastForwards'[c] = 0 => ShowsTime(made, view'[c], t)
  <2>1. CASE WaitFrame(c, n)
    <3>1. /\ \E h : sync' = [sync EXCEPT ![c].tick = from, ![c].history = h]
          /\ fastForwards' = fastForwards /\ view' = view
      BY <2>1 DEF WaitFrame
    <3>2. PICK h : sync' = [sync EXCEPT ![c].tick = from, ![c].history = h]
      BY <3>1
    <3>3. fastForwards[c] = 0 => ShowsTime(made, view[c], from)
      BY <1>4
    <3>4. fastForwards'[c] = 0 => ShowsTime(made, view'[c], from)
      <4> HIDE DEF from
      <4>1. fastForwards'[c] = fastForwards[c] /\ view'[c] = view[c]
        BY <3>1
      <4> QED BY <3>3, <4>1
    <3>5. from \in Int /\ from <= from
      <4> HIDE DEF from
      <4> QED BY <1>3
    <3>6. /\ \A b \in Clients : b # c => fastForwards'[b] = fastForwards[b] /\ view'[b] = view[b]
          /\ DOMAIN view' = Clients
      BY <1>5, <3>1
    <3> HIDE DEF from, last
    <3> WITNESS from, h
    <3> QED BY <3>2, <3>4, <3>5, <3>6
  <2>2. CASE AdvanceFrame(c, n)
    <3> DEFINE history == WriteHistory(EnterSecond(sync[c].history, from, to), to, last - to)
               forward == to + ForwardBy(history)
               shown == Applied(view[c], sync[c].ring, from, to)
    <3>1. /\ to <= last
          /\ view' = [view EXCEPT ![c] = shown]
      BY <1>3, <2>2 DEF AdvanceFrame, OutOfDeltas
    <3>2. /\ \A b \in Clients : b # c => view'[b] = view[b]
          /\ view'[c] = shown /\ DOMAIN view' = Clients
      <4> HIDE DEF shown
      <4> QED BY <1>5, <3>1
    <3>3. CASE MayFastForward(history)
      <4>1. /\ sync' = [sync EXCEPT ![c].tick = forward,
                          ![c].history = [history EXCEPT ![HistoryIndex(forward)] = last - forward]]
            /\ fastForwards' = [fastForwards EXCEPT ![c] = @ + 1]
        BY <2>2, <3>3 DEF AdvanceFrame
      <4>2. /\ fastForwards'[c] # 0
            /\ \A b \in Clients : b # c => fastForwards'[b] = fastForwards[b]
        BY <1>5, <4>1
      <4>3. forward \in Int /\ from <= forward
        <5>1. HistoryOK(history)
          <6>1. HistoryOK(sync[c].history)
            BY DEF SyncInv, TimeInv
          <6>2. HistoryOK(EnterSecond(sync[c].history, from, to))
            BY <1>3, <6>1, HistoryWritten
          <6>3. last - to \in Int
            BY <1>3
          <6> HIDE DEF from, last
          <6> QED BY <1>3, <6>2, <6>3, HistoryWritten
        <5>2. 0 \in 0..HistoryLength - 1
          BY SyncAssumption
        <5>3. ForwardBy(history) \in Nat
          <6> HIDE DEF history
          <6> QED BY <3>3, <5>1, <5>2, FastForwardIsAhead
        <5> HIDE DEF history, from
        <5> QED BY <1>3, <5>3
      <4> DEFINE h == [history EXCEPT ![HistoryIndex(forward)] = last - forward]
      <4>4. sync' = [sync EXCEPT ![c].tick = forward, ![c].history = h]
        BY <4>1
      <4> HIDE DEF h, forward
      <4> WITNESS forward, h
      <4> QED BY <3>2, <4>2, <4>3, <4>4
    <3>4. CASE ~MayFastForward(history)
      <4>1. /\ sync' = [sync EXCEPT ![c].tick = to, ![c].history = history]
            /\ fastForwards' = fastForwards
        BY <2>2, <3>4 DEF AdvanceFrame
      <4>2. fastForwards[c] = 0 => ShowsTime(made, shown, to)
        <5>1. EarliestValid(sync[c]) <= CeilTick(from)
          <6>1. EarliestValid(sync[c]) \in Int /\ CeilTick(from) \in Int
            <7>1. sync[c].snapshot * Steps <= from /\ from <= sync[c].last * Steps
              BY <1>3, <1>4
            <7>2. CeilTick(from) \in Int
              <8> HIDE DEF from
              <8> QED BY <1>3, <1>5, <7>1, TicksOfTime
            <7> QED BY <1>5, <7>2, SyncAssumption DEF EarliestValid
          <6> QED BY <1>2, <6>1 DEF BehindRing
        <5>2. sync[c].snapshot \in Int /\ -1 <= sync[c].snapshot
          BY <1>4 DEF IsMade, Ticks
        <5> QED BY <1>3, <1>4, <1>5, <3>1, <5>1, <5>2, AppliedExact
      <4> HIDE DEF history, shown, to
      <4> WITNESS to, history
      <4> QED BY <1>3, <3>2, <4>1, <4>2
    <3> QED BY <3>3, <3>4
  <2> QED BY <2>1, <2>2
<1>7. PICK t, h :
        /\ t \in Int /\ from <= t
        /\ sync' = [sync EXCEPT ![c].tick = t, ![c].history = h]
        /\ \A b \in Clients : b # c => fastForwards'[b] = fastForwards[b] /\ view'[b] = view[b]
        /\ DOMAIN view' = Clients
        /\ fastForwards'[c] = 0 => ShowsTime(made, view'[c], t)
  BY <1>6
<1>8. /\ \A b \in Clients : b # c => sync'[b] = sync[b] /\ state'[b] = state[b]
      /\ state'[c] = "Synchronized"
      /\ sync'[c].tick = t /\ sync'[c].ring = sync[c].ring
      /\ sync'[c].last = sync[c].last /\ sync'[c].snapshot = sync[c].snapshot
      /\ sync'[c].received = sync[c].received
  BY <1>2, <1>5, <1>7
<1> HIDE DEF from
<1>9. DeltasKept(made, sync'[c])
  BY <1>4, <1>8 DEF DeltasKept
<1>10. sync'[c].snapshot * Steps <= t
  BY <1>3, <1>4, <1>5, <1>7, <1>8
<1>11. DataOK(made', state'[c], sync'[c], view'[c], fastForwards'[c])
  BY <1>2, <1>4, <1>7, <1>8, <1>9, <1>10 DEF DataOK
<1> QED BY <1>1, <1>2, <1>5, <1>7, <1>8, <1>11, OneClientSteps

LEMMA SyncNext == SyncInv /\ [Next]_vars => SyncInv'
<1> SUFFICES ASSUME SyncInv, [Next]_vars PROVE SyncInv'
  OBVIOUS
<1>1. GapInv' /\ TimeInv'
  BY GapNext, TimeNext DEF SyncInv
<1> SUFFICES ViewInv'
  BY <1>1 DEF SyncInv
<1>2. CASE StartSession \/ EndSession \/ ChangeWorld \/ UNCHANGED vars
  BY <1>2, ViewQuietSteps DEF StartSession, EndSession, ChangeWorld, vars, netVars
<1>3. CASE UnpausedTick \/ PausedTick
  BY <1>3, ViewUnpausedTick, ViewPausedTick
<1>4. ASSUME NEW c \in Clients, PeerConnected(c) \/ ReceiveSnapshotRequest(c) \/ Disconnect(c)
      PROVE  ViewInv'
  <2>1. \A b \in Clients : toClient'[b] = toClient[b] \/ toClient'[b] = <<>>
    BY <1>4 DEF PeerConnected, ReceiveSnapshotRequest, Disconnect, SyncInv, GapInv, DeltasAreSent
  <2> QED BY <1>4, <2>1, ViewQuietSteps DEF PeerConnected, ReceiveSnapshotRequest, Disconnect
<1>5. ASSUME NEW c \in Clients, Connect(c) \/ ClientStep(c)
      PROVE  ViewInv'
  BY <1>5, ViewReset, ViewReceive, ViewFrames DEF ClientStep
<1> QED BY <1>2, <1>3, <1>4, <1>5 DEF Next, ServerStep

(* A synchronized client that has not fast-forwarded shows the snapshot of *)
(* its tick, for any ring and any frames: no delta that it applies is      *)
(* missing, and none was overwritten.  From tick 0 on it is on its way to  *)
(* the next snapshot between two ticks; between -1 and 0 it stands still   *)
(* (ApplyDeltasSince).                                                     *)
THEOREM ClientsShowTheirTick == Spec => []ViewIsExact
<1>1. Init => SyncInv
  BY GapInit, TimeInit, ViewInit DEF SyncInv
<1>2. SyncInv => ViewIsExact
  BY DEF SyncInv, ViewInv, DataOK, ViewIsExact, ShowsItsTick, ShowsTime
<1> QED BY <1>1, <1>2, SyncNext, PTL DEF Spec

-----------------------------------------------------------------------------
(***************************************************************************)
(* What the variables hold.                                                *)
(***************************************************************************)

DeltaPackets == {p \in Packet : IsDelta(p)}
ShownWorlds == Worlds \union {NoWorld, Mixed.world}
Views == [world : ShownWorlds, towards : ShownWorlds]
Histories == [0..HistoryLength - 1 -> -1..Infinity]

(* The data of a client in state st: its time is that of a tick only when  *)
(* it is synchronized, and its ring holds deltas only.                     *)
ClientTyped(st, s, v) ==
  /\ st \in {"Desynchronized", "Synchronizing", "Synchronized"}
  /\ st # "Synchronized" => s.tick = Null
  /\ s.last \in Ticks \union {Null} /\ s.snapshot \in Ticks \union {Null}
  /\ \A i \in 0..RingLength - 1 : s.ring[i] \in DeltaPackets \union {NoDelta}
  /\ s.history \in Histories
  /\ v \in Views

ServerTyped ==
  /\ session \in {"before", "playing", "after"}
  /\ requesters \subseteq Clients
  /\ connected \subseteq Clients /\ noticed \subseteq connected
  /\ toServer \in [Clients -> Nat]
  /\ connects \in Nat

TypeInv == ServerTyped /\ \A c \in Clients : ClientTyped(state[c], sync[c], view[c])

LEMMA Constants ==
  /\ Steps \in Nat \ {0} /\ RingLength \in Nat \ {0} /\ HistoryLength \in Nat \ {0}
  /\ MinSafe \in Nat /\ MaxFrame \in Nat /\ MaxTick \in Nat
  /\ MaxTick * Steps \in Nat
  /\ Infinity \in Nat /\ Infinity = (MaxTick * Steps + Steps) + Steps
  /\ (-1) * Steps = -Steps
<1>1. /\ Steps \in Nat \ {0} /\ RingLength \in Nat \ {0} /\ HistoryLength \in Nat \ {0}
      /\ MinSafe \in Nat /\ MaxFrame \in Nat /\ MaxTick \in Nat
  BY SyncAssumption
<1>2. /\ (MaxTick + 2) * Steps = (MaxTick * Steps + Steps) + Steps /\ MaxTick * Steps \in Nat
      /\ (-1) * Steps = -Steps
  BY <1>1
<1> QED BY <1>1, <1>2 DEF Infinity

LEMMA NoticedStay == ServerTyped /\ UNCHANGED <<session, requesters, netVars>> => ServerTyped'
BY DEF ServerTyped, netVars

(* Deltas of any kind, applied to what is shown, show something.           *)
LEMMA AppliedTyped ==
  ASSUME NEW v \in Views, NEW d \in DeltaPackets \union {NoDelta}
  PROVE  ApplyDelta(v, d) \in Views /\ ApplyPartly(v, d) \in Views
<1>1. /\ Mixed \in Views
      /\ \A w \in Worlds : Show(w) \in Views
      /\ \A u, w \in Worlds : [world |-> u, towards |-> w] \in Views
  BY DEF Views, ShownWorlds, Mixed, Show
<1>2. d # NoDelta => d.to \in Worlds /\ d.from \in Worlds
  BY DEF DeltaPackets, Packet, IsDelta
<1>3. d = NoDelta => ~Fits(v, d)
  BY DEF NoDelta, Delta, Fits
<1> QED BY <1>1, <1>2, <1>3 DEF ApplyDelta, ApplyPartly

(* What is shown at each of the ticks passed.                              *)
PassedOf(v, ring, first, last, f) ==
  f = [t \in first..last |->
        IF t = first THEN v ELSE ApplyDelta(f[t - 1], RingGet(ring, t))]

LEMMA PassedExist ==
  ASSUME NEW v, NEW ring, NEW first \in Int, NEW m \in Nat
  PROVE  \E f : PassedOf(v, ring, first, first + m, f)
<1> DEFINE Wrong == {k \in Nat : ~ \E f : PassedOf(v, ring, first, first + k, f)}
<1> SUFFICES ASSUME Wrong # {} PROVE FALSE
  OBVIOUS
<1>1. PICK k \in Wrong : \A y \in Wrong : k <= y
  <2>1. Wrong \in SUBSET Nat
    OBVIOUS
  <2>2. Min(Wrong) \in Wrong /\ \A y \in Wrong : Min(Wrong) <= y
    <3> HIDE DEF Wrong
    <3> QED BY <2>1, LeastNumber
  <2> HIDE DEF Wrong
  <2> QED BY <2>2
<1>2. k \in Nat /\ ~ \E f : PassedOf(v, ring, first, first + k, f)
  BY <1>1
<1>3. PICK last \in Int : last = first + k /\ first <= last
  BY <1>2
<1>4. CASE k = 0
  <2> DEFINE g == [t \in first..last |-> v]
  <2>1. first = last
    BY <1>3, <1>4
  <2>2. g = [t \in first..last |->
              IF t = first THEN v ELSE ApplyDelta(g[t - 1], RingGet(ring, t))]
    <3>1. \A t \in first..last : t = first
      BY <2>1
    <3> QED BY <3>1
  <2> HIDE DEF g
  <2> QED BY <1>2, <1>3, <2>2 DEF PassedOf
<1>5. CASE k # 0
  <2>1. k - 1 \in Nat /\ k - 1 \notin Wrong /\ first + (k - 1) = last - 1 /\ first <= last - 1
    <3> HIDE DEF Wrong
    <3> QED BY <1>1, <1>2, <1>3, <1>5
  <2>2. PICK f : PassedOf(v, ring, first, last - 1, f)
    BY <2>1
  <2> DEFINE step(x, t) == ApplyDelta(x, RingGet(ring, t))
             g == [t \in first..last |-> IF t = last THEN step(f[last - 1], last) ELSE f[t]]
  <2>3. f = [t \in first..last - 1 |-> IF t = first THEN v ELSE step(f[t - 1], t)]
    BY <2>2 DEF PassedOf
  <2> HIDE DEF step
  <2>4. \A t \in first..last - 1 : f[t] = IF t = first THEN v ELSE step(f[t - 1], t)
    BY <2>3
  <2>5. ASSUME NEW t \in first..last
        PROVE  g[t] = IF t = first THEN v ELSE step(g[t - 1], t)
    <3>1. CASE t = first
      <4>1. t # last /\ t \in first..last - 1
        BY <1>3, <2>1, <3>1
      <4> QED BY <2>4, <3>1, <4>1
    <3>2. CASE t # first /\ t # last
      <4>1. t \in first..last - 1 /\ t - 1 \in first..last /\ t - 1 # last
        BY <1>3, <3>2
      <4>2. g[t] = f[t] /\ g[t - 1] = f[t - 1]
        BY <3>2, <4>1
      <4> HIDE DEF g
      <4> QED BY <2>4, <3>2, <4>1, <4>2
    <3>3. CASE t # first /\ t = last
      <4>1. t - 1 \in first..last /\ t - 1 # last
        BY <1>3, <3>3
      <4>2. g[t] = step(f[last - 1], last) /\ g[t - 1] = f[t - 1]
        BY <3>3, <4>1
      <4> HIDE DEF g
      <4> QED BY <3>3, <4>2
    <3> QED BY <3>1, <3>2, <3>3
  <2>6. g = [t \in first..last |-> g[t]]
    OBVIOUS
  <2>7. [t \in first..last |-> g[t]] = [t \in first..last |-> IF t = first THEN v ELSE step(g[t - 1], t)]
    <3> HIDE DEF g
    <3> QED BY <2>5
  <2>8. PassedOf(v, ring, first, last, g)
    <3> HIDE DEF g
    <3> QED BY <2>6, <2>7 DEF PassedOf, step
  <2> QED BY <1>2, <1>3, <2>8
<1> QED BY <1>4, <1>5

(* There is no least tick at which something else would be shown.          *)
LEMMA PassedTyped ==
  ASSUME NEW v \in Views, NEW ring, NEW first \in Int, NEW last \in Int, first <= last,
         \A t \in Int : RingGet(ring, t) \in DeltaPackets \union {NoDelta}
  PROVE  ApplyPassed(v, ring, first, last) \in Views
<1> DEFINE f == CHOOSE f : PassedOf(v, ring, first, last, f)
<1>1. PassedOf(v, ring, first, last, f)
  <2>1. last - first \in Nat /\ first + (last - first) = last
    OBVIOUS
  <2>2. \E g : PassedOf(v, ring, first, first + (last - first), g)
    BY <2>1, PassedExist
  <2> QED BY <2>1, <2>2
<1>2. ApplyPassed(v, ring, first, last) = f[last]
  BY DEF ApplyPassed, PassedOf
<1>3. \A t \in first..last :
        f[t] = IF t = first THEN v ELSE ApplyDelta(f[t - 1], RingGet(ring, t))
  <2> HIDE DEF f
  <2> QED BY <1>1 DEF PassedOf
<1> HIDE DEF f
<1> DEFINE Wrong == {k \in Nat : first + k <= last /\ f[first + k] \notin Views}
<1>4. Wrong # {} => FALSE
  <2> SUFFICES ASSUME Wrong # {} PROVE FALSE
    OBVIOUS
  <2>1. PICK k \in Wrong : \A y \in Wrong : k <= y
    <3>1. Wrong \in SUBSET Nat
      OBVIOUS
    <3>2. Min(Wrong) \in Wrong /\ \A y \in Wrong : Min(Wrong) <= y
      <4> HIDE DEF Wrong
      <4> QED BY <3>1, LeastNumber
    <3> HIDE DEF Wrong
    <3> QED BY <3>2
  <2>2. PICK t \in first..last : t = first + k /\ f[t] \notin Views
    BY <2>1
  <2>3. k \in Nat /\ t # first
    BY <1>3, <2>1, <2>2
  <2>4. t - 1 \in first..last /\ f[t - 1] \in Views
    <3>1. k - 1 \in Nat /\ first + (k - 1) = t - 1 /\ t - 1 \in first..last
      BY <2>2, <2>3
    <3>2. k - 1 \notin Wrong
      <4> HIDE DEF Wrong
      <4> QED BY <2>1, <2>3, <3>1
    <3> QED BY <3>1, <3>2
  <2>5. f[t] = ApplyDelta(f[t - 1], RingGet(ring, t))
    BY <1>3, <2>2, <2>3
  <2> QED BY <2>2, <2>4, <2>5, AppliedTyped
<1>5. last - first \in Nat /\ first + (last - first) = last
  OBVIOUS
<1>6. last - first \notin Wrong
  <2> HIDE DEF Wrong
  <2> QED BY <1>4
<1>7. f[last] \in Views
  <2>1. \A k \in Nat : k \notin Wrong /\ first + k <= last => f[first + k] \in Views
    OBVIOUS
  <2> HIDE DEF Wrong
  <2> QED BY <1>5, <1>6, <2>1
<1> QED BY <1>2, <1>7

LEMMA FrameTyped ==
  ASSUME NEW v \in Views, NEW ring, NEW from \in Int, NEW to \in Int, from <= to,
         \A i \in 0..RingLength - 1 : ring[i] \in DeltaPackets \union {NoDelta}
  PROVE  Applied(v, ring, from, to) \in Views
<1>1. Steps \in Nat \ {0} /\ RingLength \in Nat \ {0}
  BY Constants
<1>2. \A t \in Int : RingGet(ring, t) \in DeltaPackets \union {NoDelta}
  <2> SUFFICES ASSUME NEW t \in Int PROVE RingGet(ring, t) \in DeltaPackets \union {NoDelta}
    OBVIOUS
  <2>1. t % RingLength \in 0..RingLength - 1
    BY <1>1
  <2> QED BY <2>1 DEF RingGet
<1>3. /\ FloorTick(from) \in Int /\ FloorTick(to) \in Int
      /\ from % Steps \in 0..Steps - 1 /\ to % Steps \in 0..Steps - 1
      /\ from = Steps * FloorTick(from) + (from % Steps)
      /\ to = Steps * FloorTick(to) + (to % Steps)
  BY <1>1, Division DEF FloorTick
<1>4. FloorTick(from) <= FloorTick(to)
  <2>1. FloorTick(to) < FloorTick(from) =>
          FloorTick(to) * Steps + Steps <= FloorTick(from) * Steps
    BY <1>1, <1>3, Multiples
  <2> QED BY <1>1, <1>3, <2>1
<1>5. ApplyPassed(v, ring, FloorTick(from), FloorTick(to)) \in Views
  BY <1>2, <1>3, <1>4, PassedTyped
<1>6. RingGet(ring, FloorTick(to) + 1) \in DeltaPackets \union {NoDelta}
  BY <1>2, <1>3
<1> QED BY <1>5, <1>6, AppliedTyped DEF Applied

(* Writing the history keeps it one of numbers of buffered steps.          *)
LEMMA HistoryTyped ==
  ASSUME NEW h \in Histories, NEW from \in Int, NEW to \in Int, NEW buffer \in -1..Infinity
  PROVE  /\ EnterSecond(h, from, to) \in Histories
         /\ WriteHistory(h, to, buffer) \in Histories
         /\ [h EXCEPT ![HistoryIndex(to)] = buffer] \in Histories
<1>1. HistoryIndex(to) \in 0..HistoryLength - 1
  BY HistoryIndexed
<1>2. Infinity \in -1..Infinity
  BY Constants
<1>3. \A b \in -1..Infinity : [h EXCEPT ![HistoryIndex(to)] = b] \in Histories
  BY <1>1 DEF Histories
<1> QED BY <1>2, <1>3 DEF EnterSecond, WriteHistory

LEMMA ShownTyped ==
  ASSUME NEW w \in Worlds \union {NoWorld} PROVE Show(w) \in Views
BY DEF Show, Views, ShownWorlds

LEMMA NewDataTyped == \A v \in Views : ClientTyped("Desynchronized", NewSyncData, v)
<1>1. NewSyncData.history \in Histories
  <2>1. 0 \in -1..Infinity
    BY Constants
  <2> QED BY <2>1 DEF NewSyncData, Histories
<1> QED BY <1>1 DEF ClientTyped, NewSyncData

LEMMA TypeInit == Init => TypeInv
<1> SUFFICES ASSUME Init PROVE TypeInv
  OBVIOUS
<1>1. ServerTyped
  BY DEF Init, ServerTyped
<1>2. Nothing \in Views
  BY ShownTyped DEF Nothing
<1> QED BY <1>1, <1>2, NewDataTyped DEF Init, TypeInv

(* A step of one client.                                                   *)
LEMMA OneClientTyped ==
  ASSUME TypeInv, NEW c \in Clients, ServerTyped',
         \A b \in Clients : b # c =>
           sync'[b] = sync[b] /\ state'[b] = state[b] /\ view'[b] = view[b],
         ClientTyped(state'[c], sync'[c], view'[c])
  PROVE  TypeInv'
BY DEF TypeInv

(* Steps of no client.                                                     *)
LEMMA TypeQuietSteps ==
  ASSUME TypeInv, ServerTyped', UNCHANGED clientVars PROVE TypeInv'
BY DEF TypeInv, clientVars

LEMMA RequestsTyped ==
  ASSUME ServerTyped, NEW c \in Clients, NEW n \in Nat
  PROVE  [toServer EXCEPT ![c] = n] \in [Clients -> Nat]
BY DEF ServerTyped

LEMMA ServerStepsTyped ==
  ASSUME SyncInv, TypeInv, ServerStep PROVE TypeInv'
<1>1. UNCHANGED <<connected, noticed, toServer, connects, clientVars>>
  BY DEF ServerStep, StartSession, EndSession, ChangeWorld, UnpausedTick, PausedTick, netVars
<1>2. session' \in {"before", "playing", "after"} /\ requesters' \subseteq Clients
  BY DEF ServerStep, StartSession, EndSession, ChangeWorld, UnpausedTick, PausedTick,
         TypeInv, ServerTyped
<1>3. ServerTyped'
  BY <1>1, <1>2 DEF TypeInv, ServerTyped
<1> QED BY <1>1, <1>3, TypeQuietSteps

LEMMA LostRequestsTyped ==
  ASSUME ServerTyped, NEW c \in Clients, LoseRequests(c) PROVE toServer' \in [Clients -> Nat]
<1>1. PICK n \in 0..toServer[c] : toServer' = [toServer EXCEPT ![c] = n]
  BY DEF LoseRequests
<1>2. n \in Nat
  BY DEF ServerTyped
<1> QED BY <1>1, <1>2, RequestsTyped

LEMMA ConnectionsTyped ==
  ASSUME SyncInv, TypeInv, NEW c \in Clients,
         PeerConnected(c) \/ ReceiveSnapshotRequest(c) \/ Disconnect(c)
  PROVE  TypeInv'
<1>1. UNCHANGED <<session, connects, clientVars>>
  BY DEF PeerConnected, ReceiveSnapshotRequest, Disconnect, serverVars
<1>2. ServerTyped
  BY DEF TypeInv
<1>3. toServer' \in [Clients -> Nat]
  <2>1. CASE ReceiveSnapshotRequest(c)
    <3>1. toServer[c] \in Nat /\ toServer[c] > 0
      BY <1>2, <2>1 DEF ServerTyped, ReceiveSnapshotRequest
    <3>2. toServer' = [toServer EXCEPT ![c] = toServer[c] - 1]
      BY <2>1 DEF ReceiveSnapshotRequest
    <3> QED BY <1>2, <3>1, <3>2, RequestsTyped
  <2>2. CASE Disconnect(c)
    BY <1>2, <2>2, LostRequestsTyped DEF Disconnect
  <2>3. CASE PeerConnected(c)
    BY <1>2, <2>3 DEF PeerConnected, ServerTyped
  <2> QED BY <2>1, <2>2, <2>3
<1>4. /\ requesters' \subseteq Clients
      /\ connected' \subseteq Clients /\ noticed' \subseteq connected'
  BY <1>2 DEF PeerConnected, ReceiveSnapshotRequest, Disconnect, ServerTyped, serverVars
<1>5. ServerTyped'
  BY <1>1, <1>2, <1>3, <1>4 DEF ServerTyped
<1> QED BY <1>1, <1>5, TypeQuietSteps

(* A client that has no snapshot, or loses it.                             *)
LEMMA ResetTyped ==
  ASSUME SyncInv, TypeInv, NEW c \in Clients, Connect(c) \/ LoseSnapshot(c) \/ FallBehind(c)
  PROVE  TypeInv'
<1>1. /\ sync' = [sync EXCEPT ![c] = NewSyncData]
      /\ state' = [state EXCEPT ![c] = "Desynchronized"]
      /\ view' = view \/ view' = [view EXCEPT ![c] = Nothing]
      /\ UNCHANGED <<session, requesters>>
  BY DEF Connect, LoseSnapshot, FallBehind, Desynchronize, serverVars
<1>2. ServerTyped /\ view[c] \in Views /\ Nothing \in Views
  BY ShownTyped DEF TypeInv, ClientTyped, Nothing
<1>3. toServer' \in [Clients -> Nat]
  <2>1. CASE Connect(c)
    BY <1>2, <2>1, LostRequestsTyped DEF Connect
  <2>2. CASE RequestSnapshot(c)
    <3>1. toServer[c] \in Nat
      BY <1>2 DEF ServerTyped
    <3>2. PICK n \in {toServer[c], toServer[c] + 1} : toServer' = [toServer EXCEPT ![c] = n]
      BY <2>2 DEF RequestSnapshot
    <3>3. n \in Nat
      BY <3>1
    <3> QED BY <1>2, <3>2, <3>3, RequestsTyped
  <2> QED BY <2>1, <2>2 DEF LoseSnapshot, FallBehind, Desynchronize
<1>4. /\ connected' \subseteq Clients /\ noticed' \subseteq connected' /\ connects' \in Nat
  BY <1>2 DEF Connect, LoseSnapshot, FallBehind, Desynchronize, ServerTyped
<1>5. ServerTyped'
  BY <1>1, <1>2, <1>3, <1>4 DEF ServerTyped
<1>6. /\ \A b \in Clients : b # c =>
           sync'[b] = sync[b] /\ state'[b] = state[b] /\ view'[b] = view[b]
      /\ sync'[c] = NewSyncData /\ state'[c] = "Desynchronized"
      /\ view'[c] \in {view[c], Nothing}
  BY <1>1 DEF SyncInv, TimeInv, ViewInv
<1>7. ClientTyped(state'[c], sync'[c], view'[c])
  BY <1>2, <1>6, NewDataTyped
<1> QED BY <1>5, <1>6, <1>7, OneClientTyped

(* A client takes a packet.                                                *)
LEMMA ReceiveTyped ==
  ASSUME SyncInv, TypeInv, NEW c \in Clients, ReceiveSnapshot(c) \/ ReceiveDelta(c)
  PROVE  TypeInv'
<1> DEFINE p == Head(toClient[c])
<1>1. UNCHANGED <<serverVars, connected, noticed, toServer, connects>> /\ toClient[c] # <<>>
  BY DEF ReceiveSnapshot, ReceiveDelta, FromServer
<1>2. ServerTyped'
  BY <1>1 DEF TypeInv, ServerTyped, serverVars
<1>3. p \in Packet
  BY <1>1 DEF SyncInv, GapInv, DeltasAreSent, QueueOK
<1>4. p.tick \in Ticks /\ (~IsDelta(p) => p.world \in Worlds) /\ p.tick \in Int
  BY <1>3, PacketTicks DEF Packet, IsDelta
<1>5. /\ DOMAIN sync = Clients /\ DOMAIN state = Clients /\ DOMAIN view = Clients
      /\ {"tick", "last", "snapshot", "received", "ring", "history"} \subseteq DOMAIN sync[c]
      /\ DOMAIN sync[c].ring = 0..RingLength - 1
      /\ ClientTyped(state[c], sync[c], view[c])
  BY DEF SyncInv, TimeInv, ViewInv, TypeInv
<1>6. CASE ReceiveSnapshot(c) /\ state[c] = "Desynchronized"
  <2>1. /\ sync' = [sync EXCEPT ![c].snapshot = p.tick]
        /\ state' = [state EXCEPT ![c] = "Synchronizing"]
        /\ view' = [view EXCEPT ![c] = Show(p.world)] /\ ~IsDelta(p)
    BY <1>6 DEF ReceiveSnapshot, FromServer, IsDelta
  <2> HIDE DEF p
  <2>2. /\ sync'[c].snapshot = p.tick /\ sync'[c].ring = sync[c].ring
        /\ sync'[c].tick = sync[c].tick /\ sync'[c].last = sync[c].last
        /\ sync'[c].history = sync[c].history
        /\ state'[c] = "Synchronizing" /\ view'[c] = Show(p.world)
        /\ \A b \in Clients : b # c =>
             sync'[b] = sync[b] /\ state'[b] = state[b] /\ view'[b] = view[b]
    BY <1>5, <2>1
  <2>3. view'[c] \in Views
    BY <1>4, <2>1, <2>2, ShownTyped
  <2>4. ClientTyped(state'[c], sync'[c], view'[c])
    BY <1>4, <1>5, <1>6, <2>2, <2>3 DEF ClientTyped
  <2> QED BY <1>2, <2>2, <2>4, OneClientTyped
<1>7. CASE ReceiveDelta(c) /\ state[c] # "Desynchronized" /\ p.tick = ExpectedTick(c)
  <2>1. /\ sync' = [sync EXCEPT ![c].ring[p.tick % RingLength] = p,
                                ![c].last = p.tick,
                                ![c].received = @ + 1]
        /\ state' = state /\ view' = view /\ p \in DeltaPackets
    BY <1>3, <1>7 DEF ReceiveDelta, FromServer, IsDelta, DeltaPackets
  <2> HIDE DEF p
  <2>2. /\ sync'[c].ring = [sync[c].ring EXCEPT ![p.tick % RingLength] = p]
        /\ sync'[c].last = p.tick /\ sync'[c].snapshot = sync[c].snapshot
        /\ sync'[c].tick = sync[c].tick /\ sync'[c].history = sync[c].history
        /\ \A b \in Clients : b # c =>
             sync'[b] = sync[b] /\ state'[b] = state[b] /\ view'[b] = view[b]
    BY <1>5, <2>1
  <2>3. \A i \in 0..RingLength - 1 : sync'[c].ring[i] \in DeltaPackets \union {NoDelta}
    BY <1>5, <2>1, <2>2 DEF ClientTyped
  <2>4. ClientTyped(state'[c], sync'[c], view'[c])
    BY <1>4, <1>5, <2>1, <2>2, <2>3 DEF ClientTyped
  <2> QED BY <1>2, <2>2, <2>4, OneClientTyped
<1>8. CASE UNCHANGED <<sync, state, view>>
  BY <1>2, <1>8 DEF TypeInv
<1> QED BY <1>6, <1>7, <1>8 DEF ReceiveSnapshot, ReceiveDelta

(* A frame of a client: its time is that of a tick of which it has the     *)
(* snapshot or a delta, or is between two.                                 *)
LEMMA FramesTyped ==
  ASSUME SyncInv, TypeInv, NEW c \in Clients, NEW n \in 1..MaxFrame,
         WaitFrame(c, n) \/ AdvanceFrame(c, n)
  PROVE  TypeInv'
<1> DEFINE from == StartTick(c)
           to == from + n
           last == sync[c].last * Steps
<1>1. /\ CanProcess(c) /\ state' = [state EXCEPT ![c] = "Synchronized"]
      /\ UNCHANGED <<serverVars, netVars>>
  BY DEF WaitFrame, AdvanceFrame, InFrame
<1>2. ServerTyped'
  BY <1>1 DEF TypeInv, ServerTyped, serverVars, netVars
<1>3. /\ DOMAIN sync = Clients /\ DOMAIN state = Clients /\ DOMAIN view = Clients
      /\ {"tick", "last", "snapshot", "received", "ring", "history"} \subseteq DOMAIN sync[c]
      /\ sync[c].last \in Int /\ sync[c].snapshot \in Int /\ HistoryOK(sync[c].history)
      /\ ClientTyped(state[c], sync[c], view[c])
  BY DEF SyncInv, TimeInv, ViewInv, TypeInv
<1>4. sync[c].history \in Histories
  BY <1>3 DEF ClientTyped
<1>5. /\ from \in Int /\ last \in Int /\ to \in Int /\ from <= last /\ from < to
  BY <1>1, TimeOfFrame DEF SyncInv
<1>6. -Steps <= from
  <2>1. sync[c].snapshot * Steps <= from /\ sync[c].snapshot \in Ticks
    BY <1>1, FrameStarts DEF IsMade
  <2>2. (-1) * Steps <= sync[c].snapshot * Steps /\ sync[c].snapshot * Steps \in Int
    <3>1. -1 <= sync[c].snapshot
      BY <2>1 DEF Ticks
    <3> QED BY <1>3, <3>1, LaterTick
  <2> HIDE DEF from
  <2> QED BY <1>5, <2>1, <2>2, Constants
<1>7. last <= MaxTick * Steps
  <2>1. sync[c].last <= MaxTick
    BY <1>3, Constants, NullIsBelow DEF ClientTyped, Ticks
  <2> QED BY <1>3, <2>1, LaterTick, Constants
<1>8. \A t \in Int : from <= t /\ t <= last => last - t \in 0..Infinity
  <2> HIDE DEF from, last
  <2> QED BY <1>5, <1>6, <1>7, Constants
<1>9. \E t, h :
        /\ sync' = [sync EXCEPT ![c].tick = t, ![c].history = h]
        /\ h \in Histories
        /\ view' = view \/ \E v \in Views : view' = [view EXCEPT ![c] = v]
  <2>1. CASE WaitFrame(c, n)
    <3> DEFINE entered == EnterSecond(sync[c].history, from, to)
               h == [entered EXCEPT ![HistoryIndex(from)] = -1]
    <3>1. sync' = [sync EXCEPT ![c].tick = from, ![c].history = h] /\ view' = view
      BY <2>1 DEF WaitFrame
    <3>2. -1 \in -1..Infinity /\ 0 \in -1..Infinity
      BY Constants
    <3>3. entered \in Histories
      BY <1>4, <1>5, <3>2, HistoryTyped
    <3> HIDE DEF entered
    <3>4. h \in Histories
      BY <1>5, <3>2, <3>3, HistoryTyped
    <3> HIDE DEF h, from
    <3> WITNESS from, h
    <3> QED BY <3>1, <3>4
  <2>2. CASE AdvanceFrame(c, n)
    <3> DEFINE entered == EnterSecond(sync[c].history, from, to)
               h == WriteHistory(entered, to, last - to)
               forward == to + ForwardBy(h)
               shown == Applied(view[c], sync[c].ring, from, to)
    <3>1. to <= last /\ view' = [view EXCEPT ![c] = shown]
      BY <1>5, <2>2 DEF AdvanceFrame, OutOfDeltas
    <3>2. shown \in Views
      <4>1. view[c] \in Views
            /\ \A i \in 0..RingLength - 1 : sync[c].ring[i] \in DeltaPackets \union {NoDelta}
        BY <1>3 DEF ClientTyped
      <4>2. from <= to
        BY <1>5
      <4> HIDE DEF from, to
      <4> QED BY <1>5, <4>1, <4>2, FrameTyped
    <3>3. last - to \in -1..Infinity /\ last - to \in Int
      <4> HIDE DEF from, to, last
      <4> QED BY <1>5, <1>8, <3>1, Constants
    <3>4. entered \in Histories /\ HistoryOK(entered)
      BY <1>3, <1>4, <1>5, <3>3, HistoryTyped, HistoryWritten
    <3>5. h \in Histories /\ HistoryOK(h) /\ h[HistoryIndex(to)] <= last - to
      <4> HIDE DEF entered, last, from
      <4> QED BY <1>5, <3>3, <3>4, HistoryTyped, HistoryWritten
    <3> HIDE DEF shown
    <3>6. CASE MayFastForward(h)
      <4>1. sync' = [sync EXCEPT ![c].tick = forward,
                       ![c].history = [h EXCEPT ![HistoryIndex(forward)] = last - forward]]
        BY <2>2, <3>6 DEF AdvanceFrame
      <4> HIDE DEF h
      <4>2. MinSafe \in Nat /\ HistoryIndex(to) \in 0..HistoryLength - 1
        BY <1>5, Constants, HistoryIndexed
      <4>3. h[HistoryIndex(to)] \in Int
        BY <3>5, <4>2 DEF HistoryOK
      <4>4. ForwardBy(h) \in Nat /\ ForwardBy(h) <= h[HistoryIndex(to)] - MinSafe
        BY <3>5, <3>6, <4>2, FastForwardIsAhead
      <4> HIDE DEF from, last
      <4>5. forward \in Int /\ last - forward \in -1..Infinity
        <5> HIDE DEF to
        <5>1. forward \in Int /\ from <= forward /\ forward <= last
          BY <1>5, <3>1, <3>5, <4>2, <4>3, <4>4
        <5>2. last - forward \in 0..Infinity
          <6> HIDE DEF forward
          <6> QED BY <1>8, <5>1
        <5> QED BY <5>1, <5>2, Constants
      <4> HIDE DEF forward
      <4>6. [h EXCEPT ![HistoryIndex(forward)] = last - forward] \in Histories
        BY <3>5, <4>5, HistoryTyped
      <4> DEFINE hh == [h EXCEPT ![HistoryIndex(forward)] = last - forward]
      <4>7. sync' = [sync EXCEPT ![c].tick = forward, ![c].history = hh] /\ hh \in Histories
        BY <4>1, <4>6
      <4> HIDE DEF hh
      <4> WITNESS forward, hh
      <4> QED BY <3>1, <3>2, <4>7
    <3>7. CASE ~MayFastForward(h)
      <4>1. sync' = [sync EXCEPT ![c].tick = to, ![c].history = h]
        BY <2>2, <3>7 DEF AdvanceFrame
      <4> HIDE DEF h, to
      <4> WITNESS to, h
      <4> QED BY <3>1, <3>2, <3>5, <4>1
    <3> QED BY <3>6, <3>7
  <2> QED BY <2>1, <2>2
<1>10. PICK t, h :
        /\ sync' = [sync EXCEPT ![c].tick = t, ![c].history = h]
        /\ h \in Histories
        /\ view' = view \/ \E v \in Views : view' = [view EXCEPT ![c] = v]
  BY <1>9
<1>11. /\ \A b \in Clients : b # c =>
            sync'[b] = sync[b] /\ state'[b] = state[b] /\ view'[b] = view[b]
       /\ state'[c] = "Synchronized" /\ sync'[c].history = h
       /\ sync'[c].last = sync[c].last /\ sync'[c].snapshot = sync[c].snapshot
       /\ sync'[c].ring = sync[c].ring
  BY <1>1, <1>3, <1>10
<1>12. view'[c] \in Views
  BY <1>3, <1>10 DEF ClientTyped
<1>13. ClientTyped(state'[c], sync'[c], view'[c])
  BY <1>3, <1>10, <1>11, <1>12 DEF ClientTyped
<1> QED BY <1>2, <1>11, <1>13, OneClientTyped

LEMMA TypeNext == ASSUME SyncInv, TypeInv, [Next]_vars PROVE TypeInv'
<1>1. CASE UNCHANGED vars
  BY <1>1 DEF vars, serverVars, netVars, clientVars, TypeInv, ServerTyped
<1>2. CASE ServerStep
  BY <1>2, ServerStepsTyped
<1>3. ASSUME NEW c \in Clients, PeerConnected(c) \/ ReceiveSnapshotRequest(c) \/ Disconnect(c)
      PROVE  TypeInv'
  BY <1>3, ConnectionsTyped
<1>4. ASSUME NEW c \in Clients, Connect(c) \/ ClientStep(c) PROVE TypeInv'
  BY <1>4, ResetTyped, ReceiveTyped, FramesTyped DEF ClientStep
<1> QED BY <1>1, <1>2, <1>3, <1>4 DEF Next

(* The time of a synchronized client is between ticks of the shard.        *)
LEMMA TimeTyped ==
  ASSUME SyncInv, TypeInv, NEW c \in Clients PROVE sync[c].tick \in Times \union {Null}
<1>1. /\ ClientTyped(state[c], sync[c], view[c])
      /\ sync[c].tick \in Int /\ sync[c].last \in Int /\ sync[c].snapshot \in Int
      /\ state[c] = "Synchronized" =>
           /\ sync[c].tick <= sync[c].last * Steps
           /\ IsMade(made, sync[c].snapshot) /\ sync[c].snapshot * Steps <= sync[c].tick
  BY DEF TypeInv, SyncInv, TimeInv, ViewInv, DataOK
<1>2. CASE state[c] # "Synchronized"
  BY <1>1, <1>2 DEF ClientTyped
<1>3. CASE state[c] = "Synchronized"
  <2>1. sync[c].last <= MaxTick /\ -1 <= sync[c].snapshot
    BY <1>1, <1>3, Constants, NullIsBelow DEF ClientTyped, Ticks, IsMade
  <2>2. /\ sync[c].last * Steps <= MaxTick * Steps /\ sync[c].last * Steps \in Int
        /\ (-1) * Steps <= sync[c].snapshot * Steps /\ sync[c].snapshot * Steps \in Int
    BY <1>1, <2>1, LaterTick, Constants
  <2> QED BY <1>1, <1>3, <2>2, Constants DEF Times
<1> QED BY <1>2, <1>3

(* Every field of the server, of the connections and of the clients keeps  *)
(* its type, whatever the constants: a client's time stays within the      *)
(* ticks of the shard, its ring holds deltas only, and no entry of its     *)
(* history is below that of a frame that had to wait                       *)
(* (ShardSynchronizationServer, ShardSynchronizationClient).               *)
THEOREM TypesAreCorrect == Spec => []TypeOK
<1>1. Init => SyncInv /\ TypeInv
  BY GapInit, TimeInit, ViewInit, TypeInit DEF SyncInv
<1>2. SyncInv /\ TypeInv /\ [Next]_vars => SyncInv' /\ TypeInv'
  BY SyncNext, TypeNext
<1>3. SyncInv /\ TypeInv => TypeOK
  <2> SUFFICES ASSUME SyncInv, TypeInv PROVE TypeOK
    OBVIOUS
  <2>1. /\ session \in {"before", "playing", "after"} /\ requesters \subseteq Clients
        /\ connected \subseteq Clients /\ noticed \subseteq connected
        /\ toServer \in [Clients -> Nat] /\ connects \in Nat
    BY DEF TypeInv, ServerTyped
  <2>2. /\ LastSnapshotIsKept /\ tick \in Ticks /\ world \in Worlds
        /\ made \in [Ticks -> Worlds \union {NoWorld}]
    BY DEF SyncInv, GapInv, LastSnapshotIsKept
  <2>3. prev \in Packet \union {NoSnapshot}
    <3>1. CASE prev = NoSnapshot
      BY <3>1
    <3>2. CASE prev # NoSnapshot
      <4>1. prev = Snapshot(tick - 1, made[tick - 1]) /\ made[tick - 1] \in Worlds
            /\ tick - 1 \in Ticks
        BY <2>2, <3>2, Constants DEF LastSnapshotIsKept, Ticks
      <4> QED BY <4>1 DEF Packet, Snapshot
    <3> QED BY <3>1, <3>2
  <2>4. ASSUME NEW c \in Clients
        PROVE  /\ toClient[c] \in Seq(Packet)
               /\ toServer[c] \in Nat
               /\ state[c] \in {"Desynchronized", "Synchronizing", "Synchronized"}
               /\ sync[c].tick \in Times \union {Null}
               /\ sync[c].last \in Ticks \union {Null}
               /\ sync[c].snapshot \in Ticks \union {Null}
               /\ sync[c].received \in Nat
               /\ \A i \in 0..RingLength - 1 : sync[c].ring[i] \in Packet \union {NoDelta}
               /\ \A i \in 0..HistoryLength - 1 : sync[c].history[i] \in -1..Infinity
               /\ view[c].world \in Worlds \union {NoWorld, Mixed.world}
               /\ fastForwards[c] \in Nat
    <3>1. ClientTyped(state[c], sync[c], view[c])
      BY DEF TypeInv
    <3>2. toClient[c] \in Seq(Packet) /\ sync[c].received \in Nat /\ fastForwards[c] \in Nat
      BY DEF SyncInv, GapInv, DeltasAreSent, QueueOK, TimeInv
    <3>3. \A i \in 0..RingLength - 1 : sync[c].ring[i] \in Packet \union {NoDelta}
      BY <3>1 DEF ClientTyped, DeltaPackets
    <3>4. \A i \in 0..HistoryLength - 1 : sync[c].history[i] \in -1..Infinity
      BY <3>1 DEF ClientTyped, Histories
    <3>5. view[c].world \in Worlds \union {NoWorld, Mixed.world}
      BY <3>1 DEF ClientTyped, Views, ShownWorlds
    <3> QED BY <2>1, <3>1, <3>2, <3>3, <3>4, <3>5, TimeTyped DEF ClientTyped
  <2> QED BY <2>1, <2>2, <2>3, <2>4 DEF TypeOK
<1> QED BY <1>1, <1>2, <1>3, PTL DEF Spec

-----------------------------------------------------------------------------
(***************************************************************************)
(* What a client shows is the shard's past: the refinement of WorldReplica.*)
(***************************************************************************)

(* What is shown is the snapshot of a time that has been made.             *)
SeesExactly(m, v, t) ==
  /\ t \in Times
  /\ m[Replica!From(t)] \in Worlds /\ m[Replica!To(t)] \in Worlds
  /\ v = [world |-> m[Replica!From(t)], towards |-> m[Replica!To(t)]]

ReplicaInv == \A c \in Clients : Follows(c) => SeesExactly(made, view[c], StartTick(c))

(* The ticks of a time between a client's snapshot and its last delta.     *)
LEMMA TimeIsMade ==
  ASSUME NEW m, NEW s, s.received > 0, DeltasKept(m, s), s.snapshot \in Int, s.last \in Int,
         NEW t \in Int, s.snapshot * Steps <= t, t <= s.last * Steps
  PROVE  IsMade(m, FloorTick(t)) /\ (t % Steps # 0 => IsMade(m, FloorTick(t) + 1))
<1>1. /\ FloorTick(t) \in s.snapshot..s.last
      /\ t % Steps # 0 => FloorTick(t) + 1 \in s.snapshot..s.last
  BY TicksOfTime
<1> QED BY <1>1 DEF DeltasKept

LEMMA FollowersSee == SyncInv /\ TypeInv => ReplicaInv
<1> SUFFICES ASSUME SyncInv, TypeInv, NEW c \in Clients, Follows(c)
             PROVE  SeesExactly(made, view[c], StartTick(c))
  BY DEF ReplicaInv
<1>1. PICK m, s, v, ff, st : m = made /\ s = sync[c] /\ v = view[c] /\ ff = fastForwards[c] /\ st = state[c]
  OBVIOUS
<1>2. /\ st # "Desynchronized" /\ DataOK(m, st, s, v, ff) /\ v \in Views
      /\ s.snapshot \in Int /\ s.last \in Int /\ s.tick \in Int
      /\ st = "Synchronized" => s.received > 0 /\ s.tick <= s.last * Steps /\ ff = 0
      /\ st \in {"Synchronizing", "Synchronized"}
  BY <1>1 DEF Follows, SyncInv, ViewInv, TimeInv, TypeInv, ClientTyped
<1>3. PICK t \in Int : t = StartTick(c)
  BY <1>1, <1>2, Constants DEF StartTick
<1>4. /\ ShowsTime(m, v, t) /\ IsMade(m, FloorTick(t))
      /\ t % Steps # 0 => IsMade(m, FloorTick(t) + 1)
  <2>1. CASE st = "Synchronized"
    <3>1. t = s.tick /\ s.snapshot * Steps <= t /\ t <= s.last * Steps /\ DeltasKept(m, s) /\ ShowsTime(m, v, t)
      BY <1>1, <1>2, <1>3, <2>1 DEF StartTick, DataOK
    <3> QED BY <1>2, <2>1, <3>1, TimeIsMade
  <2>2. CASE st = "Synchronizing"
    <3>1. t = s.snapshot * Steps /\ IsMade(m, s.snapshot) /\ v = Show(m[s.snapshot])
      BY <1>1, <1>2, <1>3, <2>2 DEF StartTick, DataOK
    <3>2. s.snapshot * Steps <= t /\ t <= s.snapshot * Steps
      BY <1>2, <1>3, <3>1, Constants
    <3>3. /\ FloorTick(t) \in s.snapshot..s.snapshot
          /\ t % Steps # 0 => FloorTick(t) + 1 \in s.snapshot..s.snapshot
      BY <1>2, <3>2, TicksOfTime
    <3>4. FloorTick(t) = s.snapshot /\ t % Steps = 0
      BY <1>2, <3>3
    <3> QED BY <3>1, <3>4 DEF ShowsTime, Show
  <2> QED BY <1>2, <2>1, <2>2
<1>5. t \in Times
  <2>1. PICK q \in Int : q = FloorTick(t) /\ q \in -1..MaxTick /\ (t % Steps # 0 => q + 1 <= MaxTick)
    BY <1>3, <1>4 DEF IsMade, Ticks
  <2>2. t % Steps \in 0..Steps - 1 /\ t = Steps * q + (t % Steps) /\ Steps * q = q * Steps
        /\ q * Steps \in Int /\ (q + 1) * Steps = q * Steps + Steps
    BY <2>1, Division, Constants DEF FloorTick
  <2>3. (-1) * Steps <= q * Steps /\ q * Steps <= MaxTick * Steps
    BY <2>1, LaterTick, Constants
  <2>4. t % Steps # 0 => (q + 1) * Steps <= MaxTick * Steps
    BY <2>1, LaterTick, Constants
  <2> QED BY <2>2, <2>3, <2>4, Constants DEF Times
<1>6. Replica!From(t) = FloorTick(t)
      /\ Replica!To(t) = IF t < 0 \/ t % Steps = 0 THEN FloorTick(t) ELSE FloorTick(t) + 1
  BY DEF Replica!From, Replica!To, FloorTick
<1>7. m[Replica!From(t)] \in Worlds /\ m[Replica!To(t)] \in Worlds
      /\ v.world = m[Replica!From(t)] /\ v.towards = m[Replica!To(t)]
  BY <1>4, <1>6 DEF IsMade, ShowsTime
<1>8. v = [world |-> m[Replica!From(t)], towards |-> m[Replica!To(t)]]
  BY <1>2, <1>7 DEF Views
<1> QED BY <1>1, <1>3, <1>5, <1>7, <1>8 DEF SeesExactly

(* A step of one client, seen from the abstract specification: it loses    *)
(* track, starts with a tick, or goes on.                                  *)
LEMMA OneClientSees ==
  ASSUME ReplicaInv', NEW c \in Clients, made' = made,
         \A b \in Clients : b # c =>
           /\ sync'[b] = sync[b] /\ state'[b] = state[b] /\ view'[b] = view[b]
           /\ fastForwards'[b] = fastForwards[b],
         Follows(c)' => IF Follows(c) THEN StartTick(c) <= StartTick(c)' /\ StartTick(c) # Null
                        ELSE StartTick(c)' % Steps = 0
  PROVE  [Replica!Next]_Replica!vars
<1> DEFINE T == [b \in Clients |-> IF Follows(b) THEN StartTick(b) ELSE Null]
           S == [b \in Clients |-> IF Follows(b) THEN view[b] ELSE Nothing]
<1>1. PICK t, u, s, w : t = T /\ u = T' /\ s = S /\ w = S'
  OBVIOUS
<1>2. ASSUME NEW b \in Clients, b # c PROVE u[b] = t[b] /\ w[b] = s[b]
  BY <1>1, <1>2 DEF Follows, StartTick
<1>3. /\ t = [b \in Clients |-> t[b]] /\ u = [b \in Clients |-> u[b]]
      /\ s = [b \in Clients |-> s[b]] /\ w = [b \in Clients |-> w[b]]
  BY <1>1
<1>4. u = [t EXCEPT ![c] = u[c]] /\ w = [s EXCEPT ![c] = w[c]]
  BY <1>2, <1>3
<1>5. CASE ~ Follows(c)'
  <2>1. u[c] = Null /\ w[c] = Nothing
    BY <1>1, <1>5
  <2>2. Replica!Lose(c)
    BY <1>1, <1>4, <2>1 DEF Replica!Lose
  <2> QED BY <2>2 DEF Replica!Next
<1>6. CASE Follows(c)'
  <2>1. PICK x : x = StartTick(c)'
    OBVIOUS
  <2>2. u[c] = x /\ w[c] = view'[c] /\ SeesExactly(made, w[c], x)
    BY <1>1, <1>6, <2>1 DEF ReplicaInv
  <2>3. x \in Times /\ made[Replica!From(x)] \in Worlds /\ made[Replica!To(x)] \in Worlds
        /\ w[c] = [world |-> made[Replica!From(x)], towards |-> made[Replica!To(x)]]
    BY <2>2 DEF SeesExactly
  <2>4. IF t[c] = Null THEN x % Steps = 0 ELSE t[c] <= x
    BY <1>1, <1>6, <2>1
  <2>5. Replica!See(c, x)
    <3> HIDE DEF T, S
    <3>1. T[c] = t[c] /\ T' = [T EXCEPT ![c] = x] /\ S' = [S EXCEPT ![c] = w[c]]
      BY <1>1, <1>4, <2>2
    <3> QED BY <1>1, <2>3, <2>4, <3>1 DEF Replica!See, T, S
  <2> QED BY <2>3, <2>5 DEF Replica!Next, Replica!Times, Times
<1> QED BY <1>5, <1>6

(* A step of the server makes a snapshot, or none.                         *)
LEMMA ServerMakes ==
  ASSUME SyncInv, ServerStep
  PROVE  [Replica!Next]_Replica!vars
<1>1. UNCHANGED <<clientVars>>
  BY DEF ServerStep, StartSession, EndSession, ChangeWorld, UnpausedTick, PausedTick
<1>2. \A c \in Clients : (Follows(c)' <=> Follows(c)) /\ StartTick(c)' = StartTick(c) /\ view'[c] = view[c]
  BY <1>1 DEF clientVars, Follows, StartTick
<1>3. /\ [c \in Clients |-> IF Follows(c) THEN StartTick(c) ELSE Null]'
           = [c \in Clients |-> IF Follows(c) THEN StartTick(c) ELSE Null]
      /\ [c \in Clients |-> IF Follows(c) THEN view[c] ELSE Nothing]'
           = [c \in Clients |-> IF Follows(c) THEN view[c] ELSE Nothing]
  BY <1>2
<1>4. CASE made' = made
  BY <1>3, <1>4 DEF Replica!vars
<1>5. LastSnapshotIsKept
  BY DEF SyncInv, GapInv
<1>6. ASSUME NEW t \in Ticks, NEW w \in Worlds, made' = [made EXCEPT ![t] = w],
             \A u \in Ticks : made[u] # NoWorld => u < t
      PROVE  [Replica!Next]_Replica!vars
  <2>1. Replica!Make(t, w)
    BY <1>3, <1>6 DEF Replica!Make, Replica!Ticks, Ticks
  <2> QED BY <2>1 DEF Replica!Next, Replica!Ticks, Ticks
<1>7. CASE UnpausedTick
  <2>1. tick \in Ticks /\ world \in Worlds /\ made' = [made EXCEPT ![tick] = world]
    BY <1>5, <1>7 DEF UnpausedTick, LastSnapshotIsKept
  <2>2. \A u \in Ticks : made[u] # NoWorld => u < tick
    BY <1>5 DEF LastSnapshotIsKept, Ticks
  <2> QED BY <1>6, <2>1, <2>2
<1>8. CASE PausedTick
  <2>1. made' = [made EXCEPT ![PausedSnapshot.tick] = PausedSnapshot.world]
    BY <1>8 DEF PausedTick
  <2>2. CASE prev = NoSnapshot
    <3>1. PausedSnapshot.tick = tick - 1 /\ PausedSnapshot.world = world
      BY <2>2 DEF PausedSnapshot, Snapshot
    <3>2. \A u \in Ticks : made[u] = NoWorld
      <4>1. NoSnapshot.world = NoWorld /\ NoWorld \notin Worlds
        BY DEF NoSnapshot, Snapshot, NoWorld, Worlds
      <4>2. ~ (made[tick - 1] \in Worlds /\ prev = Snapshot(tick - 1, made[tick - 1]))
        BY <2>2, <4>1 DEF Snapshot
      <4> QED BY <1>5, <4>2 DEF LastSnapshotIsKept
    <3>3. tick - 1 \in Ticks /\ world \in Worlds
      BY <1>5, Constants DEF LastSnapshotIsKept, Ticks
    <3> QED BY <1>6, <2>1, <3>1, <3>2, <3>3
  <2>3. CASE prev # NoSnapshot
    <3>1. PausedSnapshot.tick = tick - 1 /\ PausedSnapshot.world = made[tick - 1]
      BY <1>5, <2>3 DEF LastSnapshotIsKept, PausedSnapshot, Snapshot
    <3>2. made' = made
      BY <1>5, <2>1, <3>1 DEF LastSnapshotIsKept
    <3> QED BY <1>4, <3>2
  <2> QED BY <2>2, <2>3
<1>9. CASE StartSession \/ EndSession \/ ChangeWorld
  BY <1>4, <1>9 DEF StartSession, EndSession, ChangeWorld
<1> QED BY <1>7, <1>8, <1>9 DEF ServerStep

(* What the abstract specification says of a client's step.                *)
GoesOn(c) ==
  Follows(c)' => IF Follows(c) THEN StartTick(c) <= StartTick(c)' /\ StartTick(c) # Null
                 ELSE StartTick(c)' % Steps = 0

OnlyClient(c) ==
  \A b \in Clients : b # c =>
    /\ sync'[b] = sync[b] /\ state'[b] = state[b] /\ view'[b] = view[b]
    /\ fastForwards'[b] = fastForwards[b]

LEMMA Restarts ==
  ASSUME SyncInv, NEW c \in Clients, Connect(c) \/ LoseSnapshot(c) \/ FallBehind(c)
  PROVE  made' = made /\ OnlyClient(c) /\ GoesOn(c)
<1>1. /\ DOMAIN state = Clients /\ DOMAIN sync = Clients /\ DOMAIN view = Clients
      /\ DOMAIN fastForwards = Clients
  BY DEF SyncInv, TimeInv, ViewInv
<1>2. made' = made /\ state' = [state EXCEPT ![c] = "Desynchronized"] /\ OnlyClient(c)
  BY <1>1 DEF Connect, LoseSnapshot, FallBehind, Desynchronize, serverVars, OnlyClient
<1>3. ~Follows(c)'
  BY <1>1, <1>2 DEF Follows
<1> QED BY <1>2, <1>3 DEF GoesOn

LEMMA SnapshotStarts ==
  ASSUME SyncInv, TypeInv, NEW c \in Clients, ReceiveSnapshot(c)
  PROVE  made' = made /\ OnlyClient(c) /\ GoesOn(c)
<1>1. /\ DOMAIN state = Clients /\ DOMAIN sync = Clients /\ DOMAIN view = Clients
      /\ "snapshot" \in DOMAIN sync[c] /\ toClient[c] \in Seq(Packet) /\ toClient[c] # <<>>
      /\ StartTick(c) # Null \/ ~Follows(c)
      /\ StartTick(c) \in Int \/ ~Follows(c)
  <2>1. Follows(c) => StartTick(c) \in Times
    BY FollowersSee DEF ReplicaInv, SeesExactly
  <2>2. Follows(c) => StartTick(c) \in Int /\ StartTick(c) # Null
    BY <2>1, Constants, NullIsBelow DEF Times
  <2> QED BY <2>2 DEF SyncInv, TimeInv, ViewInv, GapInv, DeltasAreSent, QueueOK,
                       ReceiveSnapshot, FromServer
<1>2. made' = made /\ fastForwards' = fastForwards
  BY DEF ReceiveSnapshot, serverVars
<1>3. CASE state[c] = "Desynchronized"
  <2>1. PICK x \in Int : x = Head(toClient[c]).tick
    <3>1. Head(toClient[c]) \in Packet
      BY <1>1
    <3> QED BY <3>1, PacketTicks
  <2>2. /\ sync' = [sync EXCEPT ![c].snapshot = x]
        /\ state' = [state EXCEPT ![c] = "Synchronizing"]
        /\ view' = [view EXCEPT ![c] = Show(Head(toClient[c]).world)]
    BY <1>3, <2>1 DEF ReceiveSnapshot
  <2>3. OnlyClient(c)
    BY <1>1, <1>2, <2>2 DEF OnlyClient
  <2>4. StartTick(c)' = x * Steps /\ ~Follows(c)
    BY <1>1, <1>3, <2>2 DEF StartTick, Follows
  <2>5. (x * Steps) % Steps = 0
    BY Multiples, Constants
  <2> QED BY <1>2, <2>3, <2>4, <2>5 DEF GoesOn
<1>4. CASE state[c] # "Desynchronized"
  <2>1. sync' = sync /\ state' = state /\ view' = view
    BY <1>4 DEF ReceiveSnapshot
  <2>2. OnlyClient(c)
    BY <1>2, <2>1 DEF OnlyClient
  <2>3. StartTick(c)' = StartTick(c) /\ (Follows(c)' <=> Follows(c))
    BY <1>2, <2>1 DEF StartTick, Follows
  <2> QED BY <1>1, <1>2, <2>2, <2>3 DEF GoesOn
<1> QED BY <1>3, <1>4

LEMMA FramesGoOn ==
  ASSUME SyncInv, TypeInv, NEW c \in Clients, NEW n \in 1..MaxFrame,
         WaitFrame(c, n) \/ AdvanceFrame(c, n)
  PROVE  made' = made /\ OnlyClient(c) /\ GoesOn(c)
<1>1. /\ DOMAIN state = Clients /\ DOMAIN sync = Clients /\ DOMAIN view = Clients
      /\ "tick" \in DOMAIN sync[c] /\ fastForwards \in [Clients -> Nat]
      /\ n \in Nat
  BY Constants DEF SyncInv, TimeInv, ViewInv
<1>2. /\ state' = [state EXCEPT ![c] = "Synchronized"] /\ made' = made
      /\ state[c] \in {"Synchronized", "Synchronizing"}
  BY DEF WaitFrame, AdvanceFrame, InFrame, CanProcess, serverVars
<1>3. PICK from : from = StartTick(c)
  OBVIOUS
<1>4. /\ OnlyClient(c)
      /\ fastForwards'[c] # 0 \/ (fastForwards[c] = 0 /\ sync'[c].tick \in {from, from + n})
  <2>1. CASE WaitFrame(c, n)
    <3>1. PICK h : sync' = [sync EXCEPT ![c].tick = from, ![c].history = h]
      BY <1>3, <2>1 DEF WaitFrame
    <3>2. view' = view /\ fastForwards' = fastForwards
      BY <2>1 DEF WaitFrame
    <3>3. sync'[c].tick = from
      BY <1>1, <3>1
    <3> QED BY <1>1, <1>2, <3>1, <3>2, <3>3 DEF OnlyClient
  <2>2. CASE AdvanceFrame(c, n)
    <3>1. PICK h, x : sync' = [sync EXCEPT ![c].tick = x, ![c].history = h]
                      /\ \/ fastForwards' = [fastForwards EXCEPT ![c] = @ + 1]
                         \/ fastForwards' = fastForwards /\ x = from + n
      <4> DEFINE f == from
                 to == f + n
                 last == sync[c].last * Steps
                 history == WriteHistory(EnterSecond(sync[c].history, f, to), to, last - to)
                 forward == to + ForwardBy(history)
                 later == [history EXCEPT ![HistoryIndex(forward)] = last - forward]
      <4>1. IF MayFastForward(history)
            THEN /\ sync' = [sync EXCEPT ![c].tick = forward, ![c].history = later]
                 /\ fastForwards' = [fastForwards EXCEPT ![c] = @ + 1]
            ELSE /\ sync' = [sync EXCEPT ![c].tick = to, ![c].history = history]
                 /\ UNCHANGED fastForwards
        BY <1>3, <2>2 DEF AdvanceFrame
      <4>2. to = from + n
        OBVIOUS
      <4> HIDE DEF to, history, later, forward
      <4> QED BY <4>1, <4>2
    <3>2. PICK v : view' = [view EXCEPT ![c] = v]
      BY <2>2 DEF AdvanceFrame
    <3>3. sync'[c].tick = x /\ \A b \in Clients : b # c => fastForwards'[b] = fastForwards[b]
      BY <1>1, <3>1
    <3>4. OnlyClient(c)
      BY <1>1, <1>2, <3>1, <3>2, <3>3 DEF OnlyClient
    <3>5. fastForwards'[c] # 0 \/ (fastForwards[c] = 0 /\ x = from + n)
      BY <1>1, <3>1
    <3> QED BY <3>3, <3>4, <3>5
  <2> QED BY <2>1, <2>2
<1>5. state'[c] = "Synchronized"
  BY <1>1, <1>2
<1>6. CASE Follows(c)'
  <2>1. fastForwards[c] = 0 /\ sync'[c].tick \in {from, from + n} /\ StartTick(c)' = sync'[c].tick
    BY <1>4, <1>5, <1>6 DEF Follows, StartTick
  <2>2. Follows(c)
    BY <1>2, <2>1 DEF Follows
  <2>3. from \in Times
    BY <1>3, <2>2, FollowersSee DEF ReplicaInv, SeesExactly
  <2>4. from \in Int /\ from # Null
    BY <2>3, Constants, NullIsBelow DEF Times
  <2>5. from <= sync'[c].tick
    BY <1>1, <2>1, <2>4
  <2>6. StartTick(c) <= StartTick(c)' /\ StartTick(c) # Null
    BY <1>3, <2>1, <2>4, <2>5
  <2> QED BY <1>2, <1>4, <2>2, <2>6 DEF GoesOn
<1>7. CASE ~Follows(c)'
  BY <1>2, <1>4, <1>7 DEF GoesOn
<1> QED BY <1>6, <1>7

(* What the shard and its clients show is not touched.                     *)
LEMMA SameReplica ==
  ASSUME SyncInv, TypeInv, UNCHANGED <<made, state, view, fastForwards>>,
         \A c \in Clients : sync'[c].tick = sync[c].tick /\ sync'[c].snapshot = sync[c].snapshot
  PROVE  UNCHANGED Replica!vars
<1>1. \A c \in Clients : (Follows(c)' <=> Follows(c)) /\ StartTick(c)' = StartTick(c)
  BY DEF Follows, StartTick
<1> QED BY <1>1 DEF Replica!vars

LEMMA QuietClients ==
  ASSUME SyncInv, TypeInv, NEW c \in Clients,
         \/ PeerConnected(c) \/ ReceiveSnapshotRequest(c) \/ Disconnect(c) \/ ReceiveDelta(c)
  PROVE  UNCHANGED Replica!vars
<1>1. UNCHANGED <<made, state, view, fastForwards>>
  BY DEF PeerConnected, ReceiveSnapshotRequest, Disconnect, ReceiveDelta, serverVars, clientVars
<1>2. \A b \in Clients : sync'[b].tick = sync[b].tick /\ sync'[b].snapshot = sync[b].snapshot
  <2>1. CASE sync' = sync
    BY <2>1
  <2>2. CASE ReceiveDelta(c) /\ sync' # sync
    <3> DEFINE d == Head(toClient[c])
               t == d.tick
               i == t % RingLength
    <3>1. sync' = [sync EXCEPT ![c].ring[i] = d, ![c].last = t, ![c].received = @ + 1]
      BY <2>2 DEF ReceiveDelta
    <3>2. DOMAIN sync = Clients /\ {"tick", "snapshot"} \subseteq DOMAIN sync[c]
      BY DEF SyncInv, TimeInv
    <3> HIDE DEF d, t, i
    <3> QED BY <3>1, <3>2
  <2> QED BY <2>1, <2>2 DEF PeerConnected, ReceiveSnapshotRequest, Disconnect, clientVars
<1> QED BY <1>1, <1>2, SameReplica

LEMMA ReplicaStep ==
  ASSUME SyncInv, TypeInv, ReplicaInv', [Next]_vars
  PROVE  [Replica!Next]_Replica!vars
<1>1. CASE UNCHANGED vars
  <2>1. UNCHANGED <<made, state, view, fastForwards, sync>>
    BY <1>1 DEF vars, serverVars, clientVars
  <2> QED BY <2>1, SameReplica
<1>2. CASE ServerStep
  BY <1>2, ServerMakes
<1>3. ASSUME NEW c \in Clients,
             \/ PeerConnected(c) \/ ReceiveSnapshotRequest(c) \/ Disconnect(c) \/ ReceiveDelta(c)
      PROVE  [Replica!Next]_Replica!vars
  BY <1>3, QuietClients
<1>4. ASSUME NEW c \in Clients, made' = made, OnlyClient(c), GoesOn(c)
      PROVE  [Replica!Next]_Replica!vars
  BY <1>4, OneClientSees DEF OnlyClient, GoesOn
<1>5. ASSUME NEW c \in Clients,
             \/ Connect(c) \/ LoseSnapshot(c) \/ FallBehind(c) \/ ReceiveSnapshot(c)
             \/ \E n \in 1..MaxFrame : WaitFrame(c, n) \/ AdvanceFrame(c, n)
      PROVE  made' = made /\ OnlyClient(c) /\ GoesOn(c)
  BY <1>5, Restarts, SnapshotStarts, FramesGoOn
<1> QED BY <1>1, <1>2, <1>3, <1>4, <1>5 DEF Next, ClientStep

(* However packets, pauses, connections and frames come, and whatever the  *)
(* constants: the snapshots are made once and in the order of their ticks, *)
(* and a client that follows shows a world the shard has had, exactly, and *)
(* only moves on in it, until it starts again from another snapshot        *)
(* (ShardSynchronizationServer, ShardSynchronizationClient).               *)
THEOREM ReplicaRefinement == Spec => ImplementsReplica
<1>1. Init => SyncInv /\ TypeInv
  BY GapInit, TimeInit, ViewInit, TypeInit DEF SyncInv
<1>2. SyncInv /\ TypeInv /\ [Next]_vars => SyncInv' /\ TypeInv'
  BY SyncNext, TypeNext
<1>3. SyncInv /\ TypeInv => ReplicaInv
  BY FollowersSee
<1>4. Init => Replica!Init
  <2> SUFFICES ASSUME Init PROVE Replica!Init
    OBVIOUS
  <2>1. \A c \in Clients : ~Follows(c)
    BY DEF Init, Follows
  <2>2. made = [t \in Ticks |-> NoWorld]
    BY DEF Init
  <2> QED BY <2>1, <2>2 DEF Replica!Init, Replica!Ticks, Ticks
<1>5. SyncInv /\ TypeInv /\ ReplicaInv' /\ [Next]_vars => [Replica!Next]_Replica!vars
  BY ReplicaStep
<1> QED BY <1>1, <1>2, <1>3, <1>4, <1>5, PTL DEF Spec, ImplementsReplica, Replica!Spec

=============================================================================
