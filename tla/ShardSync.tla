----------------------------- MODULE ShardSync -----------------------------
(***************************************************************************)
(* How a shard server keeps its clients in step with its world.            *)
(*                                                                         *)
(* Every tick of an unpaused shard, ShardSynchronizationServer takes a     *)
(* snapshot of the world and broadcasts the delta from the one before; a   *)
(* client that asked for it gets the whole snapshot.  While the shard is   *)
(* paused no tick passes, and a client gets the last snapshot again.       *)
(* ShardSynchronizationClient starts from a snapshot, stores the deltas in *)
(* a ring and applies them at its own pace, a little behind the server; it *)
(* waits when it runs out of them, asks for a new snapshot when it falls   *)
(* behind the ring, and fast-forwards when it has been too far behind for  *)
(* a while.                                                                *)
(*                                                                         *)
(* Client time is counted in steps of 1/Steps tick.  The model starts when *)
(* the shard is initialized: paused, and with no client.  A new campaign   *)
(* starts with tick 0, so that the snapshot made before it is of tick -1.  *)
(***************************************************************************)
EXTENDS Integers, Sequences, FiniteSets, SequencesExt, FiniteSetsExt

CONSTANTS
  Clients,
  Steps,             \* client steps in a tick
  StepsPerSecond,    \* Const.TicksPerSecond, in steps
  RingLength,        \* DeltaRing.Length
  HistoryLength,     \* BufferTicksHistoryRing.Length
  MinSafe,           \* BufferTicksMinSafeValue, in steps
  MinToFastForward,  \* BufferTicksMinValueToFastForward, in steps
  FirstTicks,        \* ticks that a shard may start with: 0, or one it saved
  MaxFrame,          \* bound: steps that pass in one frame of a client
  MaxTick,           \* bound: ticks of the shard
  MaxChanges,        \* bound: changes of the world
  MaxConnects        \* bound: connections opened

ASSUME SyncAssumption ==
  /\ {Steps, StepsPerSecond, RingLength, HistoryLength} \subseteq Nat \ {0}
  /\ MinSafe \in Nat /\ MinToFastForward \in Nat /\ MinSafe < MinToFastForward
  /\ {MaxFrame, MaxTick, MaxChanges, MaxConnects} \subseteq Nat
  /\ 0 \in FirstTicks /\ FirstTicks \subseteq 0..MaxTick
  /\ Steps < StepsPerSecond

VARIABLES
  (* the shard server *)
  session,      \* "before", "playing" or "after": paused unless playing
  tick,         \* CurrentTickRepository.Tick
  world,        \* the world, as the number of changes made to it
  prev,         \* _prevShardSnapshot, or NoSnapshot
  requesters,   \* _snapshotRequesters
  made,         \* the world in the snapshot made for each tick
  (* the connections *)
  connected,    \* clients whose data channel is open
  noticed,      \* those whose PeerConnected has been raised on the server
  toClient,     \* packets under way to each client, in order
  toServer,     \* snapshot requests from each client, under way or queued
  connects,     \* bound counter
  (* the clients *)
  state,        \* StateEnum
  sync,         \* _syncData
  view,         \* what the client's puppets show
  fastForwards  \* FastForwardCount

serverVars == <<session, tick, world, prev, requesters, made>>
netVars == <<connected, noticed, toClient, toServer, connects>>
clientVars == <<state, sync, view, fastForwards>>
vars == <<serverVars, netVars, clientVars>>

-----------------------------------------------------------------------------
(* A change of the world is never undone in the model, and touches what no *)
(* other change does: a delta from one world to a later one can be applied *)
(* to the former only.                                                     *)
Worlds == 0..MaxChanges
NoWorld == -1
Ticks == -1..MaxTick
Times == -Steps..MaxTick * Steps
Null == -Steps - 1     \* no tick and no time
Infinity == (MaxTick + 2) * Steps

Snapshot(t, w) == [type |-> "Snapshot", tick |-> t, world |-> w]
NoSnapshot == Snapshot(Null, NoWorld)

(* ShardSnapshotDelta.Between.                                             *)
Delta(t, from, to) == [type |-> "Delta", tick |-> t, from |-> from, to |-> to]
NoDelta == Delta(Null, NoWorld, NoWorld)

(* What a client shows: a world, and the one it is moving towards while it *)
(* interpolates.                                                           *)
Show(w) == [world |-> w, towards |-> w]
Nothing == Show(NoWorld)

(* A puppet that takes a delta which is not the next one shows neither the *)
(* old world nor the new one.                                              *)
Mixed == Show(-2)
Fits(v, d) == d.tick # Null /\ v.world = d.from /\ v.towards \in {d.from, d.to}

(* EntityManager.ApplyDelta, with a weight of 1 and with a smaller one.    *)
ApplyDelta(v, d) == IF Fits(v, d) THEN Show(d.to) ELSE Mixed
ApplyPartly(v, d) ==
  IF Fits(v, d) THEN [world |-> d.from, towards |-> d.to] ELSE Mixed

NewSyncData ==
  [tick |-> Null, last |-> Null, snapshot |-> Null, received |-> 0,
   ring |-> [i \in 0..RingLength - 1 |-> NoDelta],
   history |-> [i \in 0..HistoryLength - 1 |-> 0]]

RingGet(ring, t) == ring[t % RingLength]

Init ==
  /\ session = "before"
  /\ tick \in FirstTicks
  /\ world = 0
  /\ prev = NoSnapshot
  /\ requesters = {}
  /\ made = [t \in Ticks |-> NoWorld]
  /\ connected = {}
  /\ noticed = {}
  /\ toClient = [c \in Clients |-> <<>>]
  /\ toServer = [c \in Clients |-> 0]
  /\ connects = 0
  /\ state = [c \in Clients |-> "Desynchronized"]
  /\ sync = [c \in Clients |-> NewSyncData]
  /\ view = [c \in Clients |-> Nothing]
  /\ fastForwards = [c \in Clients |-> 0]

-----------------------------------------------------------------------------
(***************************************************************************)
(* The shard server.                                                       *)
(***************************************************************************)

(* The session begins and ends: the shard is told to unpause and to pause. *)
StartSession ==
  /\ session = "before"
  /\ session' = "playing"
  /\ UNCHANGED <<tick, world, prev, requesters, made, netVars, clientVars>>

EndSession ==
  /\ session = "playing"
  /\ session' = "after"
  /\ UNCHANGED <<tick, world, prev, requesters, made, netVars, clientVars>>

(* Something changes in the world: in play, or a character is spawned,     *)
(* which happens while the shard is paused, too.                           *)
ChangeWorld ==
  /\ world < MaxChanges
  /\ world' = world + 1
  /\ UNCHANGED <<session, tick, prev, requesters, made, netVars, clientVars>>

Receivers(C, c, packets) == IF c \in C THEN packets ELSE <<>>

(* SendReliable to the requesters, then BroadcastReliable: a packet for a  *)
(* client whose channel is not open is dropped.                            *)
Send(snapshot, deltas) ==
  [c \in Clients |->
    toClient[c] \o Receivers(connected \intersect requesters, c, <<snapshot>>)
                \o Receivers(connected, c, deltas)]

(* One physics frame of a shard in play: the server's tick, after which    *)
(* CurrentTickRepository counts it.                                        *)
UnpausedTick ==
  /\ session = "playing"
  /\ tick < MaxTick
  /\ LET snapshot == Snapshot(tick, world)
     IN  /\ toClient' = Send(snapshot, IF prev = NoSnapshot THEN <<>>
                                       ELSE <<Delta(tick, prev.world, world)>>)
         /\ prev' = snapshot
         /\ made' = [made EXCEPT ![tick] = world]
  /\ requesters' = {}
  /\ tick' = tick + 1
  /\ UNCHANGED <<session, world, connected, noticed, toServer, connects, clientVars>>

\* Faulty variant: a snapshot of its own for every request.
FreshPausedSnapshot == Snapshot(tick - 1, world)
PausedSnapshot == IF prev = NoSnapshot THEN Snapshot(tick - 1, world) ELSE prev

\* Faulty variant: the snapshot is made anew and not kept.
Forgotten(snapshot) == prev
Kept(snapshot) == snapshot

PausedTick ==
  /\ session # "playing"
  /\ requesters # {}
  /\ LET snapshot == PausedSnapshot
     IN  /\ toClient' = Send(snapshot, <<>>)
         /\ prev' = Kept(snapshot)
         /\ made' = [made EXCEPT ![snapshot.tick] = snapshot.world]
  /\ requesters' = {}
  /\ UNCHANGED <<session, tick, world, connected, noticed, toServer, connects, clientVars>>

(* OnPeerConnected, and ReceiveSnapshotRequest.                            *)
PeerConnected(c) ==
  /\ c \in connected \ noticed
  /\ noticed' = noticed \union {c}
  /\ requesters' = requesters \union {c}
  /\ UNCHANGED <<session, tick, world, prev, made, connected, toClient, toServer,
                 connects, clientVars>>

ReceiveSnapshotRequest(c) ==
  /\ toServer[c] > 0
  /\ toServer' = [toServer EXCEPT ![c] = @ - 1]
  /\ requesters' = requesters \union {c}
  /\ UNCHANGED <<session, tick, world, prev, made, connected, noticed, toClient,
                 connects, clientVars>>

-----------------------------------------------------------------------------
(***************************************************************************)
(* Connections.  A client that connects loads the shard anew: it gets a    *)
(* new ShardSynchronizationClient, and its earlier connection is replaced. *)
(* What was under way is lost, but for requests that the server has put in *)
(* its queue already.                                                      *)
(***************************************************************************)
LoseRequests(c) == \E n \in 0..toServer[c] : toServer' = [toServer EXCEPT ![c] = n]

Connect(c) ==
  /\ connects < MaxConnects
  /\ connects' = connects + 1
  /\ connected' = connected \union {c}
  /\ noticed' = noticed \ {c}
  /\ toClient' = [toClient EXCEPT ![c] = <<>>]
  /\ LoseRequests(c)
  /\ state' = [state EXCEPT ![c] = "Desynchronized"]
  /\ sync' = [sync EXCEPT ![c] = NewSyncData]
  /\ view' = [view EXCEPT ![c] = Nothing]
  /\ fastForwards' = [fastForwards EXCEPT ![c] = 0]
  /\ UNCHANGED serverVars

Disconnect(c) ==
  /\ c \in connected
  /\ connected' = connected \ {c}
  /\ noticed' = noticed \ {c}
  /\ toClient' = [toClient EXCEPT ![c] = <<>>]
  /\ LoseRequests(c)
  /\ UNCHANGED <<serverVars, connects, clientVars>>

-----------------------------------------------------------------------------
(***************************************************************************)
(* A client handles the first packet from the shard.                       *)
(***************************************************************************)
FromServer(c, type) ==
  /\ toClient[c] # <<>>
  /\ Head(toClient[c]).type = type
  /\ toClient' = [toClient EXCEPT ![c] = Tail(@)]

(* ReceiveShardSnapshotPacket.                                             *)
ReceiveSnapshot(c) ==
  /\ FromServer(c, "Snapshot")
  /\ IF state[c] = "Desynchronized"
     THEN /\ sync' = [sync EXCEPT ![c].snapshot = Head(toClient[c]).tick]
          /\ state' = [state EXCEPT ![c] = "Synchronizing"]
          /\ view' = [view EXCEPT ![c] = Show(Head(toClient[c]).world)]
     ELSE UNCHANGED <<sync, state, view>>
  /\ UNCHANGED <<serverVars, connected, noticed, toServer, connects, fastForwards>>

(* ReceiveShardSnapshotDeltaPacket: a delta that comes too early makes it  *)
(* throw, and is lost.                                                     *)
ExpectedTick(c) ==
  IF sync[c].received > 0 THEN sync[c].last + 1 ELSE sync[c].snapshot + 1

ReceiveDelta(c) ==
  /\ FromServer(c, "Delta")
  /\ LET d == Head(toClient[c])
     IN  sync' = IF state[c] # "Desynchronized" /\ d.tick = ExpectedTick(c)
                 THEN [sync EXCEPT ![c].ring[d.tick % RingLength] = d,
                                   ![c].last = d.tick,
                                   ![c].received = @ + 1]
                 ELSE sync
  /\ UNCHANGED <<serverVars, connected, noticed, toServer, connects, state, view,
                 fastForwards>>

-----------------------------------------------------------------------------
(***************************************************************************)
(* A frame of a client: ShardSynchronizationClient.Process.                *)
(***************************************************************************)

(* DeltaRingEarliestValidTick.                                             *)
EarliestValid(s) == s.last - RingLength + 1

\* Faulty variant: lose the snapshot and forget to ask for another.
SilentlyDesynchronize(c) == UNCHANGED toServer
RequestSnapshot(c) ==
  toServer' = [toServer EXCEPT ![c] = IF c \in connected THEN @ + 1 ELSE @]

Desynchronize(c) ==
  /\ state' = [state EXCEPT ![c] = "Desynchronized"]
  /\ sync' = [sync EXCEPT ![c] = NewSyncData]
  /\ RequestSnapshot(c)
  /\ UNCHANGED <<serverVars, connected, noticed, toClient, connects, view, fastForwards>>

(* TrySynchronize, when the deltas have outrun the snapshot.               *)
SnapshotIsStale(c) ==
  /\ state[c] = "Synchronizing"
  /\ sync[c].last # Null
  /\ EarliestValid(sync[c]) > sync[c].snapshot + 1

LoseSnapshot(c) == SnapshotIsStale(c) /\ Desynchronize(c)

(* The tick at which a frame starts: a client that can synchronize does so *)
(* and goes on in the same frame.                                          *)
CanProcess(c) ==
  \/ state[c] = "Synchronized"
  \/ state[c] = "Synchronizing" /\ ~SnapshotIsStale(c) /\ sync[c].received >= 2
StartTick(c) ==
  IF state[c] = "Synchronized" THEN sync[c].tick ELSE sync[c].snapshot * Steps

CeilTick(t) == (t + Steps - 1) \div Steps
FloorTick(t) == t \div Steps

(* A cast to long rounds towards 0: the time before tick 0 belongs to the  *)
(* first second.                                                           *)
Second(t) == IF t < 0 THEN 0 ELSE t \div StepsPerSecond
HistoryIndex(t) == Second(t) % HistoryLength

\* Faulty variant: one tick too generous.
LooselyBehindRing(c) == EarliestValid(sync[c]) > CeilTick(StartTick(c)) + 1
BehindRing(c) == EarliestValid(sync[c]) > CeilTick(StartTick(c))

FallBehind(c) == CanProcess(c) /\ BehindRing(c) /\ Desynchronize(c)

(* A second that the frame enters has no minimum yet.                      *)
EnterSecond(history, from, to) ==
  IF Second(to) > Second(from)
  THEN [history EXCEPT ![HistoryIndex(to)] = Infinity] ELSE history

InFrame(c, n) ==
  /\ CanProcess(c)
  /\ ~BehindRing(c)
  /\ n \in 1..MaxFrame
  /\ state' = [state EXCEPT ![c] = "Synchronized"]

\* Faulty variant: the last delta is taken for the one after it.
OutOfLaterDeltas(c, to) == to > (sync[c].last + 1) * Steps
OutOfDeltas(c, to) == to > sync[c].last * Steps

(* The deltas for the frame have not arrived: the client stays where it is.*)
WaitFrame(c, n) ==
  /\ InFrame(c, n)
  /\ LET from == StartTick(c)
         to == from + n
     IN  /\ OutOfDeltas(c, to)
         /\ sync' = [sync EXCEPT ![c].tick = from,
                                 ![c].history =
              [EnterSecond(@, from, to) EXCEPT ![HistoryIndex(from)] = -1]]
  /\ UNCHANGED <<serverVars, netVars, view, fastForwards>>

(* ApplyDeltasSince: the deltas of all ticks passed, and part of the next. *)
ApplyPassed(v, ring, first, last) ==
  LET shown[t \in first..last] ==
        IF t = first THEN v ELSE ApplyDelta(shown[t - 1], RingGet(ring, t))
  IN  shown[last]

\* Faulty variant: the remainder as if it were never negative.
HasRemainder(t) == t % Steps # 0

(* Tick % 1 > 0: the remainder of a negative number is not positive, and   *)
(* nothing of tick 0 is applied before it is reached.                      *)
IsBetweenTicks(t) == t > 0 /\ t % Steps # 0

Applied(v, ring, from, to) ==
  LET full == ApplyPassed(v, ring, FloorTick(from), FloorTick(to))
  IN  IF IsBetweenTicks(to) THEN ApplyPartly(full, RingGet(ring, FloorTick(to) + 1))
      ELSE full

(* WriteBufferTicksHistory.                                                *)
WriteHistory(history, t, buffer) ==
  IF buffer < history[HistoryIndex(t)]
  THEN [history EXCEPT ![HistoryIndex(t)] = buffer] ELSE history

\* Faulty variant: fast-forward to the last delta.
ForwardToLast(history) == Min(Range(history))
ForwardBy(history) == Min(Range(history)) - MinSafe

MayFastForward(history) == \A b \in Range(history) : b >= MinToFastForward

(* The rest of Process: apply the deltas, write the history, and then      *)
(* TryFastForward, which moves the client's tick on and applies nothing.   *)
AdvanceFrame(c, n) ==
  /\ InFrame(c, n)
  /\ LET from == StartTick(c)
         to == from + n
         last == sync[c].last * Steps
         history == WriteHistory(EnterSecond(sync[c].history, from, to), to, last - to)
         forward == to + ForwardBy(history)
     IN  /\ ~OutOfDeltas(c, to)
         /\ view' = [view EXCEPT ![c] = Applied(@, sync[c].ring, from, to)]
         /\ IF MayFastForward(history)
            THEN /\ sync' = [sync EXCEPT ![c].tick = forward,
                       ![c].history = [history EXCEPT ![HistoryIndex(forward)] =
                                         last - forward]]
                 /\ fastForwards' = [fastForwards EXCEPT ![c] = @ + 1]
            ELSE /\ sync' = [sync EXCEPT ![c].tick = to, ![c].history = history]
                 /\ UNCHANGED fastForwards
  /\ UNCHANGED <<serverVars, netVars>>

-----------------------------------------------------------------------------
ServerStep ==
  StartSession \/ EndSession \/ ChangeWorld \/ UnpausedTick \/ PausedTick

ClientStep(c) ==
  \/ ReceiveSnapshot(c) \/ ReceiveDelta(c)
  \/ LoseSnapshot(c) \/ FallBehind(c)
  \/ \E n \in 1..MaxFrame : WaitFrame(c, n) \/ AdvanceFrame(c, n)

Next ==
  \/ ServerStep
  \/ \E c \in Clients :
       \/ PeerConnected(c) \/ ReceiveSnapshotRequest(c)
       \/ Connect(c) \/ Disconnect(c)
       \/ ClientStep(c)

Spec == Init /\ [][Next]_vars

(* Sessions end, the physics frames of the shard go on, also while it is   *)
(* paused, and what is sent over an open connection arrives.               *)
Fairness ==
  /\ WF_vars(EndSession) /\ WF_vars(UnpausedTick) /\ WF_vars(PausedTick)
  /\ \A c \in Clients :
       /\ WF_vars(PeerConnected(c)) /\ WF_vars(ReceiveSnapshotRequest(c))
       /\ WF_vars(ReceiveSnapshot(c)) /\ WF_vars(ReceiveDelta(c))

FairSpec == Spec /\ Fairness

-----------------------------------------------------------------------------
Packet == [type : {"Snapshot"}, tick : Ticks, world : Worlds]
            \union [type : {"Delta"}, tick : Ticks, from : Worlds, to : Worlds]

TypeOK ==
  /\ session \in {"before", "playing", "after"}
  /\ tick \in Ticks
  /\ world \in Worlds
  /\ prev \in Packet \union {NoSnapshot}
  /\ requesters \subseteq Clients
  /\ made \in [Ticks -> Worlds \union {NoWorld}]
  /\ connected \subseteq Clients
  /\ noticed \subseteq connected
  /\ \A c \in Clients :
       /\ toClient[c] \in Seq(Packet)
       /\ toServer[c] \in Nat
       /\ state[c] \in {"Desynchronized", "Synchronizing", "Synchronized"}
       /\ sync[c].tick \in Times \union {Null}
       /\ sync[c].last \in Ticks \union {Null}
       /\ sync[c].snapshot \in Ticks \union {Null}
       /\ sync[c].received \in Nat
       /\ \A i \in 0..RingLength - 1 : sync[c].ring[i] \in Packet \union {NoDelta}
       /\ \A i \in 0..HistoryLength - 1 : sync[c].history[i] \in -1..Infinity
       /\ view[c].world \in Worlds \union {NoWorld, Mixed.world}
       /\ fastForwards[c] \in Nat
  /\ connects \in Nat

(* One snapshot is made for a tick and never another, also when the world  *)
(* changes while the shard is paused and several clients ask at different  *)
(* times (ShardSynchronizationServer, ShardSynchronizationServerTests).    *)
OneSnapshotPerTick ==
  [][\A t \in Ticks : made[t] # NoWorld => made'[t] = made[t]]_vars

(* No delta is missing between the snapshot a client started from and the  *)
(* deltas it is sent, whether it joined in play, before the session or     *)
(* after it, or again after it fell behind: ReceiveShardSnapshotDeltaPacket*)
(* never throws.                                                           *)
NoGap ==
  \A c \in Clients :
    /\ state[c] # "Desynchronized"
    /\ toClient[c] # <<>>
    /\ Head(toClient[c]).type = "Delta"
    => Head(toClient[c]).tick <= ExpectedTick(c)

(* As long as it has not fast-forwarded, a synchronized client shows the   *)
(* snapshot of its tick, on its way to the next one between two ticks: the *)
(* ring never hands it a delta that is missing or was overwritten.  Before *)
(* tick 0 it stands still, and then catches up with what it did not show   *)
(* (ShardSynchronizationClient.Process, ApplyDeltasSince).                 *)
ShowsItsTick(c) ==
  LET t == FloorTick(sync[c].tick)
  IN  /\ view[c].world = made[t]
      /\ view[c].towards = IF sync[c].tick < 0 \/ sync[c].tick % Steps = 0
                           THEN made[t] ELSE made[t + 1]

ViewIsExact ==
  \A c \in Clients :
    state[c] = "Synchronized" /\ fastForwards[c] = 0 => ShowsItsTick(c)

(* While a client is synchronized its time never goes back and never       *)
(* passes the last delta, and a fast-forward leaves the safe buffer        *)
(* (TryFastForward).                                                       *)
ClientTimeIsSound ==
  [][\A c \in Clients :
       state[c] = "Synchronized" /\ state'[c] = "Synchronized" =>
         /\ sync[c].tick <= sync'[c].tick
         /\ sync'[c].tick <= sync'[c].last * Steps
         /\ fastForwards'[c] > fastForwards[c] =>
              sync'[c].tick <= sync'[c].last * Steps - MinSafe]_vars

(* A client follows the shard from its snapshot until it falls behind or   *)
(* fast-forwards.                                                          *)
Follows(c) ==
  \/ state[c] = "Synchronizing"
  \/ state[c] = "Synchronized" /\ fastForwards[c] = 0

Replica == INSTANCE WorldReplica WITH
  time <- [c \in Clients |-> IF Follows(c) THEN StartTick(c) ELSE Null],
  shown <- [c \in Clients |-> IF Follows(c) THEN view[c] ELSE Nothing],
  Nowhen <- Null

(* However packets, pauses, reconnections and frames come, snapshots are   *)
(* made once and in the order of their ticks, and a client shows the past  *)
(* of the shard's world exactly and only ever moves on in it, until it     *)
(* starts again (ShardSynchronizationServer, ShardSynchronizationClient).  *)
ImplementsReplica == Replica!Spec

(* A connected client that has no snapshot gets one: the request that goes *)
(* with every desynchronization is answered, in play and while paused.     *)
SnapshotArrives ==
  \A c \in Clients :
    state[c] = "Desynchronized" /\ c \in connected
      ~> state[c] # "Desynchronized" \/ c \notin connected

(* A client applies every delta to the world it was made from: the client  *)
(* replicates the state using snapshots and deltas sent by the server      *)
(* (Docs/Overview.md).                                                     *)
DeltasApplyInOrder == \A c \in Clients : view[c] # Mixed

=============================================================================
