------------------------------ MODULE Transport ------------------------------
(***************************************************************************)
(* Packets from the peers of a gameplay process, through WebRTC data       *)
(* channels, to its packet handlers: PacketChunker, PacketChunkCollector   *)
(* and WebRtcFromGameplayToGameplayCommunicator.                           *)
(*                                                                         *)
(* A frame of Godot makes any number of physics steps and then a process   *)
(* step; the first of them in a frame polls the connections. A client      *)
(* handles a packet when it is polled; a shard server does so in physics   *)
(* steps only, and queues what it receives otherwise.                      *)
(*                                                                         *)
(* A reliable channel delivers in order; an unreliable one loses (what is  *)
(* never received) and reorders, but does not duplicate. The bytes of a    *)
(* packet are its positions 1..length, so that bytes tell what was made of *)
(* them.                                                                   *)
(***************************************************************************)
EXTENDS Integers, Sequences, SequencesExt

CONSTANTS
    Peers,               \* ids of the peers that may connect
    NoPeer,
    Side,                \* SideOptions.Side
    Lengths,             \* lengths of serialized packets
    MaxChunkSize,        \* 250000
    EmptyChunkSize,      \* the size of a chunk packet without a body
    Timeout,             \* 10 s
    CleanupInterval,     \* 60 s
    MaxTime,             \* bound: how long the model looks
    MaxPackets,          \* bound: packets sent
    MaxConnections       \* bound: connections of a peer

MaxBodySize == MaxChunkSize - EmptyChunkSize

ASSUME TransportAssumption ==
    /\ NoPeer \notin Peers
    /\ Side \in {"ShardServer", "Client"}
    /\ Lengths \subseteq Nat \ {0}
    /\ MaxChunkSize \in Nat /\ EmptyChunkSize \in Nat /\ EmptyChunkSize < MaxChunkSize
    /\ Timeout \in Nat /\ CleanupInterval \in Nat
    /\ MaxTime \in Nat /\ MaxPackets \in Nat /\ MaxConnections \in Nat

VARIABLES
    sent,                \* history: the packets sent; a packet's id is its position
    reliable,            \* reliable[p]: what is under way on the channel from p
    unreliable,          \* unreliable[p]: the same, a set
    connections,         \* _peerConnectionsAndChannels: number and state, by peer
    connectedPeerIds,    \* _connectedPeerIds
    announced,           \* history: the connection that listeners know of, or 0
    groups,              \* PacketChunkCollector._groups, by group id
    nextCleanup,         \* _nextCleanupTime
    arrivals,            \* history: when each chunk of a packet arrived
    packetQueue,         \* _packetQueue
    handled,             \* history: what packet handlers got, in order
    step,                \* what the communicator is doing
    toPoll,              \* the peers Poll still has to visit
    reading,             \* the peer whose channels it reads
    didPoll,             \* _didPollThisFrame
    now

networkVars == <<sent, reliable, unreliable>>
connectionVars == <<connections, connectedPeerIds, announced>>
collectorVars == <<groups, nextCleanup, arrivals>>
frameVars == <<step, toPoll, reading, didPoll>>
vars == <<networkVars, connectionVars, collectorVars, packetQueue, handled, frameVars, now>>

\* There is nothing in a dictionary of no keys.
Empty == [k \in {} |-> k]

\* A dictionary with the value of a key set.
With(dictionary, key, value) ==
    [k \in DOMAIN dictionary \cup {key} |-> IF k = key THEN value ELSE dictionary[k]]

Init ==
    /\ sent = <<>>
    /\ reliable = [p \in Peers |-> <<>>]
    /\ unreliable = [p \in Peers |-> {}]
    /\ connections = [p \in Peers |-> [number |-> 0, state |-> "None"]]
    /\ connectedPeerIds = {}
    /\ announced = [p \in Peers |-> 0]
    /\ groups = Empty
    /\ nextCleanup = 0
    /\ arrivals = Empty
    /\ packetQueue = <<>>
    /\ handled = <<>>
    /\ step = "between"
    /\ toPoll = {}
    /\ reading = NoPeer
    /\ didPoll = FALSE
    /\ now = 0

----------------------------------------------------------------------------
(* PacketChunker. *)

Bytes(length) == [i \in 1..length |-> i]

\* A chunk of group 0 is a whole packet.
Whole(id, length) ==
    <<[packet |-> id, group |-> 0, index |-> 0, isLast |-> TRUE, bytes |-> Bytes(length)]>>

SplitIntoChunks(id, length) ==
    LET count == (length + MaxBodySize - 1) \div MaxBodySize
    IN  IF length <= MaxChunkSize THEN Whole(id, length)
        ELSE [i \in 1..count |->
                [packet |-> id,
                 group  |-> id,
                 index  |-> i - 1,
                 isLast |-> i = count,
                 bytes  |-> SubSeq(Bytes(length), (i - 1) * MaxBodySize + 1,
                                   IF i = count THEN length ELSE i * MaxBodySize)]]

----------------------------------------------------------------------------
(* The peers and the network. *)

\* Nothing of a frame reads what happens after its poll, so that it may as well
\* happen before the next frame.
BetweenFrames == step = "between" /\ ~ didPoll

\* SendToMany at a peer whose channel is open.
Send(p, length, isReliable) ==
    /\ BetweenFrames
    /\ Len(sent) < MaxPackets
    /\ connections[p].state = "Connected"
    /\ LET id == Len(sent) + 1
           chunks == SplitIntoChunks(id, length)
       IN  /\ sent' = Append(sent, [sender |-> p, length |-> length, isReliable |-> isReliable])
           /\ IF isReliable
              THEN /\ reliable' = [reliable EXCEPT ![p] = @ \o chunks]
                   /\ UNCHANGED unreliable
              ELSE /\ unreliable' = [unreliable EXCEPT ![p] = @ \cup ToSet(chunks)]
                   /\ UNCHANGED reliable
    /\ UNCHANGED <<connectionVars, collectorVars, packetQueue, handled, frameVars, now>>

Establish(p) ==
    /\ BetweenFrames
    /\ connections[p].state = "New"
    /\ connections' = [connections EXCEPT ![p].state = "Connected"]
    /\ UNCHANGED <<networkVars, connectedPeerIds, announced, collectorVars, packetQueue, handled,
                   frameVars, now>>

\* What was under way on the channels of a closed connection is lost.
CloseChannels(p) ==
    /\ reliable' = [reliable EXCEPT ![p] = <<>>]
    /\ unreliable' = [unreliable EXCEPT ![p] = {}]
    /\ UNCHANGED sent

PeerCloses(p) ==
    /\ BetweenFrames
    /\ connections[p].state \in {"New", "Connected"}
    /\ connections' = [connections EXCEPT ![p].state = "Closed"]
    /\ CloseChannels(p)
    /\ UNCHANGED <<connectedPeerIds, announced, collectorVars, packetQueue, handled, frameVars, now>>

PassTime ==
    /\ BetweenFrames
    /\ now < MaxTime
    /\ now' = now + 1
    /\ UNCHANGED <<networkVars, connectionVars, collectorVars, packetQueue, handled, frameVars>>

----------------------------------------------------------------------------
(* Connections. *)

\* OnPeerDisconnected: listeners are told when they were told of the
\* connection. Packets of the peer that are queued stay in the queue.
Disconnected(p) ==
    /\ connectedPeerIds' = connectedPeerIds \ {p}
    /\ announced' = IF p \in connectedPeerIds THEN [announced EXCEPT ![p] = 0] ELSE announced

\* CreateConnection, for an offer of the peer (ReceiveWebrtcSdpPacket) or an
\* order of the player (ConnectToShardServer).
\* Faulty variant: the old connection is closed and nobody is told.
ReplaceConnection(p) ==
    /\ BetweenFrames
    /\ connections[p].number < MaxConnections
    /\ connections' = [connections EXCEPT ![p] = [number |-> @.number + 1, state |-> "New"]]
    /\ CloseChannels(p)
    /\ UNCHANGED <<connectedPeerIds, announced, collectorVars, packetQueue, handled, frameVars, now>>
CreateConnection(p) ==
    /\ BetweenFrames
    /\ connections[p].number < MaxConnections
    /\ connections' = [connections EXCEPT ![p] = [number |-> @.number + 1, state |-> "New"]]
    /\ CloseChannels(p)
    /\ Disconnected(p)
    /\ UNCHANGED <<collectorVars, packetQueue, handled, frameVars, now>>

----------------------------------------------------------------------------
(* PacketChunkCollector. *)

\* Faulty variant: already at the time until which it may come.
TimedOutEarly(group) == now >= group.timeOutAfter
TimedOut(group) == now > group.timeOutAfter

\* CleanupTimedOutGroups, when its time has come.
KeptGroups ==
    IF now < nextCleanup THEN groups
    ELSE [id \in {g \in DOMAIN groups : ~ TimedOut(groups[g])} |-> groups[id]]

\* A chunk goes into its group, or opens one.
WithChunk(chunk, sender) ==
    LET group == IF chunk.group \in DOMAIN KeptGroups THEN KeptGroups[chunk.group]
                 ELSE [sender |-> sender, timeOutAfter |-> now + Timeout,
                       chunks |-> <<>>, targetSize |-> 0]
    IN  [group EXCEPT !.chunks = Append(@, chunk),
                      !.targetSize = IF chunk.isLast THEN chunk.index + 1 ELSE @]

\* A chunk of another sender, or of a group that has timed out and was not
\* cleaned up yet, is ignored.
Ignored(chunk, sender) ==
    /\ chunk.group \in DOMAIN KeptGroups
    /\ \/ KeptGroups[chunk.group].sender # sender
       \/ TimedOut(KeptGroups[chunk.group])

\* The group counts its chunks; it does not look at their indexes.
Complete(group) == Len(group.chunks) = group.targetSize

\* Faulty variant: in the order of their arrival.
JoinAsArrived(group) == FlattenSeq([i \in DOMAIN group.chunks |-> group.chunks[i].bytes])
\* OrderBy: what is equal stays in the order in which it was.
SortedByIndex(chunks) ==
    LET Before(a, b) == \/ chunks[a].index < chunks[b].index
                        \/ chunks[a].index = chunks[b].index /\ a < b
        places == DOMAIN chunks
        order == CHOOSE p \in Bijection(places, places) :
                    \A i, j \in places : i < j => Before(p[i], p[j])
    IN  [i \in places |-> chunks[order[i]]]
Restored(group) ==
    LET inOrder == SortedByIndex(group.chunks)
    IN  FlattenSeq([i \in DOMAIN inOrder |-> inOrder[i].bytes])

\* The packet that AddChunk restores, if any.
RestoredPackets(chunk, sender) ==
    IF ~ Ignored(chunk, sender) /\ Complete(WithChunk(chunk, sender))
    THEN <<[packet |-> chunk.packet, sender |-> sender, bytes |-> Restored(WithChunk(chunk, sender))]>>
    ELSE <<>>

\* Faulty variant: a complete group stays.
AddAndKeep(chunk, sender) ==
    /\ nextCleanup' = IF now >= nextCleanup THEN now + CleanupInterval ELSE nextCleanup
    /\ groups' = IF Ignored(chunk, sender) THEN KeptGroups
                 ELSE With(KeptGroups, chunk.group, WithChunk(chunk, sender))
AddChunk(chunk, sender) ==
    /\ nextCleanup' = IF now >= nextCleanup THEN now + CleanupInterval ELSE nextCleanup
    /\ groups' = IF Ignored(chunk, sender) THEN KeptGroups
                 ELSE IF Complete(WithChunk(chunk, sender))
                 THEN [id \in DOMAIN KeptGroups \ {chunk.group} |-> KeptGroups[id]]
                 ELSE With(KeptGroups, chunk.group, WithChunk(chunk, sender))

\* History: when the chunks of a packet arrived.
Arrive(chunk) ==
    LET before == IF chunk.packet \in DOMAIN arrivals THEN arrivals[chunk.packet] ELSE <<>>
    IN  arrivals' = With(arrivals, chunk.packet, Append(before, now))

----------------------------------------------------------------------------
(* HandlePacket. *)

\* A shard server defers a packet unless it is in a physics step.
Receive(packets) ==
    IF Side = "ShardServer" /\ step # "physics"
    THEN /\ packetQueue' = packetQueue \o packets
         /\ UNCHANGED handled
    ELSE /\ handled' = handled \o packets
         /\ UNCHANGED packetQueue

HandlePacket(chunk, sender) ==
    /\ Arrive(chunk)
    /\ IF chunk.group = 0
       THEN /\ Receive(<<[packet |-> chunk.packet, sender |-> sender, bytes |-> chunk.bytes]>>)
            /\ UNCHANGED <<groups, nextCleanup>>
       ELSE /\ Receive(RestoredPackets(chunk, sender))
            /\ AddChunk(chunk, sender)

----------------------------------------------------------------------------
(* The frames of the communicator. *)

\* Poll visits a copy of the dictionary, the first time in a frame.
StartPoll(then) ==
    /\ step' = then
    /\ toPoll' = {p \in Peers : connections[p].state # "None"}
    /\ reading' = NoPeer
    /\ didPoll' = TRUE

PhysicsProcess ==
    /\ step = "between"
    /\ IF didPoll
       THEN /\ step' = "flush"
            /\ UNCHANGED <<toPoll, reading, didPoll>>
       ELSE StartPoll("physics")
    /\ UNCHANGED <<networkVars, connectionVars, collectorVars, packetQueue, handled, now>>

\* The end of a frame.
Process ==
    /\ step = "between"
    /\ IF didPoll
       THEN /\ didPoll' = FALSE
            /\ UNCHANGED <<step, toPoll, reading>>
       ELSE StartPoll("process")
    /\ UNCHANGED <<networkVars, connectionVars, collectorVars, packetQueue, handled, now>>

Polling == step \in {"physics", "process"}

\* A closed connection is removed, a new one announced, and its channels read.
PollPeer(p) ==
    /\ Polling
    /\ p \in toPoll
    /\ toPoll' = toPoll \ {p}
    /\ IF connections[p].state = "Closed"
       THEN /\ connections' = [connections EXCEPT ![p].state = "None"]
            /\ Disconnected(p)
            /\ reading' = NoPeer
       ELSE /\ IF connections[p].state = "Connected"
               THEN /\ connectedPeerIds' = connectedPeerIds \cup {p}
                    /\ announced' = IF p \in connectedPeerIds THEN announced
                                    ELSE [announced EXCEPT ![p] = connections[p].number]
               ELSE UNCHANGED <<connectedPeerIds, announced>>
            /\ reading' = p
            /\ UNCHANGED connections
    /\ UNCHANGED <<networkVars, collectorVars, packetQueue, handled, step, didPoll, now>>

ReceiveReliable ==
    /\ Polling /\ reading # NoPeer
    /\ reliable[reading] # <<>>
    /\ HandlePacket(Head(reliable[reading]), reading)
    /\ reliable' = [reliable EXCEPT ![reading] = Tail(@)]
    /\ UNCHANGED <<sent, unreliable, connectionVars, frameVars, now>>

ReceiveUnreliable ==
    /\ Polling /\ reading # NoPeer
    /\ \E chunk \in unreliable[reading] :
          /\ HandlePacket(chunk, reading)
          /\ unreliable' = [unreliable EXCEPT ![reading] = @ \ {chunk}]
    /\ UNCHANGED <<sent, reliable, connectionVars, frameVars, now>>

\* Nothing more has arrived. A physics step of a shard server goes on to its
\* queue.
\* Faulty variant: it does not when it has polled.
EndStep ==
    /\ Polling
    /\ toPoll = {}
    /\ reading' = NoPeer
    /\ step' = "between"
    /\ didPoll' = (step = "physics")
    /\ UNCHANGED <<networkVars, connectionVars, collectorVars, packetQueue, handled, toPoll, now>>
EndPoll ==
    /\ Polling
    /\ toPoll = {}
    /\ reading' = NoPeer
    /\ step' = IF step = "physics" /\ Side = "ShardServer" THEN "flush" ELSE "between"
    /\ didPoll' = (step = "physics")
    /\ UNCHANGED <<networkVars, connectionVars, collectorVars, packetQueue, handled, toPoll, now>>

\* Faulty variant: one packet in a physics step.
HandleFirst ==
    /\ step = "flush"
    /\ \/ packetQueue = <<>> /\ UNCHANGED <<packetQueue, handled>>
       \/ /\ packetQueue # <<>>
          /\ handled' = Append(handled, Head(packetQueue))
          /\ packetQueue' = Tail(packetQueue)
    /\ step' = "between"
    /\ UNCHANGED <<networkVars, connectionVars, collectorVars, toPoll, reading, didPoll, now>>
HandleQueued ==
    /\ step = "flush"
    /\ handled' = handled \o packetQueue
    /\ packetQueue' = <<>>
    /\ step' = "between"
    /\ UNCHANGED <<networkVars, connectionVars, collectorVars, toPoll, reading, didPoll, now>>

----------------------------------------------------------------------------

Next ==
    \/ \E p \in Peers :
          \/ \E length \in Lengths, isReliable \in BOOLEAN : Send(p, length, isReliable)
          \/ Establish(p)
          \/ PeerCloses(p)
          \/ CreateConnection(p)
          \/ PollPeer(p)
    \/ PassTime
    \/ PhysicsProcess
    \/ Process
    \/ ReceiveReliable
    \/ ReceiveUnreliable
    \/ EndPoll
    \/ HandleQueued

Spec == Init /\ [][Next]_vars

\* Godot makes physics steps at a fixed rate, however many frames there are in
\* between, and a poll comes to its end. Nothing is assumed of the network.
Fairness ==
    /\ SF_vars(PhysicsProcess)
    /\ \A p \in Peers : WF_vars(PollPeer(p))
    /\ WF_vars(EndPoll)
    /\ WF_vars(HandleQueued)

FairSpec == Spec /\ Fairness

----------------------------------------------------------------------------
(* What must hold. *)

Received == handled \o packetQueue

IsReceived(id) == \E i \in DOMAIN Received : Received[i].packet = id

TypeOK ==
    /\ \A id \in DOMAIN sent :
          sent[id] \in [sender : Peers, length : Lengths, isReliable : BOOLEAN]
    /\ connections \in [Peers -> [number : 0..MaxConnections,
                                  state  : {"None", "New", "Connected", "Closed"}]]
    /\ connectedPeerIds \subseteq Peers
    /\ announced \in [Peers -> 0..MaxConnections]
    /\ DOMAIN groups \cup DOMAIN arrivals \subseteq DOMAIN sent
    /\ \A id \in DOMAIN groups :
          /\ groups[id].sender \in Peers
          /\ groups[id].timeOutAfter \in 0..(MaxTime + Timeout)
          /\ groups[id].chunks # <<>>
          /\ ~ Complete(groups[id])
    /\ nextCleanup \in 0..(MaxTime + CleanupInterval)
    /\ step \in {"between", "physics", "flush", "process"}
    /\ toPoll \subseteq Peers
    /\ reading \in Peers \cup {NoPeer}
    /\ didPoll \in BOOLEAN
    /\ now \in 0..MaxTime

\* What reaches a packet handler is a packet as its sender sent it, once: the
\* collector counts chunks and joins them (PacketChunkCollector.cs:32-39), some
\* of them lost, out of order, late, or of a group that was opened again.
HandledAsSent ==
    /\ \A i \in DOMAIN Received :
          /\ Received[i].bytes = Bytes(sent[Received[i].packet].length)
          /\ Received[i].sender = sent[Received[i].packet].sender
    /\ \A i, j \in DOMAIN Received : Received[i].packet = Received[j].packet => i = j

\* A packet all of whose chunks have arrived is handled, or waits for the
\* physics step, exactly when its last chunk came in time after its first,
\* whenever the collector cleaned up (PacketChunkCollector.cs:14-30, 45-54).
RestoredInTime ==
    \A id \in DOMAIN arrivals :
        LET times == arrivals[id]
        IN  Len(times) = Len(SplitIntoChunks(id, sent[id].length)) =>
                (IsReceived(id) <=> times[Len(times)] - times[1] <= Timeout)

\* A group that has timed out is gone a cleanup interval later, unless nothing
\* has arrived since (PacketChunkCollector.cs:45-54).
StaleGroupsAreCleanedUp ==
    \A id \in DOMAIN groups : groups[id].timeOutAfter >= nextCleanup - CleanupInterval

\* What listeners were told last of a peer is about its present connection:
\* none of them goes on with one that has been closed or replaced
\* (WebRtcFromGameplayToGameplayCommunicator.cs:108-129, 241-245).
AnnouncedIsPresent ==
    \A p \in Peers :
        /\ announced[p] \in {0, connections[p].number}
        /\ p \in connectedPeerIds <=> announced[p] # 0
        /\ announced[p] # 0 => connections[p].state \in {"Connected", "Closed"}

SentBefore(a, b) ==
    /\ a < b
    /\ sent[a].sender = sent[b].sender
    /\ sent[a].isReliable /\ sent[b].isReliable

\* A packet that was overtaken is handled before the physics step is over: the
\* units never tick in between (lines 74-81, 197-201).
OvertakenWithinStep ==
    step \in {"between", "process"} =>
        \A i \in DOMAIN packetQueue, j \in DOMAIN handled :
            ~ SentBefore(packetQueue[i].packet, handled[j].packet)

Delivery == INSTANCE PacketDelivery WITH waiting <- packetQueue

\* Through chunks that are lost, late or out of order, connections that are
\* replaced and frames that poll at any time, handlers get whole packets, none
\* twice, reliable ones accepted in the order in which they were sent, and a
\* physics step handles all that waits (PacketChunkCollector.AddChunk,
\* WebRtcFromGameplayToGameplayCommunicator.HandlePacket, PhysicsProcess).
ImplementsDelivery == Delivery!Spec

\* Every packet that waits is handled.
QueuedIsHandled == packetQueue # <<>> ~> packetQueue = <<>>
=============================================================================
