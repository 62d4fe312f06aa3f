--------------------------- MODULE TransportProofs ---------------------------
(***************************************************************************)
(* Proofs about Transport, for any peers, lengths, times and bounds: its   *)
(* type invariant, what listeners know of connections, the cleanup of      *)
(* groups, the order in which packets of a reliable channel are handled,   *)
(* that a packet is restored as it was sent, once, when all its chunks     *)
(* came in time, and that the communicator implements PacketDelivery.      *)
(***************************************************************************)
EXTENDS Transport, SequenceTheorems, FiniteSetTheorems, WellFoundedInduction, TLAPS

(***************************************************************************)
(* The inductive invariant.                                                *)
(***************************************************************************)
SentPackets == [sender : Peers, length : Lengths, isReliable : BOOLEAN]

Chunks == UNION {ToSet(SplitIntoChunks(id, length)) : id \in Nat \ {0}, length \in Lengths}

Groups == [sender : Peers, timeOutAfter : Nat, chunks : Seq(Chunks), targetSize : Nat]

Payloads == {c.bytes : c \in Chunks} \cup {Restored(g) : g \in Groups}

Packets == [packet : Nat \ {0}, sender : Peers, bytes : Payloads]

\* What is under way from a peer was sent by it, on this channel.
NetworkOK ==
    /\ sent \in Seq(SentPackets)
    /\ reliable \in [Peers -> Seq(Chunks)]
    /\ unreliable \in [Peers -> SUBSET Chunks]
    /\ \A p \in Peers : \A i \in 1..Len(reliable[p]) :
          LET id == reliable[p][i].packet
          IN  id \in 1..Len(sent) /\ sent[id].sender = p /\ sent[id].isReliable
    /\ \A p \in Peers : \A c \in unreliable[p] :
          c.packet \in 1..Len(sent) /\ ~ sent[c.packet].isReliable

ConnectionsOK ==
    /\ connections \in [Peers -> [number : 0..MaxConnections,
                                  state  : {"None", "New", "Connected", "Closed"}]]
    /\ connectedPeerIds \subseteq Peers
    /\ announced \in [Peers -> 0..MaxConnections]
    /\ \A p \in Peers : connections[p].number = 0 => connections[p].state = "None"
    /\ AnnouncedIsPresent

\* No cleanup is further away than the interval.
CollectorOK ==
    /\ DOMAIN groups \subseteq 1..Len(sent)
    /\ \A id \in DOMAIN groups :
          /\ groups[id] \in Groups
          /\ groups[id].timeOutAfter <= MaxTime + Timeout
          /\ groups[id].chunks # <<>>
          /\ ~ Complete(groups[id])
    /\ DOMAIN arrivals \subseteq 1..Len(sent)
    /\ nextCleanup \in 0..(now + CleanupInterval)
    /\ StaleGroupsAreCleanedUp

FrameOK ==
    /\ step \in {"between", "physics", "flush", "process"}
    /\ toPoll \subseteq Peers
    /\ reading \in Peers \cup {NoPeer}
    /\ didPoll \in BOOLEAN
    /\ now \in 0..MaxTime

\* Packet a does not come before packet b on a reliable channel.
NotBefore(a, b) ==
    sent[a].sender = sent[b].sender /\ sent[a].isReliable /\ sent[b].isReliable => b <= a

\* What is still under way does not come before what was received, nor before
\* what is under way ahead of it.
OrderOK ==
    /\ packetQueue \in Seq(Packets) /\ handled \in Seq(Packets)
    /\ \A i \in 1..Len(packetQueue) : packetQueue[i].packet \in 1..Len(sent)
    /\ \A i \in 1..Len(handled) : handled[i].packet \in 1..Len(sent)
    /\ \A p \in Peers : \A j \in 1..Len(reliable[p]) :
          /\ \A i \in 1..Len(packetQueue) : NotBefore(reliable[p][j].packet, packetQueue[i].packet)
          /\ \A i \in 1..Len(handled) : NotBefore(reliable[p][j].packet, handled[i].packet)
          /\ \A i \in 1..j - 1 : reliable[p][i].packet <= reliable[p][j].packet
    /\ Side # "ShardServer" => packetQueue = <<>>
    /\ step \in {"between", "process"} =>
          \A i \in 1..Len(packetQueue), j \in 1..Len(handled) :
              NotBefore(packetQueue[i].packet, handled[j].packet)

TransportInv == NetworkOK /\ ConnectionsOK /\ CollectorOK /\ FrameOK /\ OrderOK

----------------------------------------------------------------------------
(* Chunks and sequences. *)

\* A chunk is of the packet that was split, and its group is the packet's, or
\* none (PacketChunker.cs).
LEMMA ChunksOfPacket ==
    ASSUME NEW id \in Nat \ {0}, NEW length \in Lengths
    PROVE  /\ SplitIntoChunks(id, length) \in Seq(Chunks)
           /\ \A i \in 1..Len(SplitIntoChunks(id, length)) :
                 LET c == SplitIntoChunks(id, length)[i]
                 IN  c.packet = id /\ c.group \in {0, id} /\ c.index \in Nat /\ c.isLast \in BOOLEAN
<1> DEFINE count == (length + MaxBodySize - 1) \div MaxBodySize
           s == SplitIntoChunks(id, length)
<1>1. count \in Nat
  BY TransportAssumption DEF MaxBodySize
<1>2. \E n \in Nat : DOMAIN s = 1..n /\ s = [i \in 1..n |-> s[i]]
  <2>1. CASE length <= MaxChunkSize
    BY <2>1 DEF SplitIntoChunks, Whole
  <2>2. CASE ~ (length <= MaxChunkSize)
    BY <1>1, <2>2 DEF SplitIntoChunks
  <2> QED BY <2>1, <2>2
<1>3. PICK n \in Nat : DOMAIN s = 1..n /\ s = [i \in 1..n |-> s[i]]
  BY <1>2
<1>4. \A i \in 1..n : s[i] \in ToSet(s)
  BY <1>3 DEF ToSet
<1>5. ToSet(s) \subseteq Chunks
  BY DEF Chunks
<1>6. s \in Seq(Chunks) /\ Len(s) = n
  <2> HIDE DEF s
  <2> QED BY <1>3, <1>4, <1>5
<1>7. \A i \in 1..n : s[i].packet = id /\ s[i].group \in {0, id} /\ s[i].index \in Nat
                      /\ s[i].isLast \in BOOLEAN
  <2>1. CASE length <= MaxChunkSize
    <3> DEFINE chunk == [packet |-> id, group |-> 0, index |-> 0, isLast |-> TRUE,
                         bytes |-> Bytes(length)]
    <3>1. s = <<chunk>>
      BY <2>1 DEF SplitIntoChunks, Whole
    <3>2. chunk.packet = id /\ chunk.group = 0 /\ chunk.index = 0 /\ chunk.isLast \in BOOLEAN
      OBVIOUS
    <3>3. Len(s) = 1 /\ s[1] = chunk
      <4> HIDE DEF chunk
      <4> QED BY <3>1
    <3>4. n = 1
      BY <1>6, <3>3
    <3> HIDE DEF s, chunk
    <3> QED BY <3>2, <3>3, <3>4
  <2>2. CASE ~ (length <= MaxChunkSize)
    <3> DEFINE chunk(i) ==
            [packet |-> id, group |-> id, index |-> i - 1, isLast |-> i = count,
             bytes |-> SubSeq(Bytes(length), (i - 1) * MaxBodySize + 1,
                              IF i = count THEN length ELSE i * MaxBodySize)]
    <3>1. s = [i \in 1..count |-> chunk(i)]
      BY <2>2 DEF SplitIntoChunks
    <3>2. 1..n = 1..count
      BY <1>3, <3>1
    <3>3. \A i \in 1..n : s[i] = chunk(i)
      <4> HIDE DEF s, chunk
      <4> QED BY <3>1, <3>2
    <3>4. ASSUME NEW i \in 1..n
          PROVE  s[i].packet = id /\ s[i].group = id /\ s[i].index = i - 1 /\ s[i].isLast \in BOOLEAN
      <4>1. s[i] = chunk(i)
        BY <3>3
      <4>2. chunk(i).packet = id /\ chunk(i).group = id /\ chunk(i).index = i - 1
            /\ chunk(i).isLast \in BOOLEAN
        <5> HIDE DEF count
        <5> QED OBVIOUS
      <4> HIDE DEF s, chunk
      <4> QED BY <4>1, <4>2
    <3>5. \A i \in 1..n : i - 1 \in Nat
      OBVIOUS
    <3> HIDE DEF s
    <3> QED BY <3>4, <3>5
  <2> QED BY <2>1, <2>2
<1> QED BY <1>6, <1>7

LEMMA ChunkTypes ==
    ASSUME NEW c \in Chunks
    PROVE  /\ c.packet \in Nat \ {0} /\ c.group \in {0, c.packet}
           /\ c.index \in Nat /\ c.isLast \in BOOLEAN /\ c.bytes \in Payloads
<1>1. PICK id \in Nat \ {0}, length \in Lengths : c \in ToSet(SplitIntoChunks(id, length))
  BY DEF Chunks
<1>2. PICK i \in 1..Len(SplitIntoChunks(id, length)) : c = SplitIntoChunks(id, length)[i]
  BY <1>1, ChunksOfPacket DEF ToSet
<1>3. c.bytes \in Payloads
  BY DEF Payloads
<1>4. c.packet = id /\ c.group \in {0, id} /\ c.index \in Nat /\ c.isLast \in BOOLEAN
  BY <1>2, ChunksOfPacket, Zenon
<1> QED BY <1>3, <1>4, Zenon

\* At first nobody is connected and nothing is under way.
LEMMA InitialStates == Init => TransportInv
<1> SUFFICES ASSUME Init PROVE TransportInv
  OBVIOUS
<1> USE TransportAssumption DEF Init
<1>1. NetworkOK
  BY DEF NetworkOK
<1>2. ConnectionsOK
  BY DEF ConnectionsOK, AnnouncedIsPresent
<1>3. CollectorOK
  BY DEF CollectorOK, StaleGroupsAreCleanedUp, Empty
<1>4. FrameOK
  <2>1. toPoll \subseteq Peers /\ step \in {"between", "physics", "flush", "process"}
    OBVIOUS
  <2>2. reading \in Peers \cup {NoPeer} /\ didPoll \in BOOLEAN
    OBVIOUS
  <2>3. now \in 0..MaxTime
    OBVIOUS
  <2> QED BY <2>1, <2>2, <2>3 DEF FrameOK
<1>5. OrderOK
  BY DEF OrderOK
<1> QED BY <1>1, <1>2, <1>3, <1>4, <1>5 DEF TransportInv

----------------------------------------------------------------------------
(* The peers and the network. *)

\* One more packet leaves those that were sent as they are.
LEMMA SentMore ==
    ASSUME NetworkOK, NEW packet \in SentPackets, sent' = Append(sent, packet)
    PROVE  /\ sent' \in Seq(SentPackets) /\ Len(sent') = Len(sent) + 1 /\ Len(sent) \in Nat
           /\ sent'[Len(sent) + 1] = packet
           /\ \A id \in 1..Len(sent) : sent'[id] = sent[id] /\ id \in 1..Len(sent')
BY DEF NetworkOK

\* Send: the packet comes after all that its sender has sent (SendToMany).
LEMMA SendStep ==
    ASSUME TransportInv, NEW p \in Peers, NEW length \in Lengths, NEW isReliable \in BOOLEAN,
           Send(p, length, isReliable)
    PROVE  TransportInv'
<1> DEFINE packet == [sender |-> p, length |-> length, isReliable |-> isReliable]
           id == Len(sent) + 1
           chunks == SplitIntoChunks(id, length)
<1>1. /\ sent' = Append(sent, packet) /\ packet \in SentPackets
      /\ UNCHANGED <<connectionVars, collectorVars, packetQueue, handled, frameVars, now>>
  BY DEF Send, SentPackets
<1> HIDE DEF packet
<1>2. /\ sent' \in Seq(SentPackets) /\ Len(sent') = id /\ Len(sent) \in Nat /\ sent'[id] = packet
      /\ \A i \in 1..Len(sent) : sent'[i] = sent[i] /\ i \in 1..Len(sent')
  BY <1>1, SentMore DEF TransportInv
<1>3. packet.sender = p /\ packet.isReliable = isReliable
  BY DEF packet
<1>4. id \in Nat \ {0}
  BY <1>2
<1>5. /\ chunks \in Seq(Chunks)
      /\ \A i \in 1..Len(chunks) : chunks[i].packet = id
  BY <1>4, ChunksOfPacket
<1> HIDE DEF id, chunks
<1>6. CASE isReliable
  <2>1. reliable' = [reliable EXCEPT ![p] = @ \o chunks] /\ unreliable' = unreliable
    BY <1>6 DEF Send, id, chunks
  <2>2. reliable[p] \in Seq(Chunks)
    BY DEF TransportInv, NetworkOK
  <2>3. /\ reliable' \in [Peers -> Seq(Chunks)]
        /\ \A q \in Peers \ {p} : reliable'[q] = reliable[q]
        /\ Len(reliable'[p]) = Len(reliable[p]) + Len(chunks)
        /\ \A i \in 1..Len(reliable'[p]) :
              reliable'[p][i] = IF i <= Len(reliable[p]) THEN reliable[p][i]
                                ELSE chunks[i - Len(reliable[p])]
    <3>1. reliable'[p] = reliable[p] \o chunks /\ \A q \in Peers \ {p} : reliable'[q] = reliable[q]
      BY <2>1 DEF TransportInv, NetworkOK
    <3>2. reliable'[p] \in Seq(Chunks)
      BY <1>5, <2>2, <3>1, ConcatProperties
    <3> QED BY <1>5, <2>1, <2>2, <3>1, <3>2, ConcatProperties DEF TransportInv, NetworkOK
  <2>4. \A q \in Peers : \A i \in 1..Len(reliable'[q]) :
           \/ i \in 1..Len(reliable[q]) /\ reliable'[q][i] = reliable[q][i]
           \/ q = p /\ i > Len(reliable[q]) /\ reliable'[q][i].packet = id
    <3> SUFFICES ASSUME NEW q \in Peers, NEW i \in 1..Len(reliable'[q])
                 PROVE  \/ i \in 1..Len(reliable[q]) /\ reliable'[q][i] = reliable[q][i]
                        \/ q = p /\ i > Len(reliable[q]) /\ reliable'[q][i].packet = id
      OBVIOUS
    <3>1. CASE q # p
      BY <2>3, <3>1
    <3>2. CASE q = p /\ i <= Len(reliable[p])
      BY <2>2, <2>3, <3>2
    <3>3. CASE q = p /\ ~ (i <= Len(reliable[p]))
      <4>1. i - Len(reliable[p]) \in 1..Len(chunks)
        BY <1>5, <2>2, <2>3, <3>3
      <4> QED BY <1>5, <2>2, <2>3, <3>3, <4>1
    <3> QED BY <3>1, <3>2, <3>3
  <2>5. NetworkOK'
    <3>1. ASSUME NEW q \in Peers, NEW i \in 1..Len(reliable'[q])
          PROVE  LET k == reliable'[q][i].packet
                 IN  k \in 1..Len(sent') /\ sent'[k].sender = q /\ sent'[k].isReliable
      <4>1. CASE i \in 1..Len(reliable[q]) /\ reliable'[q][i] = reliable[q][i]
        BY <1>2, <4>1 DEF TransportInv, NetworkOK
      <4>2. CASE q = p /\ reliable'[q][i].packet = id
        <5>1. sent'[id].isReliable
          BY <1>2, <1>3, <1>6, Zenon
        <5> QED BY <1>2, <1>3, <1>4, <4>2, <5>1
      <4> QED BY <2>4, <4>1, <4>2
    <3>2. \A q \in Peers : \A c \in unreliable'[q] :
             c.packet \in 1..Len(sent') /\ ~ sent'[c.packet].isReliable
      BY <1>2, <2>1 DEF TransportInv, NetworkOK
    <3> QED BY <1>2, <2>1, <2>3, <3>1, <3>2 DEF TransportInv, NetworkOK
  <2>6. OrderOK'
    <3>1. \A a, b \in 1..Len(sent) : NotBefore(a, b) => NotBefore(a, b)'
      BY <1>2 DEF NotBefore
    <3>2. \A b \in 1..Len(sent), a \in {id} : NotBefore(a, b)'
      BY <1>2 DEF NotBefore, id
    <3>3. ASSUME NEW q \in Peers, NEW j \in 1..Len(reliable'[q])
          PROVE  /\ \A i \in 1..Len(packetQueue) :
                       NotBefore(reliable[q][j].packet, packetQueue[i].packet)'
                 /\ \A i \in 1..Len(handled) :
                       NotBefore(reliable[q][j].packet, handled[i].packet)'
                 /\ \A i \in 1..j - 1 : reliable'[q][i].packet <= reliable'[q][j].packet
      <4>1. CASE j \in 1..Len(reliable[q]) /\ reliable'[q][j] = reliable[q][j]
        <5>1. \A i \in 1..j - 1 : i \in 1..Len(reliable[q])
          BY <2>3, <4>1 DEF TransportInv, NetworkOK
        <5>2. \A i \in 1..j - 1 : reliable'[q][i] = reliable[q][i]
          BY <2>2, <2>3, <5>1
        <5>3. reliable[q][j].packet \in 1..Len(sent)
          BY <4>1 DEF TransportInv, NetworkOK
        <5> QED BY <1>1, <3>1, <4>1, <5>2, <5>3 DEF TransportInv, OrderOK
      <4>2. CASE q = p /\ j > Len(reliable[q]) /\ reliable'[q][j].packet = id
        <5>1. ASSUME NEW i \in 1..j - 1 PROVE reliable'[q][i].packet <= id
          <6>1. i \in 1..Len(reliable'[q])
            BY <2>3, <4>2
          <6>2. CASE i \in 1..Len(reliable[q]) /\ reliable'[q][i] = reliable[q][i]
            <7>1. reliable[q][i].packet \in 1..Len(sent)
              BY <6>2 DEF TransportInv, NetworkOK
            <7> QED BY <1>2, <6>2, <7>1 DEF id
          <6>3. CASE reliable'[q][i].packet = id
            BY <1>4, <6>3
          <6> QED BY <2>4, <6>1, <6>2, <6>3
        <5> QED BY <1>1, <3>2, <4>2, <5>1 DEF TransportInv, OrderOK
      <4> QED BY <2>4, <4>1, <4>2
    <3>4. \A i \in 1..Len(packetQueue), j \in 1..Len(handled) :
             NotBefore(packetQueue[i].packet, handled[j].packet)
             => NotBefore(packetQueue[i].packet, handled[j].packet)'
      BY <1>1, <3>1 DEF TransportInv, OrderOK
    <3> QED BY <1>1, <1>2, <3>3, <3>4 DEF TransportInv, OrderOK, frameVars
  <2> QED BY <1>1, <1>2, <2>5, <2>6
          DEF TransportInv, ConnectionsOK, AnnouncedIsPresent, CollectorOK, StaleGroupsAreCleanedUp,
              FrameOK, connectionVars, collectorVars, frameVars
<1>7. CASE ~ isReliable
  <2>1. reliable' = reliable /\ unreliable' = [unreliable EXCEPT ![p] = @ \cup ToSet(chunks)]
    BY <1>7 DEF Send, id, chunks
  <2>2. ToSet(chunks) \subseteq Chunks /\ \A c \in ToSet(chunks) : c.packet = id
    BY <1>5 DEF ToSet
  <2>3. NetworkOK'
    <3>1. unreliable' \in [Peers -> SUBSET Chunks]
      BY <2>1, <2>2 DEF TransportInv, NetworkOK
    <3>2. ASSUME NEW q \in Peers, NEW c \in unreliable'[q]
          PROVE  c.packet \in 1..Len(sent') /\ ~ sent'[c.packet].isReliable
      <4>1. c \in unreliable[q] \/ c \in ToSet(chunks)
        BY <2>1 DEF TransportInv, NetworkOK
      <4>2. CASE c \in unreliable[q]
        BY <1>2, <4>2 DEF TransportInv, NetworkOK
      <4>3. CASE c \in ToSet(chunks)
        BY <1>2, <1>3, <1>4, <1>7, <2>2, <4>3
      <4> QED BY <4>1, <4>2, <4>3
    <3> QED BY <1>2, <2>1, <3>1, <3>2 DEF TransportInv, NetworkOK
  <2>4. OrderOK'
    <3>1. \A a, b \in 1..Len(sent) : NotBefore(a, b) => NotBefore(a, b)'
      BY <1>2 DEF NotBefore
    <3>2. \A q \in Peers : \A j \in 1..Len(reliable[q]) : reliable[q][j].packet \in 1..Len(sent)
      BY DEF TransportInv, NetworkOK
    <3>3. \A q \in Peers : \A j \in 1..Len(reliable[q]) :
             /\ \A i \in 1..Len(packetQueue) :
                   NotBefore(reliable[q][j].packet, packetQueue[i].packet)'
             /\ \A i \in 1..Len(handled) :
                   NotBefore(reliable[q][j].packet, handled[i].packet)'
      BY <1>1, <2>1, <3>1, <3>2 DEF TransportInv, OrderOK
    <3>4. \A i \in 1..Len(packetQueue), j \in 1..Len(handled) :
             NotBefore(packetQueue[i].packet, handled[j].packet)
             => NotBefore(packetQueue[i].packet, handled[j].packet)'
      BY <1>1, <3>1 DEF TransportInv, OrderOK
    <3> QED BY <1>1, <1>2, <2>1, <3>3, <3>4 DEF TransportInv, OrderOK, frameVars
  <2> QED BY <1>1, <1>2, <2>3, <2>4
          DEF TransportInv, ConnectionsOK, AnnouncedIsPresent, CollectorOK, StaleGroupsAreCleanedUp,
              FrameOK, connectionVars, collectorVars, frameVars
<1> QED BY <1>6, <1>7

\* What was under way is lost; what was received stays as it is (CloseChannels).
LEMMA ChannelsClosed ==
    ASSUME TransportInv, NEW p \in Peers, CloseChannels(p), UNCHANGED <<packetQueue, handled, step>>
    PROVE  NetworkOK' /\ OrderOK'
<1>1. sent' = sent /\ reliable' = [reliable EXCEPT ![p] = <<>>]
      /\ unreliable' = [unreliable EXCEPT ![p] = {}]
  BY DEF CloseChannels
<1>2. reliable' \in [Peers -> Seq(Chunks)] /\ unreliable' \in [Peers -> SUBSET Chunks]
  BY <1>1 DEF TransportInv, NetworkOK
<1>3. \A q \in Peers : reliable'[q] = reliable[q] \/ Len(reliable'[q]) = 0
  BY <1>1 DEF TransportInv, NetworkOK
<1>4. \A q \in Peers : unreliable'[q] \subseteq unreliable[q]
  BY <1>1 DEF TransportInv, NetworkOK
<1>5. \A q \in Peers : \A i \in 1..Len(reliable'[q]) :
         i \in 1..Len(reliable[q]) /\ reliable'[q] = reliable[q]
  BY <1>3
<1>6. NetworkOK'
  BY <1>1, <1>2, <1>4, <1>5 DEF TransportInv, NetworkOK
<1>7. \A q \in Peers : \A j \in 1..Len(reliable'[q]) :
         /\ \A i \in 1..Len(packetQueue) : NotBefore(reliable'[q][j].packet, packetQueue[i].packet)
         /\ \A i \in 1..Len(handled) : NotBefore(reliable'[q][j].packet, handled[i].packet)
         /\ \A i \in 1..j - 1 : reliable'[q][i].packet <= reliable'[q][j].packet
  BY <1>5 DEF TransportInv, OrderOK
<1>8. \A a, b : NotBefore(a, b)' <=> NotBefore(a, b)
  BY <1>1 DEF NotBefore
<1>9. OrderOK'
  BY <1>1, <1>7, <1>8 DEF TransportInv, OrderOK, NotBefore
<1> QED BY <1>6, <1>9

\* A step that leaves the network and the queues alone.
LEMMA NetworkKept ==
    ASSUME TransportInv, UNCHANGED <<networkVars, packetQueue, handled>>,
           step' \in {"between", "process"} => step \in {"between", "process"}
    PROVE  NetworkOK' /\ OrderOK'
BY DEF TransportInv, NetworkOK, OrderOK, NotBefore, networkVars

LEMMA CollectorKept ==
    ASSUME TransportInv, UNCHANGED <<collectorVars, sent, now>>
    PROVE  CollectorOK'
BY DEF TransportInv, CollectorOK, StaleGroupsAreCleanedUp, Complete, collectorVars

\* A connection that opens is announced by the next poll.
LEMMA EstablishStep ==
    ASSUME TransportInv, NEW p \in Peers, Establish(p)
    PROVE  TransportInv'
<1>1. NetworkOK' /\ OrderOK' /\ CollectorOK'
  BY NetworkKept, CollectorKept DEF Establish, networkVars, frameVars
<1>2. FrameOK'
  BY DEF TransportInv, FrameOK, Establish, frameVars
<1>3. connections' = [connections EXCEPT ![p].state = "Connected"] /\ connections[p].state = "New"
      /\ UNCHANGED <<connectedPeerIds, announced>>
  BY DEF Establish
<1>4. connections' \in [Peers -> [number : 0..MaxConnections,
                                  state  : {"None", "New", "Connected", "Closed"}]]
  BY <1>3 DEF TransportInv, ConnectionsOK
<1>5. \A q \in Peers : connections'[q].number = connections[q].number
                       /\ connections'[q].state = IF q = p THEN "Connected" ELSE connections[q].state
  BY <1>3 DEF TransportInv, ConnectionsOK
<1>6. ConnectionsOK'
  BY <1>3, <1>4, <1>5 DEF TransportInv, ConnectionsOK, AnnouncedIsPresent
<1> QED BY <1>1, <1>2, <1>6 DEF TransportInv

LEMMA PeerClosesStep ==
    ASSUME TransportInv, NEW p \in Peers, PeerCloses(p)
    PROVE  TransportInv'
<1>1. NetworkOK' /\ OrderOK' /\ CollectorOK'
  BY ChannelsClosed, CollectorKept DEF PeerCloses, CloseChannels, frameVars
<1>2. FrameOK'
  BY DEF TransportInv, FrameOK, PeerCloses, frameVars
<1>3. connections' = [connections EXCEPT ![p].state = "Closed"] /\ connections[p].state # "None"
      /\ UNCHANGED <<connectedPeerIds, announced>>
  BY DEF PeerCloses
<1>4. connections' \in [Peers -> [number : 0..MaxConnections,
                                  state  : {"None", "New", "Connected", "Closed"}]]
  BY <1>3 DEF TransportInv, ConnectionsOK
<1>5. \A q \in Peers : connections'[q].number = connections[q].number
                       /\ connections'[q].state = IF q = p THEN "Closed" ELSE connections[q].state
  BY <1>3 DEF TransportInv, ConnectionsOK
<1>6. ConnectionsOK'
  BY <1>3, <1>4, <1>5 DEF TransportInv, ConnectionsOK, AnnouncedIsPresent
<1> QED BY <1>1, <1>2, <1>6 DEF TransportInv

\* The cleanup comes no later for time that passes.
LEMMA PassTimeStep == ASSUME TransportInv, PassTime PROVE TransportInv'
<1>1. NetworkOK' /\ OrderOK'
  BY NetworkKept DEF PassTime, networkVars, frameVars
<1>2. now' = now + 1 /\ now' \in 0..MaxTime
  BY TransportAssumption DEF PassTime, TransportInv, FrameOK
<1>3. CollectorOK'
  <2>1. nextCleanup \in 0..(now' + CleanupInterval)
    BY <1>2, TransportAssumption DEF TransportInv, CollectorOK, FrameOK
  <2> QED BY <2>1 DEF PassTime, networkVars, collectorVars, TransportInv, CollectorOK,
                      StaleGroupsAreCleanedUp, Complete
<1>4. FrameOK' /\ ConnectionsOK'
  BY <1>2 DEF PassTime, TransportInv, FrameOK, ConnectionsOK, AnnouncedIsPresent, frameVars,
              connectionVars
<1> QED BY <1>1, <1>3, <1>4 DEF TransportInv

\* A listener that was told of a connection is told that it is gone
\* (OnPeerDisconnected).
LEMMA DisconnectedKept ==
    ASSUME ConnectionsOK, NEW p \in Peers, Disconnected(p)
    PROVE  /\ connectedPeerIds' = connectedPeerIds \ {p}
           /\ announced' \in [Peers -> 0..MaxConnections]
           /\ announced'[p] = 0
           /\ \A q \in Peers \ {p} : announced'[q] = announced[q]
<1>1. CASE p \in connectedPeerIds
  BY <1>1, TransportAssumption DEF ConnectionsOK, Disconnected
<1>2. CASE p \notin connectedPeerIds
  BY <1>2 DEF ConnectionsOK, Disconnected, AnnouncedIsPresent
<1> QED BY <1>1, <1>2

LEMMA CreateConnectionStep ==
    ASSUME TransportInv, NEW p \in Peers, CreateConnection(p)
    PROVE  TransportInv'
<1>1. NetworkOK' /\ OrderOK' /\ CollectorOK'
  BY ChannelsClosed, CollectorKept DEF CreateConnection, CloseChannels, frameVars
<1>2. FrameOK'
  BY DEF TransportInv, FrameOK, CreateConnection, frameVars
<1>3. /\ connections' = [connections EXCEPT ![p] = [number |-> @.number + 1, state |-> "New"]]
      /\ connections[p].number < MaxConnections
      /\ Disconnected(p)
  BY DEF CreateConnection
<1>4. connections[p].number + 1 \in 0..MaxConnections
  BY <1>3, TransportAssumption DEF TransportInv, ConnectionsOK
<1>5. connections' \in [Peers -> [number : 0..MaxConnections,
                                  state  : {"None", "New", "Connected", "Closed"}]]
  BY <1>3, <1>4 DEF TransportInv, ConnectionsOK
<1>6. /\ connections'[p].number = connections[p].number + 1 /\ connections'[p].state = "New"
      /\ \A q \in Peers \ {p} : connections'[q] = connections[q]
  BY <1>3 DEF TransportInv, ConnectionsOK
<1>7. connections'[p].number # 0
  BY <1>6 DEF TransportInv, ConnectionsOK
<1>8. ConnectionsOK'
  BY <1>3, <1>5, <1>6, <1>7, DisconnectedKept DEF TransportInv, ConnectionsOK, AnnouncedIsPresent
<1> QED BY <1>1, <1>2, <1>8 DEF TransportInv

----------------------------------------------------------------------------
(* A frame. *)

\* From a poll to the packets that wait, or between two steps.
LEMMA FrameStepKept ==
    ASSUME TransportInv, UNCHANGED <<networkVars, connectionVars, collectorVars, packetQueue, handled, now>>,
           step' \in {"between", "physics", "flush", "process"},
           step' \in {"between", "process"} => step \in {"between", "process"},
           toPoll' \subseteq Peers, reading' \in Peers \cup {NoPeer}, didPoll' \in BOOLEAN
    PROVE  TransportInv'
<1>1. NetworkOK' /\ OrderOK' /\ CollectorOK'
  BY NetworkKept, CollectorKept DEF networkVars
<1>2. ConnectionsOK'
  BY DEF TransportInv, ConnectionsOK, AnnouncedIsPresent, connectionVars
<1>3. FrameOK'
  BY DEF TransportInv, FrameOK
<1> QED BY <1>1, <1>2, <1>3 DEF TransportInv

LEMMA PhysicsProcessStep == ASSUME TransportInv, PhysicsProcess PROVE TransportInv'
<1>1. step' \in {"physics", "flush"} /\ toPoll' \subseteq Peers /\ reading' \in Peers \cup {NoPeer}
      /\ didPoll' \in BOOLEAN
  BY DEF PhysicsProcess, StartPoll, TransportInv, FrameOK
<1> QED BY <1>1, FrameStepKept DEF PhysicsProcess

LEMMA ProcessStep == ASSUME TransportInv, Process PROVE TransportInv'
<1>1. step = "between" /\ step' \in {"between", "process"} /\ toPoll' \subseteq Peers
      /\ reading' \in Peers \cup {NoPeer} /\ didPoll' \in BOOLEAN
  BY DEF Process, StartPoll, TransportInv, FrameOK
<1> QED BY <1>1, FrameStepKept DEF Process

\* A closed connection is forgotten together with what listeners know of it.
LEMMA PollPeerStep ==
    ASSUME TransportInv, NEW p \in Peers, PollPeer(p)
    PROVE  TransportInv'
<1>1. NetworkOK' /\ OrderOK' /\ CollectorOK'
  BY NetworkKept, CollectorKept DEF PollPeer, networkVars
<1>2. FrameOK'
  BY DEF TransportInv, FrameOK, PollPeer
<1>3. CASE connections[p].state = "Closed"
  <2>1. connections' = [connections EXCEPT ![p].state = "None"] /\ Disconnected(p)
    BY <1>3 DEF PollPeer
  <2>2. connections' \in [Peers -> [number : 0..MaxConnections,
                                    state  : {"None", "New", "Connected", "Closed"}]]
    BY <2>1 DEF TransportInv, ConnectionsOK
  <2>3. \A q \in Peers : connections'[q].number = connections[q].number
                         /\ connections'[q].state = IF q = p THEN "None" ELSE connections[q].state
    BY <2>1 DEF TransportInv, ConnectionsOK
  <2>4. ConnectionsOK'
    BY <2>1, <2>2, <2>3, DisconnectedKept DEF TransportInv, ConnectionsOK, AnnouncedIsPresent
  <2> QED BY <1>1, <1>2, <2>4 DEF TransportInv
<1>4. CASE connections[p].state = "Connected"
  <2>1. /\ connectedPeerIds' = connectedPeerIds \cup {p} /\ connections' = connections
        /\ announced' = IF p \in connectedPeerIds THEN announced
                        ELSE [announced EXCEPT ![p] = connections[p].number]
    BY <1>4 DEF PollPeer
  <2>2. connections[p].number \in 0..MaxConnections /\ connections[p].number # 0
    BY <1>4 DEF TransportInv, ConnectionsOK
  <2>3. /\ announced' \in [Peers -> 0..MaxConnections]
        /\ announced'[p] = connections[p].number
        /\ \A q \in Peers \ {p} : announced'[q] = announced[q]
    <3>1. CASE p \in connectedPeerIds
      BY <2>1, <3>1 DEF TransportInv, ConnectionsOK, AnnouncedIsPresent
    <3>2. CASE p \notin connectedPeerIds
      BY <2>1, <2>2, <3>2 DEF TransportInv, ConnectionsOK
    <3> QED BY <3>1, <3>2
  <2>4. ConnectionsOK'
    BY <1>4, <2>1, <2>2, <2>3 DEF TransportInv, ConnectionsOK, AnnouncedIsPresent
  <2> QED BY <1>1, <1>2, <2>4 DEF TransportInv
<1>5. CASE connections[p].state \notin {"Closed", "Connected"}
  <2>1. UNCHANGED connectionVars
    BY <1>5 DEF PollPeer, connectionVars
  <2> QED BY <1>1, <1>2, <2>1 DEF TransportInv, ConnectionsOK, AnnouncedIsPresent, connectionVars
<1> QED BY <1>3, <1>4, <1>5

\* A shard server ends a physics step with its queue.
LEMMA EndPollStep == ASSUME TransportInv, EndPoll PROVE TransportInv'
<1>1. UNCHANGED <<networkVars, connectionVars, collectorVars, packetQueue, handled, toPoll, now>>
      /\ reading' = NoPeer /\ didPoll' \in BOOLEAN
  BY DEF EndPoll
<1>2. CASE step' \in {"between", "process"} => step \in {"between", "process"}
  <2>1. step' \in {"between", "flush"} /\ toPoll' \subseteq Peers
    BY <1>1 DEF EndPoll, TransportInv, FrameOK
  <2> QED BY <1>1, <1>2, <2>1, FrameStepKept
<1>3. CASE step = "physics" /\ Side # "ShardServer"
  <2>1. packetQueue = <<>> /\ step' = "between" /\ Len(packetQueue) = 0
    BY <1>3 DEF EndPoll, TransportInv, OrderOK
  <2>2. OrderOK' /\ NetworkOK'
    BY <1>1, <2>1 DEF TransportInv, NetworkOK, OrderOK, NotBefore, networkVars
  <2>3. CollectorOK' /\ FrameOK'
    BY <1>1, <2>1, CollectorKept DEF TransportInv, FrameOK, networkVars
  <2>4. ConnectionsOK'
    BY <1>1 DEF TransportInv, ConnectionsOK, AnnouncedIsPresent, connectionVars
  <2> QED BY <2>2, <2>3, <2>4 DEF TransportInv
<1>4. (step = "physics" /\ Side # "ShardServer")
      \/ (step' \in {"between", "process"} => step \in {"between", "process"})
  BY DEF EndPoll, Polling
<1> QED BY <1>2, <1>3, <1>4

LEMMA HandleQueuedStep == ASSUME TransportInv, HandleQueued PROVE TransportInv'
<1>1. /\ handled' = handled \o packetQueue /\ packetQueue' = <<>> /\ step' = "between"
      /\ UNCHANGED <<networkVars, connectionVars, collectorVars, toPoll, reading, didPoll, now>>
  BY DEF HandleQueued
<1>2. /\ handled' \in Seq(Packets) /\ Len(handled') = Len(handled) + Len(packetQueue)
      /\ \A i \in 1..Len(handled') :
            handled'[i] = IF i <= Len(handled) THEN handled[i] ELSE packetQueue[i - Len(handled)]
  BY <1>1, ConcatProperties DEF TransportInv, OrderOK
<1>3. \A i \in 1..Len(handled') :
         \/ i \in 1..Len(handled) /\ handled'[i] = handled[i]
         \/ i - Len(handled) \in 1..Len(packetQueue) /\ handled'[i] = packetQueue[i - Len(handled)]
  BY <1>2 DEF TransportInv, OrderOK
<1>4. packetQueue' \in Seq(Packets) /\ Len(packetQueue') = 0
  BY <1>1
<1>5. \A a, b : NotBefore(a, b)' <=> NotBefore(a, b)
  BY <1>1 DEF NotBefore, networkVars
<1>6. \A i \in 1..Len(handled') :
         /\ handled'[i].packet \in 1..Len(sent)
         /\ \A p \in Peers : \A j \in 1..Len(reliable[p]) :
               NotBefore(reliable[p][j].packet, handled'[i].packet)
  BY <1>3 DEF TransportInv, OrderOK
<1>7. OrderOK'
  <2>1. sent' = sent /\ reliable' = reliable
    BY <1>1 DEF networkVars
  <2>2. \A p \in Peers : \A j \in 1..Len(reliable[p]) : \A i \in 1..Len(handled') :
           NotBefore(reliable[p][j].packet, handled[i].packet)'
    BY <1>6, <2>1 DEF NotBefore
  <2>3. \A p \in Peers : \A j \in 1..Len(reliable[p]) : \A i \in 1..j - 1 :
           reliable[p][i].packet <= reliable[p][j].packet
    BY DEF TransportInv, OrderOK
  <2> QED BY <1>1, <1>2, <1>4, <1>6, <2>1, <2>2, <2>3 DEF OrderOK
<1>8. NetworkOK' /\ CollectorOK'
  BY <1>1, CollectorKept DEF TransportInv, NetworkOK, networkVars
<1>9. ConnectionsOK' /\ FrameOK'
  BY <1>1 DEF TransportInv, ConnectionsOK, AnnouncedIsPresent, FrameOK, connectionVars
<1> QED BY <1>7, <1>8, <1>9 DEF TransportInv

----------------------------------------------------------------------------
(* PacketChunkCollector. *)

\* A cleanup leaves what has not timed out, and the next one is an interval away.
LEMMA CleanedUp ==
    ASSUME CollectorOK, now \in Nat, NEW next,
           next = IF now >= nextCleanup THEN now + CleanupInterval ELSE nextCleanup
    PROVE  /\ next \in 0..(now + CleanupInterval)
           /\ DOMAIN KeptGroups \subseteq DOMAIN groups
           /\ \A id \in DOMAIN KeptGroups :
                 KeptGroups[id] = groups[id] /\ groups[id].timeOutAfter >= next - CleanupInterval
           /\ now + Timeout >= next - CleanupInterval
<1>1. CleanupInterval \in Nat /\ Timeout \in Nat /\ nextCleanup \in Int
  BY TransportAssumption DEF CollectorOK
<1>2. \A id \in DOMAIN groups : groups[id].timeOutAfter \in Int
  BY DEF CollectorOK, Groups
<1>3. CASE now < nextCleanup
  <2>1. KeptGroups = groups /\ next = nextCleanup
    BY <1>1, <1>3 DEF KeptGroups
  <2> QED BY <1>1, <2>1 DEF CollectorOK, StaleGroupsAreCleanedUp
<1>4. CASE ~ (now < nextCleanup)
  <2>1. next = now + CleanupInterval
    BY <1>1, <1>4
  <2>2. KeptGroups = [id \in {g \in DOMAIN groups : ~ TimedOut(groups[g])} |-> groups[id]]
    BY <1>4 DEF KeptGroups
  <2>3. \A id \in DOMAIN KeptGroups :
           id \in DOMAIN groups /\ ~ TimedOut(groups[id]) /\ KeptGroups[id] = groups[id]
    BY <2>2
  <2>4. \A id \in DOMAIN KeptGroups : groups[id].timeOutAfter >= now
    BY <1>2, <2>3 DEF TimedOut
  <2> QED BY <1>1, <1>2, <2>1, <2>3, <2>4
<1> QED BY <1>3, <1>4

\* The group a chunk goes into.
LEMMA ChunkAdded ==
    ASSUME CollectorOK, now \in 0..MaxTime, NEW chunk \in Chunks, NEW p \in Peers
    PROVE  /\ WithChunk(chunk, p) \in Groups
           /\ WithChunk(chunk, p).chunks # <<>>
           /\ WithChunk(chunk, p).timeOutAfter =
                 IF chunk.group \in DOMAIN KeptGroups THEN KeptGroups[chunk.group].timeOutAfter
                 ELSE now + Timeout
<1> DEFINE group == IF chunk.group \in DOMAIN KeptGroups THEN KeptGroups[chunk.group]
                    ELSE [sender |-> p, timeOutAfter |-> now + Timeout,
                          chunks |-> <<>>, targetSize |-> 0]
           new == [group EXCEPT !.chunks = Append(@, chunk),
                                !.targetSize = IF chunk.isLast THEN chunk.index + 1 ELSE @]
<1>1. WithChunk(chunk, p) = new
  BY DEF WithChunk
<1>2. group \in Groups
  <2>1. now + Timeout \in Nat
    BY TransportAssumption
  <2>2. CASE chunk.group \in DOMAIN KeptGroups
    <3>1. KeptGroups[chunk.group] = groups[chunk.group] /\ chunk.group \in DOMAIN groups
      BY <2>2, CleanedUp
    <3> QED BY <2>2, <3>1 DEF CollectorOK
  <2>3. CASE chunk.group \notin DOMAIN KeptGroups
    BY <2>1, <2>3 DEF Groups
  <2> QED BY <2>2, <2>3
<1>3. group.timeOutAfter = IF chunk.group \in DOMAIN KeptGroups THEN KeptGroups[chunk.group].timeOutAfter
                           ELSE now + Timeout
  OBVIOUS
<1> HIDE DEF group
<1>4. Append(group.chunks, chunk) \in Seq(Chunks) /\ Append(group.chunks, chunk) # <<>>
  BY <1>2 DEF Groups
<1>5. (IF chunk.isLast THEN chunk.index + 1 ELSE group.targetSize) \in Nat
  BY <1>2, ChunkTypes DEF Groups
<1>6. new \in Groups /\ new.chunks = Append(group.chunks, chunk) /\ new.timeOutAfter = group.timeOutAfter
  BY <1>2, <1>4, <1>5 DEF Groups
<1> QED BY <1>1, <1>3, <1>4, <1>6

\* HandlePacket leaves no complete group, and none that should have been
\* cleaned up (PacketChunkCollector.cs:14-54).
LEMMA CollectorStep ==
    ASSUME TransportInv, NEW p \in Peers, NEW chunk \in Chunks, chunk.packet \in 1..Len(sent),
           HandlePacket(chunk, p), UNCHANGED <<sent, now>>
    PROVE  CollectorOK'
<1>1. CollectorOK /\ now \in 0..MaxTime /\ now \in Nat /\ MaxTime \in Nat /\ Timeout \in Nat
      /\ CleanupInterval \in Nat /\ now' = now /\ sent' = sent
  BY TransportAssumption DEF TransportInv, FrameOK
<1>2. DOMAIN arrivals' \subseteq 1..Len(sent)
  <2>1. PICK times : arrivals' = With(arrivals, chunk.packet, times)
    BY DEF HandlePacket, Arrive
  <2>2. DOMAIN arrivals' = {chunk.packet} \cup DOMAIN arrivals
    BY <2>1 DEF With
  <2> QED BY <1>1, <2>2 DEF CollectorOK
<1>3. CASE chunk.group = 0
  <2>1. UNCHANGED <<groups, nextCleanup>>
    BY <1>3 DEF HandlePacket
  <2> QED BY <1>1, <1>2, <2>1 DEF CollectorOK, StaleGroupsAreCleanedUp, Complete
<1>4. CASE chunk.group # 0
  <2>1. AddChunk(chunk, p)
    BY <1>4 DEF HandlePacket
  <2>2. nextCleanup' = IF now >= nextCleanup THEN now + CleanupInterval ELSE nextCleanup
    BY <2>1 DEF AddChunk
  <2>3. /\ nextCleanup' \in 0..(now + CleanupInterval)
        /\ DOMAIN KeptGroups \subseteq DOMAIN groups
        /\ \A id \in DOMAIN KeptGroups :
              KeptGroups[id] = groups[id] /\ groups[id].timeOutAfter >= nextCleanup' - CleanupInterval
        /\ now + Timeout >= nextCleanup' - CleanupInterval
    BY <1>1, <2>2, CleanedUp
  <2>4. chunk.group \in 1..Len(sent)
    BY <1>4, ChunkTypes
  <2>5. \A id \in DOMAIN KeptGroups :
           /\ KeptGroups[id] \in Groups /\ KeptGroups[id].chunks # <<>> /\ ~ Complete(KeptGroups[id])
           /\ KeptGroups[id].timeOutAfter <= MaxTime + Timeout
           /\ KeptGroups[id].timeOutAfter >= nextCleanup' - CleanupInterval
           /\ id \in 1..Len(sent)
    BY <1>1, <2>3 DEF CollectorOK
  <2> DEFINE new == WithChunk(chunk, p)
  <2>6. /\ new \in Groups /\ new.chunks # <<>>
        /\ new.timeOutAfter <= MaxTime + Timeout
        /\ new.timeOutAfter >= nextCleanup' - CleanupInterval
    <3>1. now + Timeout <= MaxTime + Timeout
      BY <1>1
    <3> QED BY <1>1, <2>3, <2>5, <3>1, ChunkAdded
  <2> HIDE DEF new
  <2>7. \A id \in DOMAIN groups' :
           \/ id \in DOMAIN KeptGroups /\ groups'[id] = KeptGroups[id]
           \/ id = chunk.group /\ groups'[id] = new /\ ~ Complete(new)
    <3>1. CASE Ignored(chunk, p)
      BY <2>1, <3>1 DEF AddChunk
    <3>2. CASE ~ Ignored(chunk, p) /\ Complete(new)
      <4>1. groups' = [id \in DOMAIN KeptGroups \ {chunk.group} |-> KeptGroups[id]]
        BY <2>1, <3>2 DEF AddChunk, new
      <4> QED BY <4>1
    <3>3. CASE ~ Ignored(chunk, p) /\ ~ Complete(new)
      <4>1. groups' = With(KeptGroups, chunk.group, new)
        BY <2>1, <3>3 DEF AddChunk, new
      <4>2. /\ DOMAIN groups' = {chunk.group} \cup DOMAIN KeptGroups
            /\ \A id \in DOMAIN groups' :
                  groups'[id] = IF id = chunk.group THEN new ELSE KeptGroups[id]
        BY <4>1 DEF With
      <4> QED BY <3>3, <4>2
    <3> QED BY <3>1, <3>2, <3>3
  <2>8. \A id \in DOMAIN groups' :
           /\ groups'[id] \in Groups /\ groups'[id].chunks # <<>> /\ ~ Complete(groups'[id])
           /\ groups'[id].timeOutAfter <= MaxTime + Timeout
           /\ groups'[id].timeOutAfter >= nextCleanup' - CleanupInterval
           /\ id \in 1..Len(sent)
    BY <2>4, <2>5, <2>6, <2>7
  <2> QED BY <1>1, <1>2, <2>3, <2>8 DEF CollectorOK, StaleGroupsAreCleanedUp, Complete
<1> QED BY <1>3, <1>4

----------------------------------------------------------------------------
(* What is received. *)

\* HandlePacket receives the packet of the chunk, or nothing.
LEMMA PacketsReceived ==
    ASSUME TransportInv, NEW p \in Peers, NEW chunk \in Chunks, HandlePacket(chunk, p)
    PROVE  \E packets \in Seq(Packets) :
              /\ Receive(packets)
              /\ \A i \in 1..Len(packets) : packets[i].packet = chunk.packet
              /\ packets = <<>> \/ \E r \in Packets : r.packet = chunk.packet /\ packets = <<r>>
<1>1. CASE chunk.group = 0
  <2> DEFINE packet == [packet |-> chunk.packet, sender |-> p, bytes |-> chunk.bytes]
  <2>1. packet \in Packets /\ packet.packet = chunk.packet
    BY ChunkTypes DEF Packets
  <2>2. Receive(<<packet>>)
    BY <1>1 DEF HandlePacket
  <2> HIDE DEF packet
  <2>3. <<packet>> \in Seq(Packets) /\ \A i \in 1..Len(<<packet>>) : <<packet>>[i] = packet
    BY <2>1
  <2> QED BY <2>1, <2>2, <2>3
<1>2. CASE chunk.group # 0
  <2> DEFINE new == WithChunk(chunk, p)
             packet == [packet |-> chunk.packet, sender |-> p, bytes |-> Restored(new)]
  <2>1. Receive(RestoredPackets(chunk, p))
    BY <1>2 DEF HandlePacket
  <2>2. new \in Groups
    BY ChunkAdded DEF TransportInv, FrameOK
  <2>3. packet \in Packets /\ packet.packet = chunk.packet
    <3>1. Restored(new) \in Payloads
      BY <2>2 DEF Payloads
    <3> QED BY <3>1, ChunkTypes DEF Packets
  <2>4. RestoredPackets(chunk, p) = <<packet>> \/ RestoredPackets(chunk, p) = <<>>
    BY DEF RestoredPackets
  <2> HIDE DEF new, packet
  <2>5. CASE RestoredPackets(chunk, p) = <<packet>>
    <3>1. <<packet>> \in Seq(Packets) /\ \A i \in 1..Len(<<packet>>) : <<packet>>[i] = packet
      BY <2>3
    <3> QED BY <2>1, <2>3, <2>5, <3>1
  <2>6. CASE RestoredPackets(chunk, p) = <<>>
    <3>1. <<>> \in Seq(Packets) /\ \A i \in 1..Len(<<>>) : <<>>[i].packet = chunk.packet
      OBVIOUS
    <3> QED BY <2>1, <2>6, <3>1
  <2> QED BY <2>4, <2>5, <2>6
<1> QED BY <1>1, <1>2

\* Packets of id k at the end of a queue.
LEMMA QueueGrows ==
    ASSUME NEW queue \in Seq(Packets), NEW packets \in Seq(Packets), NEW k,
           \A i \in 1..Len(packets) : packets[i].packet = k
    PROVE  /\ queue \o packets \in Seq(Packets)
           /\ \A i \in 1..Len(queue \o packets) :
                 \/ i \in 1..Len(queue) /\ (queue \o packets)[i] = queue[i]
                 \/ (queue \o packets)[i].packet = k
<1>1. /\ queue \o packets \in Seq(Packets)
      /\ Len(queue \o packets) = Len(queue) + Len(packets)
      /\ \A i \in 1..Len(queue) + Len(packets) :
            (queue \o packets)[i] = IF i <= Len(queue) THEN queue[i] ELSE packets[i - Len(queue)]
  BY ConcatProperties
<1>2. Len(queue) \in Nat /\ Len(packets) \in Nat
  OBVIOUS
<1> DEFINE all == queue \o packets
<1> HIDE DEF all
<1>3. ASSUME NEW i \in 1..Len(all)
      PROVE  (i \in 1..Len(queue) /\ all[i] = queue[i]) \/ all[i].packet = k
  <2>1. CASE i <= Len(queue)
    BY <1>1, <1>2, <2>1 DEF all
  <2>2. CASE ~ (i <= Len(queue))
    <3>1. i - Len(queue) \in 1..Len(packets)
      BY <1>1, <1>2, <2>2 DEF all
    <3> QED BY <1>1, <1>2, <2>2, <3>1 DEF all
  <2> QED BY <2>1, <2>2
<1> QED BY <1>1, <1>3 DEF all

\* A packet that is received when all that is still under way from its sender
\* comes after it, and all that was received before it.
LEMMA OrderStep ==
    ASSUME TransportInv, NEW k \in 1..Len(sent), NEW packets \in Seq(Packets),
           \A i \in 1..Len(packets) : packets[i].packet = k,
           Receive(packets), Polling, UNCHANGED <<sent, step>>,
           \A i \in 1..Len(packetQueue) : NotBefore(k, packetQueue[i].packet),
           \A i \in 1..Len(handled) : NotBefore(k, handled[i].packet),
           \A q \in Peers : \A j \in 1..Len(reliable'[q]) :
              /\ NotBefore(reliable'[q][j].packet, k)
              /\ \E m \in 1..Len(reliable[q]) : reliable'[q][j].packet = reliable[q][m].packet
              /\ \A i \in 1..j - 1 : reliable'[q][i].packet <= reliable'[q][j].packet
    PROVE  OrderOK'
<1>1. packetQueue \in Seq(Packets) /\ handled \in Seq(Packets)
  BY DEF TransportInv, OrderOK
<1>2. \A i \in 1..Len(packetQueue) : packetQueue[i].packet \in 1..Len(sent)
  BY DEF TransportInv, OrderOK
<1>3. \A i \in 1..Len(handled) : handled[i].packet \in 1..Len(sent)
  BY DEF TransportInv, OrderOK
<1>4. ASSUME NEW q \in Peers, NEW j \in 1..Len(reliable'[q])
      PROVE  /\ \A i \in 1..Len(packetQueue) : NotBefore(reliable'[q][j].packet, packetQueue[i].packet)
             /\ \A i \in 1..Len(handled) : NotBefore(reliable'[q][j].packet, handled[i].packet)
  BY DEF TransportInv, OrderOK
<1>5. \A a, b : NotBefore(a, b)' <=> NotBefore(a, b)
  BY DEF NotBefore
<1>6. CASE Side = "ShardServer" /\ step # "physics"
  <2>1. packetQueue' = packetQueue \o packets /\ handled' = handled
    BY <1>6 DEF Receive
  <2>2. /\ packetQueue' \in Seq(Packets)
        /\ \A i \in 1..Len(packetQueue') :
              \/ i \in 1..Len(packetQueue) /\ packetQueue'[i] = packetQueue[i]
              \/ packetQueue'[i].packet = k
    BY <1>1, <2>1, QueueGrows
  <2>3. \A i \in 1..Len(packetQueue') :
           /\ packetQueue'[i].packet \in 1..Len(sent)
           /\ \A q \in Peers : \A j \in 1..Len(reliable'[q]) :
                 NotBefore(reliable'[q][j].packet, packetQueue'[i].packet)
    BY <1>2, <1>4, <2>2
  <2>4. \A i \in 1..Len(packetQueue'), j \in 1..Len(handled) :
           NotBefore(packetQueue'[i].packet, handled[j].packet)
    BY <1>6, <2>2 DEF Polling, TransportInv, OrderOK
  <2>5. \A q \in Peers : \A j \in 1..Len(reliable'[q]) :
           /\ \A i \in 1..Len(packetQueue') : NotBefore(reliable[q][j].packet, packetQueue[i].packet)'
           /\ \A i \in 1..Len(handled') : NotBefore(reliable[q][j].packet, handled[i].packet)'
    BY <1>4, <2>1, <2>3 DEF NotBefore
  <2>6. \A i \in 1..Len(packetQueue'), j \in 1..Len(handled') :
           NotBefore(packetQueue[i].packet, handled[j].packet)'
    BY <2>1, <2>4 DEF NotBefore
  <2> QED BY <1>1, <1>3, <1>6, <2>1, <2>2, <2>3, <2>5, <2>6 DEF OrderOK
<1>7. CASE ~ (Side = "ShardServer" /\ step # "physics")
  <2>1. handled' = handled \o packets /\ packetQueue' = packetQueue
    BY <1>7 DEF Receive
  <2>2. /\ handled' \in Seq(Packets)
        /\ \A i \in 1..Len(handled') :
              \/ i \in 1..Len(handled) /\ handled'[i] = handled[i]
              \/ handled'[i].packet = k
    BY <1>1, <2>1, QueueGrows
  <2>3. \A i \in 1..Len(handled') :
           /\ handled'[i].packet \in 1..Len(sent)
           /\ \A q \in Peers : \A j \in 1..Len(reliable'[q]) :
                 NotBefore(reliable'[q][j].packet, handled'[i].packet)
    BY <1>3, <1>4, <2>2
  <2>4. step' \in {"between", "process"} => Len(packetQueue') = 0
    BY <1>7, <2>1 DEF Polling, TransportInv, OrderOK, FrameOK
  <2>5. \A q \in Peers : \A j \in 1..Len(reliable'[q]) :
           /\ \A i \in 1..Len(packetQueue') : NotBefore(reliable[q][j].packet, packetQueue[i].packet)'
           /\ \A i \in 1..Len(handled') : NotBefore(reliable[q][j].packet, handled[i].packet)'
    BY <1>4, <2>1, <2>3 DEF NotBefore
  <2>6. Side # "ShardServer" => packetQueue' = <<>>
    BY <2>1 DEF TransportInv, OrderOK
  <2> QED BY <1>1, <1>2, <2>1, <2>2, <2>3, <2>4, <2>5, <2>6 DEF OrderOK
<1> QED BY <1>6, <1>7

\* The first of what is under way on a reliable channel comes before the rest,
\* and after all that has been received.
LEMMA ReceiveReliableStep == ASSUME TransportInv, ReceiveReliable PROVE TransportInv'
<1> DEFINE p == reading
           chunk == Head(reliable[p])
<1>1. /\ p \in Peers /\ Polling /\ reliable[p] # <<>> /\ HandlePacket(chunk, p)
      /\ reliable' = [reliable EXCEPT ![p] = Tail(@)]
      /\ UNCHANGED <<sent, unreliable, connectionVars, frameVars, now>>
  BY DEF ReceiveReliable, TransportInv, FrameOK
<1>2. reliable[p] \in Seq(Chunks) /\ 1 \in 1..Len(reliable[p]) /\ chunk = reliable[p][1]
  BY <1>1 DEF TransportInv, NetworkOK
<1>3. /\ chunk \in Chunks /\ chunk.packet \in 1..Len(sent)
      /\ sent[chunk.packet].sender = p /\ sent[chunk.packet].isReliable
  BY <1>1, <1>2 DEF TransportInv, NetworkOK
<1> HIDE DEF p, chunk
<1>4. /\ reliable' \in [Peers -> Seq(Chunks)]
      /\ \A q \in Peers \ {p} : reliable'[q] = reliable[q]
      /\ Len(reliable'[p]) = Len(reliable[p]) - 1
      /\ \A j \in 1..Len(reliable'[p]) : reliable'[p][j] = reliable[p][j + 1]
  <2>1. /\ Tail(reliable[p]) \in Seq(Chunks)
        /\ Len(Tail(reliable[p])) = Len(reliable[p]) - 1
        /\ \A j \in 1..Len(Tail(reliable[p])) : Tail(reliable[p])[j] = reliable[p][j + 1]
    BY <1>1, <1>2, HeadTailProperties
  <2>2. reliable'[p] = Tail(reliable[p]) /\ \A q \in Peers \ {p} : reliable'[q] = reliable[q]
    BY <1>1 DEF TransportInv, NetworkOK
  <2>3. reliable' \in [Peers -> Seq(Chunks)]
    BY <1>1, <2>1 DEF TransportInv, NetworkOK
  <2> QED BY <2>1, <2>2, <2>3
<1>5. NetworkOK'
  <2>1. ASSUME NEW q \in Peers, NEW j \in 1..Len(reliable'[q])
        PROVE  \E m \in 1..Len(reliable[q]) : reliable'[q][j] = reliable[q][m]
    <3>1. CASE q = p
      <4>1. j + 1 \in 1..Len(reliable[p])
        BY <1>2, <1>4, <3>1
      <4> QED BY <1>4, <3>1, <4>1
    <3>2. CASE q # p
      BY <1>4, <3>2
    <3> QED BY <3>1, <3>2
  <2>2. \A q \in Peers : \A j \in 1..Len(reliable'[q]) :
           /\ reliable'[q][j].packet \in 1..Len(sent)
           /\ sent[reliable'[q][j].packet].sender = q
           /\ sent[reliable'[q][j].packet].isReliable
    <3>1. \A q \in Peers : \A m \in 1..Len(reliable[q]) :
             /\ reliable[q][m].packet \in 1..Len(sent)
             /\ sent[reliable[q][m].packet].sender = q
             /\ sent[reliable[q][m].packet].isReliable
      BY DEF TransportInv, NetworkOK
    <3> TAKE q \in Peers
    <3> TAKE j \in 1..Len(reliable'[q])
    <3>2. PICK m \in 1..Len(reliable[q]) : reliable'[q][j] = reliable[q][m]
      BY <2>1
    <3> QED BY <3>1, <3>2
  <2> QED BY <1>1, <1>4, <2>2 DEF TransportInv, NetworkOK
<1>6. CollectorOK'
  BY <1>1, <1>3, CollectorStep
<1>7. OrderOK'
  <2>1. PICK packets \in Seq(Packets) :
           Receive(packets) /\ \A i \in 1..Len(packets) : packets[i].packet = chunk.packet
    BY <1>1, <1>3, PacketsReceived
  <2>2. /\ \A i \in 1..Len(packetQueue) : NotBefore(chunk.packet, packetQueue[i].packet)
        /\ \A i \in 1..Len(handled) : NotBefore(chunk.packet, handled[i].packet)
    BY <1>1, <1>2 DEF TransportInv, OrderOK
  <2>3. ASSUME NEW q \in Peers, NEW j \in 1..Len(reliable'[q])
        PROVE  /\ NotBefore(reliable'[q][j].packet, chunk.packet)
               /\ \E m \in 1..Len(reliable[q]) : reliable'[q][j].packet = reliable[q][m].packet
               /\ \A i \in 1..j - 1 : reliable'[q][i].packet <= reliable'[q][j].packet
    <3>1. CASE q = p
      <4>1. j + 1 \in 1..Len(reliable[p]) /\ reliable'[p][j] = reliable[p][j + 1]
        BY <1>2, <1>4, <3>1
      <4>2. \A i \in 1..(j + 1) - 1 : reliable[p][i].packet <= reliable[p][j + 1].packet
        BY <1>1, <4>1 DEF TransportInv, OrderOK
      <4>3. chunk.packet <= reliable'[p][j].packet
        <5>1. 1 \in 1..(j + 1) - 1
          BY <3>1
        <5> QED BY <1>2, <4>1, <4>2, <5>1
      <4>4. \A i \in 1..j - 1 : reliable'[p][i].packet <= reliable'[p][j].packet
        <5>1. ASSUME NEW i \in 1..j - 1 PROVE reliable'[p][i].packet <= reliable'[p][j].packet
          <6>1. i \in 1..Len(reliable'[p]) /\ i + 1 \in 1..(j + 1) - 1
            BY <1>4, <3>1
          <6> QED BY <1>4, <4>1, <4>2, <6>1
        <5> QED BY <5>1
      <4> QED BY <3>1, <4>1, <4>3, <4>4 DEF NotBefore
    <3>2. CASE q # p
      <4>1. reliable'[q] = reliable[q]
        BY <1>4, <3>2
      <4>2. sent[reliable[q][j].packet].sender = q
        BY <4>1 DEF TransportInv, NetworkOK
      <4>3. \A i \in 1..j - 1 : reliable'[q][i].packet <= reliable'[q][j].packet
        BY <4>1 DEF TransportInv, OrderOK
      <4> QED BY <1>3, <3>2, <4>1, <4>2, <4>3 DEF NotBefore
    <3> QED BY <3>1, <3>2
  <2> QED BY <1>1, <1>3, <2>1, <2>2, <2>3, OrderStep DEF frameVars
<1>8. ConnectionsOK' /\ FrameOK'
  BY <1>1 DEF TransportInv, ConnectionsOK, AnnouncedIsPresent, FrameOK, connectionVars, frameVars
<1> QED BY <1>5, <1>6, <1>7, <1>8 DEF TransportInv

\* What comes on an unreliable channel has no order.
LEMMA ReceiveUnreliableStep == ASSUME TransportInv, ReceiveUnreliable PROVE TransportInv'
<1> DEFINE p == reading
<1>1. p \in Peers /\ Polling
  BY DEF ReceiveUnreliable, TransportInv, FrameOK
<1>2. PICK chunk \in unreliable[p] :
         HandlePacket(chunk, p) /\ unreliable' = [unreliable EXCEPT ![p] = @ \ {chunk}]
  BY DEF ReceiveUnreliable
<1>3. UNCHANGED <<sent, reliable, connectionVars, frameVars, now>>
  BY DEF ReceiveUnreliable
<1> HIDE DEF p
<1>4. chunk \in Chunks /\ chunk.packet \in 1..Len(sent) /\ ~ sent[chunk.packet].isReliable
  BY <1>1, <1>2 DEF TransportInv, NetworkOK
<1>5. NetworkOK'
  <2>1. unreliable' \in [Peers -> SUBSET Chunks] /\ \A q \in Peers : unreliable'[q] \subseteq unreliable[q]
    BY <1>1, <1>2 DEF TransportInv, NetworkOK
  <2> QED BY <1>3, <2>1 DEF TransportInv, NetworkOK
<1>6. CollectorOK'
  BY <1>1, <1>2, <1>3, <1>4, CollectorStep
<1>7. OrderOK'
  <2>1. PICK packets \in Seq(Packets) :
           Receive(packets) /\ \A i \in 1..Len(packets) : packets[i].packet = chunk.packet
    BY <1>1, <1>2, <1>4, PacketsReceived
  <2>2. \A a : NotBefore(chunk.packet, a) /\ NotBefore(a, chunk.packet)
    BY <1>4 DEF NotBefore
  <2>3. \A q \in Peers : \A j \in 1..Len(reliable'[q]) :
           /\ \E m \in 1..Len(reliable[q]) : reliable'[q][j].packet = reliable[q][m].packet
           /\ \A i \in 1..j - 1 : reliable'[q][i].packet <= reliable'[q][j].packet
    BY <1>3 DEF TransportInv, OrderOK
  <2> QED BY <1>1, <1>3, <1>4, <2>1, <2>2, <2>3, OrderStep DEF frameVars
<1>8. ConnectionsOK' /\ FrameOK'
  BY <1>3 DEF TransportInv, ConnectionsOK, AnnouncedIsPresent, FrameOK, connectionVars, frameVars
<1> QED BY <1>5, <1>6, <1>7, <1>8 DEF TransportInv

----------------------------------------------------------------------------
(* What is split, joined. *)

\* The earlier of two numbers.
Below == {ss \in Nat \X Nat : ss[1] < ss[2]}

LEMMA BelowIsWellFounded == IsWellFoundedOn(Below, Nat)
BY NatLessThanWellFounded DEF OpToRel, Below

\* A set of numbers has a least one.
LEMMA LeastOf ==
    ASSUME NEW S \in SUBSET Nat, S # {}
    PROVE  \E x \in S : \A y \in S : x <= y
<1>1. PICK x \in S : \A y \in S : ~ (<<y, x>> \in Below)
  BY BelowIsWellFounded, WFMin
<1>2. ASSUME NEW y \in S PROVE x <= y
  <2>1. x \in Nat /\ y \in Nat /\ <<y, x>> \in Nat \X Nat
    OBVIOUS
  <2>2. <<y, x>>[1] = y /\ <<y, x>>[2] = x
    OBVIOUS
  <2>3. y < x => <<y, x>> \in Below
    BY <2>1, <2>2 DEF Below
  <2> QED BY <1>1, <2>1, <2>3
<1> QED BY <1>2

LEMMA Multiples ==
    ASSUME NEW a \in Int, NEW b \in Int, NEW n \in Nat \ {0}, a < b
    PROVE  a * n + n <= b * n /\ a * n \in Int /\ b * n \in Int
<1>1. (b - a) * n = b * n - a * n /\ b - a >= 1
  OBVIOUS
<1>2. (b - a) * n >= n
  BY <1>1
<1> QED BY <1>1, <1>2

\* The number of bodies that a long packet takes: the last is not empty.
LEMMA NumberOfBodies ==
    ASSUME NEW length \in Nat, NEW n \in Nat \ {0}, length > n
    PROVE  LET count == (length + n - 1) \div n
           IN  count \in Nat \ {0} /\ (count - 1) * n < length /\ length <= count * n
<1> DEFINE t == length + n - 1
           q == t \div n
           r == t % n
<1>1. t \in Nat /\ q \in Int /\ r \in 0..n - 1 /\ t = n * q + r
  OBVIOUS
<1> HIDE DEF q, r
<1>2. q * n = t - r /\ (q - 1) * n = q * n - n
  BY <1>1
<1>3. q >= 1
  <2>1. q < 1 => q * n + n <= 1 * n
    BY <1>1, Multiples
  <2> QED BY <1>1, <1>2, <2>1
<1> QED BY <1>1, <1>2, <1>3 DEF q

\* The bytes of the first i bodies of n, and those of the i-th.
Upto(i, n, length) == IF i = n THEN length ELSE i * MaxBodySize
Body(i, n, length) == SubSeq(Bytes(length), (i - 1) * MaxBodySize + 1, Upto(i, n, length))

\* The chunks of a long packet: all bodies are full but the last.
SplitInOrder(s, id) == \A i \in 1..Len(s) : s[i].packet = id /\ s[i].index = i - 1

SplitToLast(s) == \A i \in 1..Len(s) : s[i].isLast <=> i = Len(s)

SplitInBodies(s, id, length) ==
    /\ \A i \in 1..Len(s) : s[i].group = id
    /\ (Len(s) - 1) * MaxBodySize < length /\ length <= Len(s) * MaxBodySize
    /\ \A i \in 1..Len(s) : s[i].bytes = Body(i, Len(s), length)

\* The indexes of the chunks of a packet lead up to the last one, and a packet
\* that is not too long is a single chunk (PacketChunker.cs:27-53).
LEMMA ChunksInOrder ==
    ASSUME NEW id \in Nat \ {0}, NEW length \in Lengths, NEW s, s = SplitIntoChunks(id, length)
    PROVE  /\ s \in Seq(Chunks) /\ Len(s) \in Nat \ {0}
           /\ SplitInOrder(s, id)
           /\ SplitToLast(s)
           /\ length <= MaxChunkSize =>
                 Len(s) = 1 /\ s[1].group = 0 /\ s[1].bytes = Bytes(length)
           /\ length > MaxChunkSize => SplitInBodies(s, id, length)
<1> DEFINE count == (length + MaxBodySize - 1) \div MaxBodySize
<1>1. s \in Seq(Chunks) /\ Len(s) \in Nat
  BY ChunksOfPacket
<1>2. length \in Nat \ {0} /\ MaxBodySize \in Nat \ {0} /\ MaxBodySize <= MaxChunkSize /\ MaxChunkSize \in Nat
  BY TransportAssumption DEF MaxBodySize
<1>3. CASE length <= MaxChunkSize
  <2> DEFINE chunk == [packet |-> id, group |-> 0, index |-> 0, isLast |-> TRUE,
                       bytes |-> Bytes(length)]
  <2>1. s = <<chunk>>
    BY <1>3 DEF SplitIntoChunks, Whole
  <2>2. chunk.packet = id /\ chunk.group = 0 /\ chunk.index = 0 /\ chunk.isLast = TRUE
        /\ chunk.bytes = Bytes(length)
    OBVIOUS
  <2> HIDE DEF chunk
  <2>3. Len(s) = 1 /\ s[1] = chunk
    BY <2>1
  <2>4. \A i \in 1..Len(s) : i = 1
    BY <2>3
  <2> QED BY <1>1, <1>2, <1>3, <2>2, <2>3, <2>4 DEF SplitInOrder, SplitToLast
<1>4. CASE ~ (length <= MaxChunkSize)
  <2> DEFINE chunk(i) == [packet |-> id, group |-> id, index |-> i - 1, isLast |-> i = count,
                          bytes |-> Body(i, count, length)]
  <2>1. s = [i \in 1..count |-> chunk(i)]
    BY <1>4 DEF SplitIntoChunks, Body, Upto
  <2>2. count \in Nat \ {0} /\ (count - 1) * MaxBodySize < length /\ length <= count * MaxBodySize
    BY <1>2, <1>4, NumberOfBodies
  <2>3. \A i : /\ chunk(i).packet = id /\ chunk(i).group = id /\ chunk(i).index = i - 1
               /\ chunk(i).isLast = (i = count) /\ chunk(i).bytes = Body(i, count, length)
    <3> HIDE DEF count
    <3> QED OBVIOUS
  <2> HIDE DEF chunk, count
  <2>4. Len(s) = count /\ \A i \in 1..count : s[i] = chunk(i)
    BY <2>1, <2>2
  <2>5. ASSUME NEW i \in 1..Len(s)
        PROVE  /\ s[i].packet = id /\ s[i].group = id /\ s[i].index = i - 1
               /\ s[i].isLast <=> i = Len(s)
               /\ s[i].bytes = Body(i, Len(s), length)
    <3>1. s[i] = chunk(i)
      BY <2>4
    <3>2. s[i].packet = id /\ s[i].group = id /\ s[i].index = i - 1
      BY <2>3, <3>1, Zenon
    <3>3. s[i].isLast <=> i = Len(s)
      <4>1. chunk(i).isLast = (i = count)
        BY <2>3, Zenon
      <4>2. s[i].isLast = (i = count)
        BY <3>1, <4>1, Zenon
      <4>3. count = Len(s)
        BY <2>4
      <4> QED BY <4>2, <4>3, Zenon
    <3>4. s[i].bytes = Body(i, Len(s), length)
      BY <2>3, <2>4, <3>1, Zenon
    <3> QED BY <3>2, <3>3, <3>4
  <2> QED BY <1>1, <1>4, <2>2, <2>4, <2>5 DEF SplitInOrder, SplitToLast, SplitInBodies
<1> QED BY <1>3, <1>4

\* The i-th chunk of a packet has index i - 1.
LEMMA IndexOfChunk ==
    ASSUME NEW id \in Nat \ {0}, NEW length \in Lengths, NEW s, s = SplitIntoChunks(id, length),
           NEW n, n = Len(s)
    PROVE  s \in Seq(Chunks) /\ n \in Nat \ {0} /\ \A i \in 1..n : s[i].index = i - 1
<1>1. s \in Seq(Chunks) /\ n \in Nat \ {0}
  BY ChunksInOrder
<1>2. ASSUME NEW i \in 1..n PROVE s[i].index = i - 1
  <2>1. i \in 1..Len(s)
    OBVIOUS
  <2>2. SplitInOrder(s, id)
    BY ChunksInOrder
  <2> QED BY <2>1, <2>2 DEF SplitInOrder
<1> QED BY <1>1, <1>2

\* No chunk of a packet is there twice.
LEMMA ChunksDiffer ==
    ASSUME NEW id \in Nat \ {0}, NEW length \in Lengths, NEW s, s = SplitIntoChunks(id, length),
           NEW i \in 1..Len(s), NEW j \in 1..Len(s), s[i] = s[j]
    PROVE  i = j
<1>1. Len(s) \in Nat /\ s[i].index = i - 1 /\ s[j].index = j - 1
  BY ChunksInOrder DEF SplitInOrder
<1> QED BY <1>1

\* A body follows on the bytes before it.
LEMMA BodyJoined ==
    ASSUME NEW length \in Nat, NEW a \in 0..length, NEW b \in a..length
    PROVE  /\ Bytes(a) \o SubSeq(Bytes(length), a + 1, b) = Bytes(b)
           /\ SubSeq(Bytes(length), a + 1, b) \in Seq(Nat)
<1> DEFINE body == SubSeq(Bytes(length), a + 1, b)
<1>1. \A k \in Nat : Bytes(k) \in Seq(Nat) /\ Len(Bytes(k)) = k /\ \A i \in 1..k : Bytes(k)[i] = i
  BY DEF Bytes
<1>2. body \in Seq(Nat) /\ Len(body) = b - a /\ \A i \in 1..b - a : body[i] = Bytes(length)[a + i]
  <2>1. Bytes(length) \in Seq(Nat) /\ Len(Bytes(length)) = length
    BY <1>1
  <2>2. a + 1 \in 1..length + 1 /\ b \in a..length
    OBVIOUS
  <2> HIDE DEF Bytes
  <2>3. CASE a = b
    <3>1. body = <<>>
      BY <2>1, <2>3
    <3> HIDE DEF body
    <3> QED BY <2>3, <3>1
  <2>4. CASE a < b
    <3>1. a + 1 \in 1..length /\ b \in 1..length /\ a + 1 <= b
      BY <2>4
    <3> QED BY <2>1, <2>4, <3>1
  <2> QED BY <2>3, <2>4
<1>3. \A i \in 1..b - a : body[i] = a + i
  <2>1. \A i \in 1..b - a : a + i \in 1..length
    OBVIOUS
  <2> QED BY <1>1, <1>2, <2>1
<1> HIDE DEF body
<1> DEFINE joined == Bytes(a) \o body
<1>4. joined \in Seq(Nat) /\ Len(joined) = b
      /\ \A i \in 1..b : joined[i] = IF i <= a THEN Bytes(a)[i] ELSE body[i - a]
  <2>1. Bytes(a) \in Seq(Nat) /\ Len(Bytes(a)) = a
    BY <1>1
  <2> QED BY <1>2, <2>1, ConcatProperties
<1> HIDE DEF joined
<1>5. ASSUME NEW i \in 1..b PROVE joined[i] = i
  <2>1. CASE i <= a
    <3>1. i \in 1..a /\ a \in Nat
      BY <2>1
    <3>2. Bytes(a)[i] = i
      BY <1>1, <3>1
    <3> QED BY <1>4, <2>1, <3>2
  <2>2. CASE i > a
    <3>1. i - a \in 1..b - a /\ a + (i - a) = i /\ ~ (i <= a)
      BY <2>2
    <3>2. body[i - a] = i
      BY <1>3, <3>1
    <3> QED BY <1>4, <3>1, <3>2
  <2> QED BY <2>1, <2>2
<1>6. joined = [i \in 1..b |-> i]
  BY <1>4, <1>5
<1> QED BY <1>2, <1>6 DEF Bytes, joined, body

\* FlattenSeq, as it goes from one sequence to the next.
Flattening(seqs, n, f) ==
    f = [i \in 1..n |-> IF i = 1 THEN seqs[i] ELSE f[i - 1] \o seqs[i]]

\* The bodies before the last one are full.
LEMMA UptoBounds ==
    ASSUME NEW length \in Nat \ {0}, NEW n \in Nat \ {0}, (n - 1) * MaxBodySize < length, NEW i \in 1..n
    PROVE  /\ Upto(i, n, length) \in 1..length
           /\ (i - 1) * MaxBodySize \in 0..Upto(i, n, length)
           /\ i > 1 => Upto(i - 1, n, length) = (i - 1) * MaxBodySize
<1>1. MaxBodySize \in Nat \ {0}
  BY TransportAssumption DEF MaxBodySize
<1>2. \A k \in Nat : k <= n - 1 => k * MaxBodySize <= (n - 1) * MaxBodySize
  BY <1>1, Multiples
<1>3. /\ (i - 1) * MaxBodySize + MaxBodySize = i * MaxBodySize
      /\ (i - 1) * MaxBodySize \in Nat /\ i * MaxBodySize \in Nat /\ (n - 1) * MaxBodySize \in Nat
  BY <1>1
<1>4. CASE i = n
  BY <1>1, <1>3, <1>4 DEF Upto
<1>5. CASE i # n
  <2>1. i * MaxBodySize <= (n - 1) * MaxBodySize
    BY <1>2, <1>5
  <2> QED BY <1>1, <1>3, <1>5, <2>1 DEF Upto
<1> QED BY <1>4, <1>5

\* The chunks of a packet, joined in order, are the packet, whatever its length
\* and the sizes of chunks are (PacketChunker.cs:27-53).
THEOREM ChunksJoined ==
    ASSUME NEW id \in Nat \ {0}, NEW length \in Lengths, NEW s, s = SplitIntoChunks(id, length),
           NEW bodies, bodies = [i \in 1..Len(s) |-> s[i].bytes]
    PROVE  FlattenSeq(bodies) = Bytes(length)
<1>1. /\ Len(s) \in Nat \ {0} /\ MaxBodySize \in Nat \ {0} /\ length \in Nat \ {0}
      /\ MaxChunkSize \in Nat
  BY ChunksInOrder, TransportAssumption DEF MaxBodySize
<1>2. PICK n \in Nat \ {0} : n = Len(s)
  BY <1>1
<1>3. Len(bodies) = n /\ bodies = [i \in 1..n |-> bodies[i]] /\ \A i \in 1..n : bodies[i] = s[i].bytes
  BY <1>2
<1> DEFINE flat == CHOOSE f : Flattening(bodies, n, f)
<1>4. FlattenSeq(bodies) = flat[n]
  BY <1>2, <1>3 DEF FlattenSeq, Flattening
<1>5. CASE length <= MaxChunkSize
  <2>1. n = 1 /\ bodies[1] = Bytes(length)
    <3>1. Len(s) = 1 /\ s[1].group = 0 /\ s[1].bytes = Bytes(length)
      BY <1>5, ChunksInOrder, Zenon
    <3> QED BY <1>2, <1>3, <3>1
  <2>2. Flattening(bodies, n, bodies)
    <3>1. \A i \in 1..n : i = 1
      BY <2>1
    <3> QED BY <1>3, <3>1 DEF Flattening
  <2>3. Flattening(bodies, n, flat)
    BY <2>2
  <2> HIDE DEF flat
  <2>4. flat[1] = bodies[1]
    BY <2>1, <2>3 DEF Flattening
  <2> QED BY <1>4, <2>1, <2>4
<1>6. CASE length > MaxChunkSize
  <2>1. /\ (n - 1) * MaxBodySize < length
        /\ \A i \in 1..n : bodies[i] = Body(i, n, length)
    BY <1>2, <1>3, <1>6, ChunksInOrder DEF SplitInBodies
  <2>2. \A i \in 1..n :
           /\ Upto(i, n, length) \in 1..length
           /\ (i - 1) * MaxBodySize \in 0..Upto(i, n, length)
           /\ i > 1 => Upto(i - 1, n, length) = (i - 1) * MaxBodySize
    BY <1>1, <2>1, UptoBounds
  <2>3. ASSUME NEW i \in 1..n
        PROVE  /\ Bytes((i - 1) * MaxBodySize) \o bodies[i] = Bytes(Upto(i, n, length))
               /\ bodies[i] \in Seq(Nat)
    <3>1. PICK b \in 1..length : b = Upto(i, n, length)
      BY <2>2
    <3>2. PICK a \in 0..b : a = (i - 1) * MaxBodySize
      BY <2>2, <3>1
    <3>3. a \in 0..length /\ b \in a..length
      BY <1>1, <3>1, <3>2
    <3>4. /\ Bytes(a) \o SubSeq(Bytes(length), a + 1, b) = Bytes(b)
          /\ SubSeq(Bytes(length), a + 1, b) \in Seq(Nat)
      BY <1>1, <3>3, BodyJoined
    <3> QED BY <2>1, <3>1, <3>2, <3>4 DEF Body
  <2>4. bodies[1] = Bytes(Upto(1, n, length))
    <3>1. (1 - 1) * MaxBodySize = 0 /\ 1 \in 1..n
      BY <1>1
    <3> HIDE DEF flat
    <3>2. /\ Bytes((1 - 1) * MaxBodySize) \o bodies[1] = Bytes(Upto(1, n, length))
          /\ bodies[1] \in Seq(Nat)
      BY <2>3, <3>1
    <3>3. Bytes(0) = <<>>
      BY DEF Bytes
    <3> QED BY <3>1, <3>2, <3>3, ConcatEmptySeq
  <2> DEFINE g == [i \in 1..n |-> Bytes(Upto(i, n, length))]
  <2>5. \A i \in 1..n : g[i] = IF i = 1 THEN bodies[i] ELSE g[i - 1] \o bodies[i]
    <3> SUFFICES ASSUME NEW i \in 1..n
                 PROVE  g[i] = IF i = 1 THEN bodies[i] ELSE g[i - 1] \o bodies[i]
      OBVIOUS
    <3>1. CASE i = 1
      BY <2>4, <3>1
    <3>2. CASE i # 1
      <4>1. i - 1 \in 1..n /\ i > 1
        BY <1>1, <3>2
      <4>2. g[i - 1] = Bytes((i - 1) * MaxBodySize)
        BY <2>2, <4>1
      <4>3. g[i] = Bytes(Upto(i, n, length))
        OBVIOUS
      <4> HIDE DEF g
      <4> QED BY <2>3, <3>2, <4>2, <4>3
    <3> QED BY <3>1, <3>2
  <2>6. g = [i \in 1..n |-> IF i = 1 THEN bodies[i] ELSE g[i - 1] \o bodies[i]]
    <3>1. g = [i \in 1..n |-> g[i]]
      OBVIOUS
    <3> HIDE DEF g
    <3> QED BY <2>5, <3>1
  <2>7. Flattening(bodies, n, flat)
    <3> HIDE DEF g
    <3> QED BY <2>6 DEF Flattening
  <2> HIDE DEF flat, g
  <2>8. \A i \in 1..n : flat[i] = IF i = 1 THEN bodies[i] ELSE flat[i - 1] \o bodies[i]
    <3>1. flat = [i \in 1..n |-> IF i = 1 THEN bodies[i] ELSE flat[i - 1] \o bodies[i]]
      BY <2>7 DEF Flattening
    <3> DEFINE next(i) == IF i = 1 THEN bodies[i] ELSE flat[i - 1] \o bodies[i]
    <3> HIDE DEF next
    <3>2. flat = [i \in 1..n |-> next(i)]
      BY <3>1 DEF next
    <3>3. \A i \in 1..n : flat[i] = next(i)
      BY <3>2
    <3> QED BY <3>3 DEF next
  <2> DEFINE Wrong == {i \in 1..n : flat[i] # g[i]}
  <2>9. Wrong = {}
    <3> SUFFICES ASSUME Wrong # {} PROVE FALSE
      OBVIOUS
    <3>1. Wrong \in SUBSET Nat
      OBVIOUS
    <3>2. PICK i \in Wrong : \A y \in Wrong : i <= y
      <4> HIDE DEF Wrong
      <4> QED BY <3>1, LeastOf
    <3>3. i \in 1..n /\ flat[i] # g[i]
      BY <3>2
    <3>4. i # 1
      BY <2>5, <2>8, <3>3
    <3>5. i - 1 \in 1..n /\ i - 1 \notin Wrong
      <4>1. i - 1 \in 1..n /\ ~ (i <= i - 1)
        BY <3>3, <3>4
      <4> HIDE DEF Wrong
      <4> QED BY <3>2, <4>1
    <3>6. flat[i - 1] = g[i - 1]
      BY <3>5
    <3> HIDE DEF Wrong
    <3>7. flat[i] = flat[i - 1] \o bodies[i]
      BY <2>8, <3>3, <3>4
    <3>8. g[i] = g[i - 1] \o bodies[i]
      BY <2>5, <3>3, <3>4
    <3> QED BY <3>3, <3>6, <3>7, <3>8
  <2>10. flat[n] = g[n]
    <3>1. n \in 1..n
      OBVIOUS
    <3> QED BY <2>9, <3>1
  <2>11. g[n] = Bytes(length)
    BY DEF g, Upto
  <2> QED BY <1>4, <2>10, <2>11
<1> QED BY <1>1, <1>5, <1>6

----------------------------------------------------------------------------
(* Chunks put in order. *)

\* As many chunks as the packet has, none of them twice, are all of them.
LEMMA Pigeonhole ==
    ASSUME NEW n \in Nat, NEW f \in [1..n -> 1..n],
           \A i, j \in 1..n : f[i] = f[j] => i = j
    PROVE  \A k \in 1..n : \E i \in 1..n : f[i] = k
<1>1. f \in Injection(1..n, 1..n)
  BY DEF Injection, IsInjective
<1>2. IsFiniteSet(1..n)
  BY FS_Interval
<1>3. f \in Surjection(1..n, 1..n)
  BY <1>1, <1>2, FS_Injection
<1> QED BY <1>3 DEF Surjection

\* What increases within 1..n goes up by one.
LEMMA Increasing ==
    ASSUME NEW n \in Nat, NEW f \in [1..n -> 1..n],
           \A i, j \in 1..n : i < j => f[i] < f[j]
    PROVE  \A i \in 1..n : f[i] = i
<1>1. \A i \in 1..n : f[i] >= i
  <2> DEFINE Wrong == {i \in 1..n : f[i] < i}
  <2> SUFFICES ASSUME Wrong # {} PROVE FALSE
    OBVIOUS
  <2>1. PICK i \in Wrong : \A y \in Wrong : i <= y
    <3>1. Wrong \in SUBSET Nat
      OBVIOUS
    <3> HIDE DEF Wrong
    <3> QED BY <3>1, LeastOf
  <2>2. i \in 1..n /\ f[i] < i /\ f[i] \in 1..n
    BY <2>1
  <2>3. f[i] \notin Wrong
    <3> HIDE DEF Wrong
    <3> QED BY <2>1, <2>2
  <2>4. f[f[i]] < f[i]
    BY <2>2
  <2> QED BY <2>2, <2>3, <2>4
<1>2. \A i \in 1..n : f[i] <= i
  <2> DEFINE Wrong == {m \in 0..n - 1 : f[n - m] > n - m}
  <2> SUFFICES ASSUME Wrong # {} PROVE FALSE
    <3> SUFFICES ASSUME NEW i \in 1..n, f[i] > i PROVE Wrong # {}
      OBVIOUS
    <3>1. n - i \in 0..n - 1 /\ n - (n - i) = i
      OBVIOUS
    <3>2. n - i \in Wrong
      BY <3>1
    <3> QED BY <3>2
  <2>1. PICK m \in Wrong : \A y \in Wrong : m <= y
    <3>1. Wrong \in SUBSET Nat
      OBVIOUS
    <3> HIDE DEF Wrong
    <3> QED BY <3>1, LeastOf
  <2>2. m \in 0..n - 1 /\ f[n - m] > n - m
    BY <2>1
  <2> DEFINE i == n - m
             k == f[i]
  <2>3. i \in 1..n /\ k \in 1..n /\ k > i
    BY <2>2
  <2>4. f[k] > k
    BY <2>3
  <2>5. n - k \in 0..n - 1 /\ n - (n - k) = k /\ n - k < m
    <3>1. i = n - m
      OBVIOUS
    <3> HIDE DEF k, i
    <3> QED BY <2>2, <2>3, <3>1
  <2>6. n - k \in Wrong
    BY <2>4, <2>5
  <2> HIDE DEF Wrong, i, k
  <2> QED BY <2>1, <2>2, <2>3, <2>5, <2>6
<1> QED BY <1>1, <1>2

\* Some of the chunks of a packet, in any order.
Distinct(chunks) == \A i, j \in 1..Len(chunks) : chunks[i] = chunks[j] => i = j

SomeOf(chunks, s) ==
    /\ \A i \in 1..Len(chunks) : chunks[i] \in ToSet(s)
    /\ Distinct(chunks)

\* All of them, each in its place.
AllOf(chunks, s) ==
    /\ \A i \in 1..Len(s) : chunks[i].index + 1 \in 1..Len(s) /\ chunks[i] = s[chunks[i].index + 1]
    /\ \A k \in 1..Len(s) : \E i \in 1..Len(s) : chunks[i] = s[k]

\* The chunks of a complete group.
LEMMA AllChunksThere ==
    ASSUME NEW id \in Nat \ {0}, NEW length \in Lengths, NEW s, s = SplitIntoChunks(id, length),
           NEW chunks \in Seq(Chunks), Len(chunks) = Len(s),
           SomeOf(chunks, s)
    PROVE  AllOf(chunks, s)
<1>1. s \in Seq(Chunks) /\ Len(s) \in Nat /\ \A i \in 1..Len(s) : s[i].index = i - 1
  BY IndexOfChunk
<1>2. PICK n \in Nat : n = Len(s)
  BY <1>1
<1>3. \A c \in ToSet(s) : \E k \in 1..n : c = s[k]
  BY <1>1, <1>2 DEF ToSet
<1>4. \A i \in 1..n : chunks[i].index + 1 \in 1..n /\ chunks[i] = s[chunks[i].index + 1]
  <2> SUFFICES ASSUME NEW i \in 1..n
               PROVE  chunks[i].index + 1 \in 1..n /\ chunks[i] = s[chunks[i].index + 1]
    OBVIOUS
  <2>1. PICK k \in 1..n : chunks[i] = s[k]
    BY <1>2, <1>3 DEF SomeOf
  <2>2. chunks[i].index = k - 1
    BY <1>1, <1>2, <2>1
  <2>3. chunks[i].index + 1 = k
    BY <2>2
  <2> QED BY <2>1, <2>3
<1> DEFINE f == [i \in 1..n |-> chunks[i].index + 1]
<1>5. f \in [1..n -> 1..n]
  BY <1>4
<1>6. ASSUME NEW i \in 1..n, NEW j \in 1..n, f[i] = f[j] PROVE i = j
  <2>1. f[i] = chunks[i].index + 1 /\ f[j] = chunks[j].index + 1
    OBVIOUS
  <2> HIDE DEF f
  <2>2. chunks[i] = chunks[j]
    BY <1>4, <1>6, <2>1
  <2> QED BY <1>2, <2>2 DEF SomeOf, Distinct
<1>7. \A k \in 1..n : \E i \in 1..n : f[i] = k
  <2> HIDE DEF f
  <2> QED BY <1>5, <1>6, Pigeonhole
<1>8. \A k \in 1..n : \E i \in 1..n : chunks[i] = s[k]
  <2> SUFFICES ASSUME NEW k \in 1..n PROVE \E i \in 1..n : chunks[i] = s[k]
    OBVIOUS
  <2>1. PICK i \in 1..n : f[i] = k
    BY <1>7
  <2>2. chunks[i].index + 1 = k
    BY <2>1
  <2> QED BY <1>4, <2>2
<1> QED BY <1>2, <1>4, <1>8 DEF AllOf

\* OrderBy puts the chunks of a complete group in the order in which the packet
\* was split.
LEMMA ChunksSorted ==
    ASSUME NEW id \in Nat \ {0}, NEW length \in Lengths, NEW s, s = SplitIntoChunks(id, length),
           NEW chunks \in Seq(Chunks), Len(chunks) = Len(s),
           SomeOf(chunks, s)
    PROVE  SortedByIndex(chunks) = s
<1>1. s \in Seq(Chunks) /\ Len(s) \in Nat
  BY ChunksInOrder
<1>2. PICK n \in Nat : n = Len(s) /\ DOMAIN chunks = 1..n
  BY <1>1
<1>3. /\ \A i \in 1..Len(s) : chunks[i].index + 1 \in 1..Len(s) /\ chunks[i] = s[chunks[i].index + 1]
      /\ \A k \in 1..Len(s) : \E i \in 1..Len(s) : chunks[i] = s[k]
  BY AllChunksThere DEF AllOf
<1>4. \A k \in 1..n : \E i \in 1..n : chunks[i] = s[k]
  BY <1>2, <1>3
<1>5. \A k \in 1..n : s[k].index = k - 1
  BY <1>2, IndexOfChunk
<1> DEFINE Before(a, b) == \/ chunks[a].index < chunks[b].index
                           \/ chunks[a].index = chunks[b].index /\ a < b
           Orders(p) == /\ p \in Bijection(1..n, 1..n)
                        /\ \A i, j \in 1..n : i < j => Before(p[i], p[j])
           order == CHOOSE p \in Bijection(1..n, 1..n) :
                       \A i, j \in 1..n : i < j => Before(p[i], p[j])
<1>6. SortedByIndex(chunks) = [i \in 1..n |-> chunks[order[i]]]
  BY <1>2 DEF SortedByIndex
<1>7. \E p : Orders(p)
  <2> DEFINE p == [k \in 1..n |-> CHOOSE i \in 1..n : chunks[i] = s[k]]
  <2>1. \A k \in 1..n : p[k] \in 1..n /\ chunks[p[k]] = s[k]
    BY <1>4
  <2>2. p \in [1..n -> 1..n]
    BY <2>1
  <2> HIDE DEF p
  <2>3. \A k, l \in 1..n : p[k] = p[l] => k = l
    <3> SUFFICES ASSUME NEW k \in 1..n, NEW l \in 1..n, p[k] = p[l] PROVE k = l
      OBVIOUS
    <3>1. s[k] = s[l]
      BY <2>1
    <3>2. s[k].index = k - 1 /\ s[l].index = l - 1
      BY <1>5
    <3> QED BY <3>1, <3>2
  <2>4. \A m \in 1..n : \E k \in 1..n : p[k] = m
    BY <2>2, <2>3, Pigeonhole
  <2>5. p \in Bijection(1..n, 1..n)
    BY <2>2, <2>3, <2>4 DEF Bijection, Injection, Surjection, IsInjective
  <2>6. \A i, j \in 1..n : i < j => Before(p[i], p[j])
    <3> SUFFICES ASSUME NEW i \in 1..n, NEW j \in 1..n, i < j
                 PROVE  chunks[p[i]].index < chunks[p[j]].index
      OBVIOUS
    <3>1. chunks[p[i]].index = i - 1 /\ chunks[p[j]].index = j - 1
      BY <1>5, <2>1
    <3> QED BY <3>1
  <2> HIDE DEF Before
  <2> QED BY <2>5, <2>6
<1>8. Orders(order)
  <2> HIDE DEF Before
  <2> QED BY <1>7
<1> HIDE DEF order
<1>9. order \in [1..n -> 1..n] /\ \A i, j \in 1..n : order[i] = order[j] => i = j
  BY <1>8 DEF Bijection, Injection, IsInjective
<1> DEFINE f == [i \in 1..n |-> chunks[order[i]].index + 1]
<1>10. f \in [1..n -> 1..n]
  BY <1>2, <1>3, <1>9
<1>11. ASSUME NEW i \in 1..n, NEW j \in 1..n, i < j PROVE f[i] < f[j]
  <2>1. order[i] \in 1..n /\ order[j] \in 1..n /\ order[i] # order[j]
    BY <1>9, <1>11
  <2>2. chunks[order[i]] # chunks[order[j]]
    BY <1>2, <2>1 DEF SomeOf, Distinct
  <2>3. chunks[order[i]].index # chunks[order[j]].index
    <3>1. chunks[order[i]] = s[chunks[order[i]].index + 1] /\ chunks[order[j]] = s[chunks[order[j]].index + 1]
      BY <1>2, <1>3, <2>1
    <3> DEFINE x == chunks[order[i]]
               y == chunks[order[j]]
    <3>2. x = s[x.index + 1] /\ y = s[y.index + 1] /\ x # y
      BY <2>2, <3>1, Zenon
    <3> HIDE DEF x, y
    <3>3. x.index # y.index
      BY <3>2, Zenon
    <3> QED BY <3>3 DEF x, y
  <2>4. chunks[order[i]].index < chunks[order[j]].index
    BY <1>8, <1>11, <2>3
  <2>5. chunks[order[i]].index + 1 \in 1..n /\ chunks[order[j]].index + 1 \in 1..n
        /\ chunks[order[i]].index \in Int /\ chunks[order[j]].index \in Int
    <3>1. chunks[order[i]] \in Chunks /\ chunks[order[j]] \in Chunks
      BY <1>2, <2>1
    <3>2. chunks[order[i]].index \in Nat /\ chunks[order[j]].index \in Nat
      BY <3>1, ChunkTypes, Zenon
    <3>3. chunks[order[i]].index + 1 \in 1..n /\ chunks[order[j]].index + 1 \in 1..n
      BY <1>2, <1>3, <2>1
    <3> QED BY <3>2, <3>3
  <2> QED BY <2>4, <2>5
<1>12. \A i \in 1..n : f[i] = i
  <2> HIDE DEF f
  <2> QED BY <1>10, <1>11, Increasing
<1>13. \A i \in 1..n : chunks[order[i]] = s[i]
  <2> SUFFICES ASSUME NEW i \in 1..n PROVE chunks[order[i]] = s[i]
    OBVIOUS
  <2>1. chunks[order[i]].index + 1 = i
    BY <1>12
  <2>2. order[i] \in 1..Len(s)
    BY <1>2, <1>9
  <2>3. chunks[order[i]] = s[chunks[order[i]].index + 1]
    BY <1>3, <2>2
  <2> QED BY <2>1, <2>3
<1>14. s = [i \in 1..n |-> s[i]]
  BY <1>1, <1>2
<1> QED BY <1>6, <1>13, <1>14

\* A complete group is restored to the packet (PacketChunkCollector.cs:32-39).
LEMMA GroupRestored ==
    ASSUME NEW id \in Nat \ {0}, NEW length \in Lengths, NEW s, s = SplitIntoChunks(id, length),
           NEW group \in Groups, Len(group.chunks) = Len(s),
           SomeOf(group.chunks, s)
    PROVE  Restored(group) = Bytes(length)
<1>1. group.chunks \in Seq(Chunks)
  BY DEF Groups
<1>2. SortedByIndex(group.chunks) = s
  BY <1>1, ChunksSorted
<1>3. DOMAIN s = 1..Len(s)
  BY ChunksInOrder
<1>4. Restored(group) = FlattenSeq([i \in 1..Len(s) |-> s[i].bytes])
  BY <1>2, <1>3 DEF Restored
<1> QED BY <1>4, ChunksJoined

----------------------------------------------------------------------------
(* What becomes of a packet. *)

Split(id, packet) == SplitIntoChunks(id, packet.length)

\* A group holds some chunks of a packet, none of which is still under way, and
\* knows how many there are from the last one.
GroupHolds(id, packet, group, underWay) ==
    /\ group.sender = packet.sender
    /\ packet.length > MaxChunkSize
    /\ SomeOf(group.chunks, Split(id, packet))
    /\ \A i \in 1..Len(group.chunks) : group.chunks[i] \notin underWay
    /\ group.targetSize \in {0, Len(Split(id, packet))}
    /\ group.targetSize = 0 =>
          \A i \in 1..Len(group.chunks) : group.chunks[i] # Split(id, packet)[Len(Split(id, packet))]

\* A group that has all that arrived was opened by the first.
GroupTimed(group, times) ==
    /\ Len(group.chunks) <= Len(times)
    /\ Len(group.chunks) = Len(times) => group.timeOutAfter = times[1] + Timeout

\* The last chunk came no later than the timeout after the first.
CameInTime(times) == times[Len(times)] - times[1] <= Timeout

Times(id) == IF id \in DOMAIN arrivals THEN arrivals[id] ELSE <<>>

UnderWay == UNION {ToSet(reliable[p]) \cup unreliable[p] : p \in Peers}

\* A packet that is received has nothing more to come, and one that is not has
\* all that arrived in its group, or is late.
PacketOK(id) ==
    /\ Times(id) \in Seq(Nat)
    /\ id \in DOMAIN groups =>
          GroupHolds(id, sent[id], groups[id], UnderWay) /\ GroupTimed(groups[id], Times(id))
    /\ IsReceived(id) =>
          /\ id \notin DOMAIN groups
          /\ \A c \in UnderWay : c.packet # id
          /\ Times(id) # <<>>
          /\ Len(Times(id)) = Len(Split(id, sent[id])) => CameInTime(Times(id))
    /\ ~ IsReceived(id) /\ Times(id) # <<>> =>
          /\ now <= Times(id)[1] + Timeout =>
                id \in DOMAIN groups /\ Len(groups[id].chunks) = Len(Times(id))
          /\ Len(Times(id)) = Len(Split(id, sent[id])) => ~ CameInTime(Times(id))

\* No chunk is under way twice, nor from another peer than its packet's sender.
ChannelsOK ==
    /\ \A p \in Peers : Distinct(reliable[p])
    /\ \A p \in Peers : \A c \in unreliable[p] : sent[c.packet].sender = p
    /\ \A c \in UnderWay : c \in ToSet(Split(c.packet, sent[c.packet]))

DeliveryInv ==
    /\ ChannelsOK
    /\ \A id \in 1..Len(sent) : PacketOK(id)
    /\ HandledAsSent

\* The chunks of a packet, and which of them is the last.
LEMMA ChunkOfSplit ==
    ASSUME NEW id \in Nat \ {0}, NEW packet \in SentPackets, NEW s, s = Split(id, packet),
           NEW chunk \in ToSet(s)
    PROVE  /\ Len(s) \in Nat \ {0} /\ s[Len(s)] \in ToSet(s)
           /\ chunk \in Chunks /\ chunk.packet = id /\ chunk.index + 1 \in 1..Len(s)
           /\ chunk.isLast <=> chunk = s[Len(s)]
           /\ chunk.isLast => chunk.index + 1 = Len(s)
           /\ chunk.group = 0 => packet.length <= MaxChunkSize
           /\ chunk.group # 0 => packet.length > MaxChunkSize
           /\ packet.length <= MaxChunkSize =>
                 Len(s) = 1 /\ chunk = s[1] /\ chunk.bytes = Bytes(packet.length)
<1> DEFINE length == packet.length
<1>1. length \in Lengths /\ length \in Int /\ MaxChunkSize \in Int
  <2>1. length \in Lengths
    BY DEF SentPackets
  <2> HIDE DEF length
  <2> QED BY <2>1, TransportAssumption
<1>2. s = SplitIntoChunks(id, length)
  BY DEF Split
<1> HIDE DEF length
<1>3. s \in Seq(Chunks) /\ Len(s) \in Nat \ {0} /\ length \in Lengths
  BY <1>1, <1>2, ChunksInOrder
<1>4. PICK i \in 1..Len(s) : chunk = s[i]
  BY <1>3 DEF ToSet
<1>5. s[i].packet = id /\ s[i].index = i - 1
  <2>1. SplitInOrder(s, id)
    BY <1>2, <1>3, ChunksInOrder
  <2> QED BY <2>1 DEF SplitInOrder
<1>6. s[i].isLast <=> i = Len(s)
  <2>1. SplitToLast(s)
    BY <1>2, <1>3, ChunksInOrder
  <2> QED BY <2>1, Zenon DEF SplitToLast
<1>7. s[Len(s)].index = Len(s) - 1
  <2>1. SplitInOrder(s, id)
    BY <1>2, <1>3, ChunksInOrder
  <2> QED BY <1>3, <2>1 DEF SplitInOrder
<1>8. chunk = s[Len(s)] <=> i = Len(s)
  BY <1>3, <1>4, <1>5, <1>7
<1>9. chunk.isLast <=> chunk = s[Len(s)]
  BY <1>4, <1>6, <1>8, Zenon
<1>10. chunk.isLast => chunk.index + 1 = Len(s)
  <2>1. chunk = s[Len(s)] => chunk.index + 1 = Len(s)
    BY <1>3, <1>7
  <2> QED BY <1>9, <2>1, Zenon
<1>11. length <= MaxChunkSize => Len(s) = 1 /\ s[1].group = 0 /\ s[1].bytes = Bytes(length)
  BY <1>2, <1>3, ChunksInOrder, Zenon
<1>12. length > MaxChunkSize => s[i].group = id
  <2>1. length > MaxChunkSize => SplitInBodies(s, id, length)
    BY <1>2, <1>3, ChunksInOrder, Zenon
  <2> QED BY <2>1 DEF SplitInBodies
<1>13. s[Len(s)] \in ToSet(s) /\ chunk \in Chunks /\ chunk.packet = id /\ chunk.index + 1 \in 1..Len(s)
  BY <1>3, <1>4, <1>5 DEF ToSet
<1>14. CASE length <= MaxChunkSize
  <2>0. Len(s) = 1
    BY <1>11, <1>14, Zenon
  <2>1. Len(s) = 1 /\ i = 1
    BY <2>0
  <2>2. chunk = s[1] /\ chunk.group = 0 /\ chunk.bytes = Bytes(length)
    BY <1>4, <1>11, <1>14, <2>1, Zenon
  <2>3. ~ (length > MaxChunkSize)
    BY <1>1, <1>14
  <2> QED BY <1>3, <1>9, <1>10, <1>13, <1>14, <2>1, <2>2, <2>3, Zenon DEF length
<1>15. CASE length > MaxChunkSize
  <2>1. chunk.group = id /\ id # 0 /\ ~ (length <= MaxChunkSize)
    BY <1>1, <1>4, <1>12, <1>15
  <2> QED BY <1>3, <1>9, <1>10, <1>13, <1>15, <2>1, Zenon DEF length
<1>16. length <= MaxChunkSize \/ length > MaxChunkSize
  BY <1>1
<1> QED BY <1>14, <1>15, <1>16, Zenon

\* A group takes a chunk that was under way.
LEMMA GroupGrows ==
    ASSUME NEW id \in Nat \ {0}, NEW packet \in SentPackets, NEW group \in Groups, NEW underWay,
           GroupHolds(id, packet, group, underWay),
           NEW chunk \in underWay, chunk \in ToSet(Split(id, packet)),
           NEW new, new.sender = group.sender, new.chunks = Append(group.chunks, chunk),
           new.targetSize = IF chunk.isLast THEN chunk.index + 1 ELSE group.targetSize
    PROVE  GroupHolds(id, packet, new, underWay \ {chunk})
<1> DEFINE s == Split(id, packet)
           old == group.chunks
           added == Append(old, chunk)
<1>1. old \in Seq(Chunks) /\ chunk \in Chunks
  BY ChunkOfSplit DEF Groups
<1>2. chunk \in ToSet(s) /\ SomeOf(old, s) /\ \A i \in 1..Len(old) : old[i] \notin underWay
  BY DEF GroupHolds
<1>3. Len(s) \in Nat \ {0} /\ (chunk.isLast <=> chunk = s[Len(s)])
      /\ (chunk.isLast => chunk.index + 1 = Len(s))
  <2> HIDE DEF s
  <2>1. s = Split(id, packet)
    BY DEF s
  <2> QED BY <1>2, <2>1, ChunkOfSplit, Zenon
<1>4. /\ group.targetSize \in {0, Len(s)}
      /\ group.targetSize = 0 => \A i \in 1..Len(old) : old[i] # s[Len(s)]
      /\ group.sender = packet.sender /\ packet.length > MaxChunkSize
  BY DEF GroupHolds
<1> HIDE DEF s, old, added
<1>5. /\ Len(added) = Len(old) + 1 /\ Len(old) \in Nat
      /\ \A i \in 1..Len(old) : added[i] = old[i]
      /\ added[Len(old) + 1] = chunk
  BY <1>1 DEF added
<1>6. \A i \in 1..Len(added) :
         \/ i \in 1..Len(old) /\ added[i] = old[i]
         \/ i = Len(old) + 1 /\ added[i] = chunk
  BY <1>5
<1>7. SomeOf(added, s)
  <2>1. \A i \in 1..Len(added) : added[i] \in ToSet(s)
    BY <1>2, <1>6 DEF SomeOf
  <2>2. ASSUME NEW i \in 1..Len(added), NEW j \in 1..Len(added), added[i] = added[j] PROVE i = j
    BY <1>2, <1>6, <2>2 DEF SomeOf, Distinct
  <2> QED BY <2>1, <2>2 DEF SomeOf, Distinct
<1>8. \A i \in 1..Len(added) : added[i] \notin underWay \ {chunk}
  BY <1>2, <1>6
<1>9. CASE chunk.isLast
  <2>1. new.targetSize = Len(s) /\ Len(s) # 0
    BY <1>3, <1>9
  <2> QED BY <1>4, <1>7, <1>8, <2>1 DEF GroupHolds, s, added, old
<1>10. CASE ~ chunk.isLast
  <2>1. new.targetSize = group.targetSize /\ chunk # s[Len(s)]
    BY <1>3, <1>10, Zenon
  <2>2. new.targetSize = 0 => \A i \in 1..Len(added) : added[i] # s[Len(s)]
    BY <1>4, <1>6, <2>1
  <2> QED BY <1>4, <1>7, <1>8, <2>1, <2>2 DEF GroupHolds, s, added, old
<1> QED BY <1>9, <1>10, Zenon

\* A group is complete when it holds all chunks, and not before: then nothing of
\* its packet is under way (Complete).
LEMMA CompleteGroup ==
    ASSUME NEW id \in Nat \ {0}, NEW packet \in SentPackets, NEW group \in Groups, NEW underWay,
           GroupHolds(id, packet, group, underWay), group.chunks # <<>>
    PROVE  /\ Complete(group) => /\ Len(group.chunks) = Len(Split(id, packet))
                                 /\ Restored(group) = Bytes(packet.length)
                                 /\ \A c \in ToSet(Split(id, packet)) : c \notin underWay
           /\ Len(group.chunks) = Len(Split(id, packet)) => Complete(group)
<1> DEFINE s == Split(id, packet)
           length == packet.length
           chunks == group.chunks
<1>1. length \in Lengths /\ chunks \in Seq(Chunks)
  BY DEF SentPackets, Groups
<1>2. s = SplitIntoChunks(id, length)
  BY DEF Split
<1>3. SomeOf(chunks, s) /\ chunks # <<>> /\ \A i \in 1..Len(chunks) : chunks[i] \notin underWay
  BY DEF GroupHolds
<1>4. /\ group.targetSize \in {0, Len(s)}
      /\ group.targetSize = 0 => \A i \in 1..Len(chunks) : chunks[i] # s[Len(s)]
  BY DEF GroupHolds
<1>5. Complete(group) <=> Len(chunks) = group.targetSize
  BY DEF Complete
<1> HIDE DEF s, length, chunks
<1>6. Len(chunks) # 0 /\ Len(chunks) \in Nat
  BY <1>1, <1>3
<1>7. s \in Seq(Chunks) /\ Len(s) \in Nat \ {0}
  BY <1>1, <1>2, ChunksInOrder
<1>8. ASSUME Len(chunks) = Len(s) PROVE \A k \in 1..Len(s) : \E i \in 1..Len(s) : chunks[i] = s[k]
  <2>1. AllOf(chunks, s)
    BY <1>1, <1>2, <1>3, <1>8, AllChunksThere
  <2> QED BY <2>1 DEF AllOf
<1>9. ASSUME Complete(group)
      PROVE  /\ Len(chunks) = Len(s)
             /\ Restored(group) = Bytes(length)
             /\ \A c \in ToSet(s) : c \notin underWay
  <2>1. Len(chunks) = Len(s)
    BY <1>4, <1>5, <1>6, <1>9
  <2>2. Restored(group) = Bytes(length)
    BY <1>1, <1>2, <1>3, <2>1, GroupRestored DEF chunks
  <2>3. ASSUME NEW c \in ToSet(s) PROVE c \notin underWay
    <3>1. PICK k \in 1..Len(s) : c = s[k]
      BY <1>7 DEF ToSet
    <3>2. PICK i \in 1..Len(s) : chunks[i] = s[k]
      BY <1>8, <2>1
    <3> QED BY <1>3, <2>1, <3>1, <3>2
  <2> QED BY <2>1, <2>2, <2>3
<1>10. ASSUME Len(chunks) = Len(s) PROVE Complete(group)
  <2>1. Len(s) \in 1..Len(s)
    BY <1>7
  <2>2. PICK i \in 1..Len(s) : chunks[i] = s[Len(s)]
    BY <1>8, <1>10, <2>1
  <2>3. group.targetSize # 0
    BY <1>4, <1>10, <2>2
  <2> QED BY <1>4, <1>5, <1>10, <2>3
<1> QED BY <1>9, <1>10 DEF s, length, chunks

\* At first nothing was sent.
LEMMA DeliveryInitially == Init => DeliveryInv
<1> SUFFICES ASSUME Init PROVE DeliveryInv
  OBVIOUS
<1>1. /\ \A p \in Peers : reliable[p] = <<>> /\ unreliable[p] = {}
      /\ sent = <<>> /\ handled = <<>> /\ packetQueue = <<>>
  BY DEF Init
<1>2. \A p \in Peers : Len(reliable[p]) = 0 /\ ToSet(reliable[p]) = {}
  BY <1>1 DEF ToSet
<1>3. ChannelsOK
  BY <1>1, <1>2 DEF ChannelsOK, UnderWay, Distinct
<1>4. Len(sent) = 0
  BY <1>1
<1>5. Received = <<>>
  BY <1>1 DEF Received
<1>6. HandledAsSent
  BY <1>5 DEF HandledAsSent
<1> QED BY <1>3, <1>4, <1>6 DEF DeliveryInv

\* What is received is a sequence of packets that were sent.
LEMMA ReceivedTypes ==
    ASSUME TransportInv
    PROVE  /\ packetQueue \in Seq(Packets) /\ handled \in Seq(Packets) /\ Received \in Seq(Packets)
           /\ Len(Received) = Len(handled) + Len(packetQueue)
           /\ \A i \in 1..Len(Received) :
                 Received[i] = IF i <= Len(handled) THEN handled[i] ELSE packetQueue[i - Len(handled)]
           /\ \A i \in 1..Len(Received) : Received[i].packet \in 1..Len(sent)
<1>1. packetQueue \in Seq(Packets) /\ handled \in Seq(Packets)
  BY DEF TransportInv, OrderOK
<1>2. /\ Received \in Seq(Packets)
      /\ Len(Received) = Len(handled) + Len(packetQueue)
      /\ \A i \in 1..Len(Received) :
            Received[i] = IF i <= Len(handled) THEN handled[i] ELSE packetQueue[i - Len(handled)]
  BY <1>1, ConcatProperties DEF Received
<1>3. ASSUME NEW i \in 1..Len(Received) PROVE Received[i].packet \in 1..Len(sent)
  <2>1. CASE i <= Len(handled)
    <3>1. i \in 1..Len(handled) /\ Received[i] = handled[i]
      BY <1>1, <1>2, <2>1
    <3> QED BY <3>1 DEF TransportInv, OrderOK
  <2>2. CASE ~ (i <= Len(handled))
    <3>1. i - Len(handled) \in 1..Len(packetQueue) /\ Received[i] = packetQueue[i - Len(handled)]
      BY <1>1, <1>2, <2>2
    <3> QED BY <3>1 DEF TransportInv, OrderOK
  <2> QED BY <2>1, <2>2
<1> QED BY <1>1, <1>2, <1>3

\* Packets are under way from those who sent them, on their kind of channel.
LEMMA UnderWayTypes ==
    ASSUME TransportInv, ChannelsOK, NEW c \in UnderWay
    PROVE  /\ c \in Chunks /\ c.packet \in 1..Len(sent)
           /\ c \in ToSet(Split(c.packet, sent[c.packet]))
           /\ \A p \in Peers : c \in ToSet(reliable[p]) =>
                 sent[c.packet].sender = p /\ sent[c.packet].isReliable
           /\ \A p \in Peers : c \in unreliable[p] =>
                 sent[c.packet].sender = p /\ ~ sent[c.packet].isReliable
<1>1. \A p \in Peers : reliable[p] \in Seq(Chunks) /\ unreliable[p] \subseteq Chunks
  BY DEF TransportInv, NetworkOK
<1>2. \A p \in Peers : c \in ToSet(reliable[p]) =>
         /\ c \in Chunks /\ c.packet \in 1..Len(sent)
         /\ sent[c.packet].sender = p /\ sent[c.packet].isReliable
  <2> SUFFICES ASSUME NEW p \in Peers, c \in ToSet(reliable[p])
               PROVE  /\ c \in Chunks /\ c.packet \in 1..Len(sent)
                      /\ sent[c.packet].sender = p /\ sent[c.packet].isReliable
    OBVIOUS
  <2>1. PICK i \in 1..Len(reliable[p]) : c = reliable[p][i]
    BY <1>1 DEF ToSet
  <2>2. c \in Chunks
    BY <1>1, <2>1
  <2> QED BY <2>1, <2>2 DEF TransportInv, NetworkOK
<1>3. \A p \in Peers : c \in unreliable[p] =>
         /\ c \in Chunks /\ c.packet \in 1..Len(sent)
         /\ sent[c.packet].sender = p /\ ~ sent[c.packet].isReliable
  BY <1>1 DEF TransportInv, NetworkOK, ChannelsOK
<1>4. PICK p \in Peers : c \in ToSet(reliable[p]) \/ c \in unreliable[p]
  BY DEF UnderWay
<1>5. c \in Chunks /\ c.packet \in 1..Len(sent)
  BY <1>2, <1>3, <1>4
<1>6. c \in ToSet(Split(c.packet, sent[c.packet]))
  BY DEF ChannelsOK
<1> QED BY <1>2, <1>3, <1>5, <1>6

\* Fewer chunks under way do not harm a group.
LEMMA LessUnderWay ==
    ASSUME NEW id, NEW packet, NEW group, NEW underWay, NEW less \in SUBSET underWay,
           GroupHolds(id, packet, group, underWay)
    PROVE  GroupHolds(id, packet, group, less)
BY DEF GroupHolds

\* A step in which nothing arrives; what is under way may be lost.
LEMMA QuietStep ==
    ASSUME TransportInv, DeliveryInv, UNCHANGED <<sent, groups, arrivals>>, Received' = Received,
           now' \in Nat, now <= now', UnderWay' \subseteq UnderWay, ChannelsOK'
    PROVE  DeliveryInv'
<1>1. HandledAsSent'
  BY DEF DeliveryInv, HandledAsSent
<1>2. ASSUME NEW id \in 1..Len(sent) PROVE PacketOK(id)'
  <2>1. PacketOK(id)
    BY DEF DeliveryInv
  <2>2. Times(id)' = Times(id) /\ (IsReceived(id)' <=> IsReceived(id))
    BY DEF Times, IsReceived
  <2>3. id \in DOMAIN groups => GroupHolds(id, sent[id], groups[id], UnderWay')
    BY <2>1, LessUnderWay DEF PacketOK
  <2>4. ~ IsReceived(id) /\ Times(id) # <<>> =>
          (now' <= Times(id)[1] + Timeout =>
                id \in DOMAIN groups /\ Len(groups[id].chunks) = Len(Times(id)))
    <3> SUFFICES ASSUME ~ IsReceived(id), Times(id) # <<>>, now' <= Times(id)[1] + Timeout
                 PROVE  now <= Times(id)[1] + Timeout
      BY <2>1 DEF PacketOK
    <3>1. Times(id) \in Seq(Nat)
      BY <2>1 DEF PacketOK
    <3>2. Times(id)[1] \in Nat /\ Timeout \in Nat /\ now \in Nat
      BY <3>1, TransportAssumption DEF TransportInv, FrameOK
    <3> QED BY <3>2
  <2>5. Times(id) \in Seq(Nat) /\ (id \in DOMAIN groups => GroupTimed(groups[id], Times(id)))
    BY <2>1 DEF PacketOK
  <2>6. IsReceived(id) =>
          /\ id \notin DOMAIN groups
          /\ \A c \in UnderWay' : c.packet # id
          /\ Times(id) # <<>>
          /\ Len(Times(id)) = Len(Split(id, sent[id])) => CameInTime(Times(id))
    BY <2>1 DEF PacketOK
  <2>7. ~ IsReceived(id) /\ Times(id) # <<>> =>
          (Len(Times(id)) = Len(Split(id, sent[id])) => ~ CameInTime(Times(id)))
    BY <2>1 DEF PacketOK
  <2> HIDE DEF UnderWay
  <2> QED BY <2>2, <2>3, <2>4, <2>5, <2>6, <2>7 DEF PacketOK
<1> QED BY <1>1, <1>2 DEF DeliveryInv

\* What was under way on closed channels is lost.
LEMMA ClosedChannelsDelivery ==
    ASSUME TransportInv, DeliveryInv, NEW p \in Peers, CloseChannels(p),
           UNCHANGED <<collectorVars, packetQueue, handled, now>>
    PROVE  DeliveryInv'
<1>1. sent' = sent /\ reliable' = [reliable EXCEPT ![p] = <<>>]
      /\ unreliable' = [unreliable EXCEPT ![p] = {}]
  BY DEF CloseChannels
<1>2. reliable \in [Peers -> Seq(Chunks)] /\ unreliable \in [Peers -> SUBSET Chunks] /\ now \in Nat
  BY DEF TransportInv, NetworkOK, FrameOK
<1>3. \A q \in Peers : reliable'[q] = reliable[q] \/ reliable'[q] = <<>>
  BY <1>1, <1>2
<1>4. \A q \in Peers : unreliable'[q] \subseteq unreliable[q]
  BY <1>1, <1>2
<1>5. \A q \in Peers : ToSet(reliable'[q]) \subseteq ToSet(reliable[q])
  BY <1>3 DEF ToSet
<1>6. UnderWay' \subseteq UnderWay
  BY <1>4, <1>5 DEF UnderWay
<1>7. ChannelsOK'
  <2>1. \A q \in Peers : Distinct(reliable'[q])
    BY <1>3 DEF DeliveryInv, ChannelsOK, Distinct
  <2>2. \A q \in Peers : \A c \in unreliable'[q] : sent[c.packet].sender = q
    BY <1>4 DEF DeliveryInv, ChannelsOK
  <2>3. \A c \in UnderWay' : c \in ToSet(Split(c.packet, sent[c.packet]))
    BY <1>6 DEF DeliveryInv, ChannelsOK
  <2> QED BY <1>1, <2>1, <2>2, <2>3 DEF ChannelsOK
<1>8. Received' = Received
  BY DEF Received
<1> QED BY <1>1, <1>2, <1>6, <1>7, <1>8, QuietStep DEF collectorVars

\* A step that leaves the network alone.
LEMMA NetworkKeptDelivery ==
    ASSUME TransportInv, DeliveryInv, UNCHANGED <<networkVars, collectorVars>>,
           Received' = Received, now' \in Nat, now <= now'
    PROVE  DeliveryInv'
<1>1. UnderWay' = UnderWay /\ ChannelsOK'
  BY DEF UnderWay, DeliveryInv, ChannelsOK, networkVars
<1> QED BY <1>1, QuietStep DEF networkVars, collectorVars

\* The queue is received already.
LEMMA HandleQueuedDelivery ==
    ASSUME TransportInv, DeliveryInv, HandleQueued
    PROVE  DeliveryInv'
<1>1. packetQueue \in Seq(Packets) /\ handled \in Seq(Packets) /\ now \in Nat
  BY DEF TransportInv, OrderOK, FrameOK
<1>2. handled \o packetQueue \in Seq(Packets)
  BY <1>1, ConcatProperties
<1>3. Received' = Received
  BY <1>2, ConcatEmptySeq DEF Received, HandleQueued
<1> QED BY <1>1, <1>3, NetworkKeptDelivery DEF HandleQueued

\* Time that passes makes packets late.
LEMMA PassTimeDelivery ==
    ASSUME TransportInv, DeliveryInv, PassTime
    PROVE  DeliveryInv'
<1>1. now \in Nat /\ now' = now + 1 /\ Received' = Received
  BY DEF PassTime, TransportInv, FrameOK, Received
<1> QED BY <1>1, NetworkKeptDelivery DEF PassTime

\* The elements of joined sequences.
LEMMA SetOfJoined ==
    ASSUME NEW S, NEW s \in Seq(S), NEW t \in Seq(S)
    PROVE  ToSet(s \o t) = ToSet(s) \cup ToSet(t)
<1>1. /\ s \o t \in Seq(S) /\ Len(s \o t) = Len(s) + Len(t)
      /\ \A i \in 1..Len(s) + Len(t) : (s \o t)[i] = IF i <= Len(s) THEN s[i] ELSE t[i - Len(s)]
  BY ConcatProperties
<1>2. Len(s) \in Nat /\ Len(t) \in Nat
  OBVIOUS
<1> DEFINE joined == s \o t
<1> HIDE DEF joined
<1>3. ASSUME NEW i \in 1..Len(s) PROVE s[i] = joined[i] /\ i \in 1..Len(joined)
  BY <1>1, <1>2 DEF joined
<1>4. ASSUME NEW i \in 1..Len(t) PROVE t[i] = joined[Len(s) + i] /\ Len(s) + i \in 1..Len(joined)
  <2>1. Len(s) + i \in 1..Len(s) + Len(t) /\ ~ (Len(s) + i <= Len(s)) /\ (Len(s) + i) - Len(s) = i
    BY <1>2
  <2> QED BY <1>1, <2>1 DEF joined
<1>5. ASSUME NEW i \in 1..Len(joined)
      PROVE  (i \in 1..Len(s) /\ joined[i] = s[i]) \/ (i - Len(s) \in 1..Len(t) /\ joined[i] = t[i - Len(s)])
  BY <1>1, <1>2 DEF joined
<1>6. DOMAIN joined = 1..Len(joined) /\ DOMAIN s = 1..Len(s) /\ DOMAIN t = 1..Len(t)
  BY <1>1 DEF joined
<1>7. \A x \in ToSet(joined) : x \in ToSet(s) \cup ToSet(t)
  BY <1>5, <1>6 DEF ToSet
<1>8. \A x \in ToSet(s) : x \in ToSet(joined)
  BY <1>3, <1>6 DEF ToSet
<1>9. \A x \in ToSet(t) : x \in ToSet(joined)
  BY <1>4, <1>6 DEF ToSet
<1> QED BY <1>7, <1>8, <1>9 DEF joined

\* Two sequences without duplicates that have nothing in common.
LEMMA DistinctJoined ==
    ASSUME NEW S, NEW s \in Seq(S), NEW t \in Seq(S), Distinct(s), Distinct(t),
           \A i \in 1..Len(s), j \in 1..Len(t) : s[i] # t[j]
    PROVE  Distinct(s \o t)
<1>1. /\ s \o t \in Seq(S) /\ Len(s \o t) = Len(s) + Len(t)
      /\ \A i \in 1..Len(s) + Len(t) : (s \o t)[i] = IF i <= Len(s) THEN s[i] ELSE t[i - Len(s)]
  BY ConcatProperties
<1>2. Len(s) \in Nat /\ Len(t) \in Nat
  OBVIOUS
<1> DEFINE joined == s \o t
<1> HIDE DEF joined
<1>3. ASSUME NEW i \in 1..Len(joined)
      PROVE  (i \in 1..Len(s) /\ joined[i] = s[i]) \/ (i - Len(s) \in 1..Len(t) /\ joined[i] = t[i - Len(s)])
  BY <1>1, <1>2 DEF joined
<1>4. ASSUME NEW i \in 1..Len(joined), NEW j \in 1..Len(joined), joined[i] = joined[j] PROVE i = j
  <2>1. CASE i \in 1..Len(s) /\ joined[i] = s[i] /\ j \in 1..Len(s) /\ joined[j] = s[j]
    BY <1>4, <2>1 DEF Distinct
  <2>2. CASE i - Len(s) \in 1..Len(t) /\ joined[i] = t[i - Len(s)] /\ j - Len(s) \in 1..Len(t)
             /\ joined[j] = t[j - Len(s)]
    <3>1. i - Len(s) = j - Len(s)
      BY <1>4, <2>2 DEF Distinct
    <3> QED BY <1>2, <3>1
  <2> QED BY <1>3, <1>4, <2>1, <2>2
<1> QED BY <1>4 DEF Distinct, joined

LEMMA ChunksDistinct ==
    ASSUME NEW id \in Nat \ {0}, NEW length \in Lengths, NEW s, s = SplitIntoChunks(id, length)
    PROVE  Distinct(s)
<1> SUFFICES ASSUME NEW i \in 1..Len(s), NEW j \in 1..Len(s), s[i] = s[j] PROVE i = j
  BY DEF Distinct
<1> QED BY ChunksDiffer

\* The chunks of a packet that is sent are new on its channel.
LEMMA SendDelivery ==
    ASSUME TransportInv, DeliveryInv, TransportInv',
           NEW p \in Peers, NEW length \in Lengths, NEW isReliable \in BOOLEAN,
           Send(p, length, isReliable)
    PROVE  DeliveryInv'
<1>0. PICK new \in Nat \ {0} : new = Len(sent) + 1
  BY DEF TransportInv, NetworkOK
<1> DEFINE packet == [sender |-> p, length |-> length, isReliable |-> isReliable]
           chunks == SplitIntoChunks(new, length)
<1>1. /\ sent' = Append(sent, packet) /\ packet \in SentPackets
      /\ UNCHANGED <<collectorVars, packetQueue, handled, now>>
  BY DEF Send, SentPackets
<1>2. packet.sender = p /\ packet.length = length
  OBVIOUS
<1>3. \/ /\ reliable' = [reliable EXCEPT ![p] = @ \o chunks] /\ unreliable' = unreliable
      \/ /\ unreliable' = [unreliable EXCEPT ![p] = @ \cup ToSet(chunks)] /\ reliable' = reliable
  BY <1>0 DEF Send
<1> HIDE DEF packet
<1>4. /\ Len(sent) \in Nat /\ Len(sent') = new /\ sent'[new] = packet /\ new \in Nat \ {0}
      /\ \A i \in 1..Len(sent) : sent'[i] = sent[i]
  <2>1. NetworkOK
    BY DEF TransportInv
  <2> QED BY <1>0, <1>1, <2>1, SentMore
<1>5. chunks \in Seq(Chunks) /\ chunks = Split(new, packet)
  BY <1>2, <1>4, ChunksInOrder DEF Split
<1>6. /\ \A c \in ToSet(chunks) : c.packet = new
      /\ Distinct(chunks)
  <2> HIDE DEF chunks
  <2>1. ASSUME NEW c \in ToSet(chunks) PROVE c.packet = new
    BY <1>1, <1>4, <1>5, ChunkOfSplit
  <2>2. chunks = SplitIntoChunks(new, length)
    BY DEF chunks
  <2>3. Distinct(chunks)
    BY <2>2, ChunksDistinct
  <2> QED BY <2>1, <2>3
<1> HIDE DEF chunks
<1>7. /\ reliable \in [Peers -> Seq(Chunks)] /\ unreliable \in [Peers -> SUBSET Chunks]
      /\ now \in Nat
  BY DEF TransportInv, NetworkOK, FrameOK
<1>8. UnderWay' = UnderWay \cup ToSet(chunks)
  <2>1. CASE reliable' = [reliable EXCEPT ![p] = @ \o chunks] /\ unreliable' = unreliable
    <3>1. reliable'[p] = reliable[p] \o chunks /\ \A q \in Peers \ {p} : reliable'[q] = reliable[q]
      BY <1>7, <2>1
    <3>2. ToSet(reliable[p] \o chunks) = ToSet(reliable[p]) \cup ToSet(chunks)
      BY <1>5, <1>7, SetOfJoined
    <3>3. \A q \in Peers : ToSet(reliable'[q]) \cup unreliable'[q] =
             IF q = p THEN ToSet(reliable[q]) \cup unreliable[q] \cup ToSet(chunks)
             ELSE ToSet(reliable[q]) \cup unreliable[q]
      BY <2>1, <3>1, <3>2
    <3> QED BY <3>3 DEF UnderWay
  <2>2. CASE unreliable' = [unreliable EXCEPT ![p] = @ \cup ToSet(chunks)] /\ reliable' = reliable
    <3>1. \A q \in Peers : unreliable'[q] =
             IF q = p THEN unreliable[q] \cup ToSet(chunks) ELSE unreliable[q]
      BY <1>7, <2>2
    <3>2. \A q \in Peers : ToSet(reliable'[q]) \cup unreliable'[q] =
             IF q = p THEN ToSet(reliable[q]) \cup unreliable[q] \cup ToSet(chunks)
             ELSE ToSet(reliable[q]) \cup unreliable[q]
      BY <2>2, <3>1
    <3> QED BY <3>2 DEF UnderWay
  <2> QED BY <1>3, <2>1, <2>2
<1>9. \A c \in UnderWay : c.packet \in 1..Len(sent) /\ c.packet # new
  <2>1. \A c \in UnderWay : c.packet \in 1..Len(sent)
    BY UnderWayTypes DEF DeliveryInv
  <2> QED BY <1>0, <1>4, <2>1
<1>10. ChannelsOK'
  <2>1. ASSUME NEW q \in Peers PROVE Distinct(reliable'[q])
    <3>1. Distinct(reliable[q])
      BY DEF DeliveryInv, ChannelsOK
    <3>2. CASE reliable'[q] = reliable[q]
      BY <3>1, <3>2
    <3>3. CASE q = p /\ reliable'[q] = reliable[q] \o chunks
      <4>1. \A i \in 1..Len(reliable[q]) : reliable[q][i].packet # new
        <5>1. \A i \in 1..Len(reliable[q]) : reliable[q][i] \in UnderWay
          BY <1>7 DEF UnderWay, ToSet
        <5> QED BY <1>9, <5>1
      <4>2. \A i \in 1..Len(chunks) : chunks[i].packet = new
        BY <1>5, <1>6 DEF ToSet
      <4>3. reliable[q] \in Seq(Chunks)
        BY <1>7
      <4>4. \A i \in 1..Len(reliable[q]), j \in 1..Len(chunks) : reliable[q][i] # chunks[j]
        BY <4>1, <4>2
      <4> QED BY <1>5, <1>6, <3>1, <3>3, <4>3, <4>4, DistinctJoined
    <3> QED BY <1>3, <1>7, <3>2, <3>3
  <2>2. ASSUME NEW q \in Peers, NEW c \in unreliable'[q] PROVE sent'[c.packet].sender = q
    <3>1. CASE c \in unreliable[q]
      <4>1. sent[c.packet].sender = q /\ c \in UnderWay
        BY <3>1 DEF DeliveryInv, ChannelsOK, UnderWay
      <4> QED BY <1>4, <1>9, <4>1
    <3>2. CASE q = p /\ c \in ToSet(chunks)
      BY <1>2, <1>4, <1>6, <3>2
    <3> QED BY <1>3, <1>7, <3>1, <3>2
  <2>3. ASSUME NEW c \in UnderWay' PROVE c \in ToSet(Split(c.packet, sent'[c.packet]))
    <3>1. CASE c \in UnderWay
      <4>1. c \in ToSet(Split(c.packet, sent[c.packet]))
        BY <3>1 DEF DeliveryInv, ChannelsOK
      <4> QED BY <1>4, <1>9, <3>1, <4>1
    <3>2. CASE c \in ToSet(chunks)
      BY <1>4, <1>5, <1>6, <3>2
    <3> QED BY <1>8, <3>1, <3>2
  <2> QED BY <2>1, <2>2, <2>3 DEF ChannelsOK
<1>11. Received' = Received /\ \A i \in 1..Len(Received) : Received[i].packet \in 1..Len(sent)
  BY <1>1, ReceivedTypes DEF Received
<1>12. HandledAsSent'
  <2>1. Received \in Seq(Packets)
    BY ReceivedTypes
  <2>2. DOMAIN Received = 1..Len(Received)
    BY <2>1
  <2>3. HandledAsSent
    BY DEF DeliveryInv
  <2> QED BY <1>4, <1>11, <2>2, <2>3 DEF HandledAsSent
<1>13. ASSUME NEW id \in 1..Len(sent) PROVE PacketOK(id)'
  <2>1. PacketOK(id)
    BY DEF DeliveryInv
  <2>2. /\ Times(id)' = Times(id) /\ (IsReceived(id)' <=> IsReceived(id)) /\ sent'[id] = sent[id]
        /\ groups' = groups /\ now' = now
    BY <1>1, <1>4, <1>11 DEF Times, IsReceived, collectorVars
  <2>3. ASSUME id \in DOMAIN groups PROVE GroupHolds(id, sent[id], groups[id], UnderWay')
    <3>1. GroupHolds(id, sent[id], groups[id], UnderWay)
      BY <2>1, <2>3 DEF PacketOK
    <3>2. \A i \in 1..Len(groups[id].chunks) : groups[id].chunks[i].packet = id
      <4> SUFFICES ASSUME NEW i \in 1..Len(groups[id].chunks) PROVE groups[id].chunks[i].packet = id
        OBVIOUS
      <4>1. groups[id].chunks[i] \in ToSet(Split(id, sent[id]))
        BY <3>1 DEF GroupHolds, SomeOf
      <4>2. id \in Nat \ {0} /\ sent[id] \in SentPackets
        BY <1>4 DEF TransportInv, NetworkOK
      <4>3. PICK s : s = Split(id, sent[id])
        OBVIOUS
      <4>4. groups[id].chunks[i] \in ToSet(s)
        BY <4>1, <4>3
      <4> QED BY <4>2, <4>3, <4>4, ChunkOfSplit
    <3>3. id # new
      BY <1>0, <1>4
    <3>4. \A i \in 1..Len(groups[id].chunks) : groups[id].chunks[i] \notin UnderWay'
      BY <1>6, <1>8, <3>1, <3>2, <3>3 DEF GroupHolds
    <3> HIDE DEF UnderWay
    <3> QED BY <3>1, <3>4 DEF GroupHolds
  <2>4. ASSUME IsReceived(id) PROVE \A c \in UnderWay' : c.packet # id
    <3>1. \A c \in UnderWay : c.packet # id
      BY <2>1, <2>4 DEF PacketOK
    <3>2. id # new
      BY <1>0, <1>4
    <3> QED BY <1>6, <1>8, <3>1, <3>2
  <2> HIDE DEF UnderWay
  <2> QED BY <2>1, <2>2, <2>3, <2>4 DEF PacketOK
<1>14. PacketOK(new)'
  <2>1. DOMAIN groups \subseteq 1..Len(sent) /\ DOMAIN arrivals \subseteq 1..Len(sent)
    BY DEF TransportInv, CollectorOK
  <2>2. new \notin 1..Len(sent)
    BY <1>0, <1>4
  <2>3. new \notin DOMAIN groups' /\ Times(new)' = <<>>
    BY <1>1, <2>1, <2>2 DEF Times, collectorVars
  <2>4. ~ IsReceived(new)'
    <3>1. DOMAIN Received = 1..Len(Received)
      BY ReceivedTypes
    <3> QED BY <1>11, <2>2, <3>1 DEF IsReceived
  <2> QED BY <2>3, <2>4 DEF PacketOK
<1>15. \A id \in 1..Len(sent') : id \in 1..Len(sent) \/ id = new
  BY <1>0, <1>4
<1> QED BY <1>10, <1>12, <1>13, <1>14, <1>15 DEF DeliveryInv

\* A sequence, and the same one with r somewhere in it.
WithOneMore(S, before, r, all) ==
    \E k \in 1..Len(before) + 1 :
        /\ all \in Seq(S) /\ Len(all) = Len(before) + 1 /\ all[k] = r /\ Len(before) \in Nat
        /\ \A i \in 1..k - 1 : all[i] = before[i]
        /\ \A i \in k + 1..Len(all) : all[i] = before[i - 1]

\* A packet in a queue, at its end or before another queue.
LEMMA Inserted ==
    ASSUME NEW S, NEW h \in Seq(S), NEW q \in Seq(S), NEW r \in S, NEW all,
           all = (h \o <<r>>) \o q \/ all = h \o (q \o <<r>>),
           NEW before, before = h \o q
    PROVE  WithOneMore(S, before, r, all)
<1>1. /\ before \in Seq(S) /\ Len(before) = Len(h) + Len(q)
      /\ \A i \in 1..Len(h) + Len(q) : before[i] = IF i <= Len(h) THEN h[i] ELSE q[i - Len(h)]
  BY ConcatProperties
<1>2. Len(h) \in Nat /\ Len(q) \in Nat
  OBVIOUS
<1> DEFINE one == <<r>>
<1>3. one \in Seq(S) /\ Len(one) = 1 /\ one[1] = r
  OBVIOUS
<1> HIDE DEF one
<1>4. CASE all = (h \o one) \o q
  <2> DEFINE ho == h \o one
  <2>0. /\ ho \in Seq(S) /\ Len(ho) = Len(h) + Len(one)
        /\ \A i \in 1..Len(h) + Len(one) : ho[i] = IF i <= Len(h) THEN h[i] ELSE one[i - Len(h)]
    BY <1>3, ConcatProperties
  <2> HIDE DEF ho
  <2>1. /\ ho \in Seq(S) /\ Len(ho) = Len(h) + 1
        /\ \A i \in 1..Len(h) + 1 : ho[i] = IF i <= Len(h) THEN h[i] ELSE one[i - Len(h)]
    BY <1>3, <2>0
  <2>2. /\ all \in Seq(S) /\ Len(all) = Len(h) + 1 + Len(q)
        /\ \A i \in 1..Len(h) + 1 + Len(q) : all[i] = IF i <= Len(h) + 1 THEN ho[i] ELSE q[i - (Len(h) + 1)]
    BY <1>4, <2>1, ConcatProperties DEF ho
  <2>3. PICK k \in 1..Len(before) + 1 : k = Len(h) + 1
    BY <1>1, <1>2
  <2>4. Len(all) = Len(before) + 1 /\ Len(before) \in Nat
    BY <1>1, <1>2, <2>2
  <2>5. all[k] = r
    <3>1. k \in 1..Len(h) + 1 + Len(q) /\ k <= Len(h) + 1 /\ ~ (k <= Len(h)) /\ k - Len(h) = 1
          /\ k \in 1..Len(h) + 1
      BY <1>2, <2>3
    <3>2. all[k] = ho[k]
      BY <2>2, <3>1
    <3>3. ho[k] = one[k - Len(h)]
      BY <2>1, <3>1
    <3> QED BY <1>3, <3>1, <3>2, <3>3
  <2>6. ASSUME NEW i \in 1..k - 1 PROVE all[i] = before[i]
    <3>1. i \in 1..Len(h) + Len(q) /\ i <= Len(h) /\ i <= Len(h) + 1 /\ i \in 1..Len(h) + 1
          /\ i \in 1..Len(h) + 1 + Len(q)
      BY <1>2, <2>3
    <3> QED BY <1>1, <2>1, <2>2, <3>1
  <2>7. ASSUME NEW i \in k + 1..Len(all) PROVE all[i] = before[i - 1]
    <3>1. /\ i - 1 \in 1..Len(h) + Len(q) /\ ~ (i - 1 <= Len(h)) /\ ~ (i <= Len(h) + 1)
          /\ i \in 1..Len(h) + 1 + Len(q) /\ i - (Len(h) + 1) = (i - 1) - Len(h)
      BY <1>2, <2>2, <2>3
    <3> QED BY <1>1, <2>2, <3>1
  <2> QED BY <2>2, <2>4, <2>5, <2>6, <2>7 DEF WithOneMore
<1>5. CASE all = h \o (q \o one)
  <2> DEFINE qo == q \o one
  <2>0. /\ qo \in Seq(S) /\ Len(qo) = Len(q) + Len(one)
        /\ \A i \in 1..Len(q) + Len(one) : qo[i] = IF i <= Len(q) THEN q[i] ELSE one[i - Len(q)]
    BY <1>3, ConcatProperties
  <2> HIDE DEF qo
  <2>1. /\ qo \in Seq(S) /\ Len(qo) = Len(q) + 1
        /\ \A i \in 1..Len(q) + 1 : qo[i] = IF i <= Len(q) THEN q[i] ELSE one[i - Len(q)]
    BY <1>3, <2>0
  <2>2. /\ all \in Seq(S) /\ Len(all) = Len(h) + (Len(q) + 1)
        /\ \A i \in 1..Len(h) + (Len(q) + 1) : all[i] = IF i <= Len(h) THEN h[i] ELSE qo[i - Len(h)]
    BY <1>5, <2>1, ConcatProperties DEF qo
  <2>3. PICK k \in 1..Len(before) + 1 : k = Len(before) + 1
    BY <1>1, <1>2
  <2>4. Len(all) = Len(before) + 1 /\ Len(before) \in Nat
    BY <1>1, <1>2, <2>2
  <2>5. all[k] = r
    <3>1. k \in 1..Len(h) + (Len(q) + 1) /\ ~ (k <= Len(h)) /\ k - Len(h) = Len(q) + 1
          /\ Len(q) + 1 \in 1..Len(q) + 1 /\ ~ (Len(q) + 1 <= Len(q)) /\ (Len(q) + 1) - Len(q) = 1
      BY <1>1, <1>2, <2>3
    <3>2. all[k] = qo[Len(q) + 1]
      BY <2>2, <3>1
    <3>3. qo[Len(q) + 1] = one[1]
      BY <2>1, <3>1
    <3> QED BY <1>3, <3>2, <3>3
  <2>6. ASSUME NEW i \in 1..k - 1 PROVE all[i] = before[i]
    <3>1. i \in 1..Len(h) + Len(q) /\ i \in 1..Len(h) + (Len(q) + 1)
      BY <1>1, <1>2, <2>3
    <3>2. CASE i <= Len(h)
      BY <1>1, <2>2, <3>1, <3>2
    <3>3. CASE ~ (i <= Len(h))
      <4>1. i - Len(h) \in 1..Len(q) + 1 /\ i - Len(h) <= Len(q)
        BY <1>2, <3>1, <3>3
      <4>2. qo[i - Len(h)] = q[i - Len(h)]
        BY <2>1, <4>1
      <4> QED BY <1>1, <2>2, <3>1, <3>3, <4>2
    <3> QED BY <3>2, <3>3
  <2>7. ASSUME NEW i \in k + 1..Len(all) PROVE all[i] = before[i - 1]
    BY <2>3, <2>4
  <2> QED BY <2>2, <2>4, <2>5, <2>6, <2>7 DEF WithOneMore
<1> QED BY <1>4, <1>5 DEF one

\* A packet is received where it comes in order.
LEMMA ReceivedMore ==
    ASSUME TransportInv, DeliveryInv, NEW r \in Packets, Receive(<<r>>), ~ IsReceived(r.packet),
           UNCHANGED sent,
           r.bytes = Bytes(sent[r.packet].length), r.sender = sent[r.packet].sender
    PROVE  /\ HandledAsSent'
           /\ \A id : IsReceived(id)' <=> IsReceived(id) \/ id = r.packet
<1>1. /\ handled \in Seq(Packets) /\ packetQueue \in Seq(Packets)
      /\ Received \in Seq(Packets) /\ Received = handled \o packetQueue
  BY ReceivedTypes DEF Received
<1>2. Received' = (handled \o <<r>>) \o packetQueue \/ Received' = handled \o (packetQueue \o <<r>>)
  BY DEF Receive, Received
<1>3. PICK k \in 1..Len(Received) + 1 :
         /\ Received' \in Seq(Packets) /\ Len(Received') = Len(Received) + 1 /\ Received'[k] = r
         /\ Len(Received) \in Nat
         /\ \A i \in 1..k - 1 : Received'[i] = Received[i]
         /\ \A i \in k + 1..Len(Received') : Received'[i] = Received[i - 1]
  <2>1. PICK all, before : all = Received' /\ before = Received
    OBVIOUS
  <2>2. /\ before = handled \o packetQueue
        /\ all = (handled \o <<r>>) \o packetQueue \/ all = handled \o (packetQueue \o <<r>>)
    BY <1>1, <1>2, <2>1
  <2>3. WithOneMore(Packets, before, r, all)
    BY <1>1, <2>2, Inserted
  <2> QED BY <2>1, <2>3 DEF WithOneMore
<1> DEFINE n == Len(Received)
           old == Received
           new == Received'
<1>4. DOMAIN old = 1..n /\ DOMAIN new = 1..n + 1 /\ n \in Nat
  BY <1>1, <1>3
<1>5. /\ \A i, j \in 1..n : old[i].packet = old[j].packet => i = j
      /\ \A i \in 1..n : old[i].bytes = Bytes(sent[old[i].packet].length)
                         /\ old[i].sender = sent[old[i].packet].sender
  BY <1>4 DEF DeliveryInv, HandledAsSent
<1>6. \A i \in 1..n : old[i].packet # r.packet
  BY <1>4 DEF IsReceived
<1>7. /\ new[k] = r
      /\ \A i \in 1..k - 1 : new[i] = old[i]
      /\ \A i \in k + 1..n + 1 : new[i] = old[i - 1]
  BY <1>3
<1>8. /\ HandledAsSent' <=>
            /\ \A i \in DOMAIN new : new[i].bytes = Bytes(sent'[new[i].packet].length)
                                     /\ new[i].sender = sent'[new[i].packet].sender
            /\ \A i, j \in DOMAIN new : new[i].packet = new[j].packet => i = j
      /\ \A id : IsReceived(id)' <=> \E i \in DOMAIN new : new[i].packet = id
      /\ \A id : IsReceived(id) <=> \E i \in DOMAIN old : old[i].packet = id
  BY DEF HandledAsSent, IsReceived
<1> HIDE DEF n, old, new
<1>9. \A i \in 1..n + 1 :
         \/ i = k /\ new[i] = r
         \/ i \in 1..k - 1 /\ i \in 1..n /\ new[i] = old[i]
         \/ i \in k + 1..n + 1 /\ i - 1 \in 1..n /\ new[i] = old[i - 1]
  <2>1. k \in 1..n + 1
    BY DEF n
  <2> QED BY <1>4, <1>7, <2>1
<1>10. ASSUME NEW i \in 1..n + 1
       PROVE  new[i].bytes = Bytes(sent'[new[i].packet].length)
              /\ new[i].sender = sent'[new[i].packet].sender
  BY <1>5, <1>9
<1>11. ASSUME NEW i \in 1..n + 1, NEW j \in 1..n + 1, new[i].packet = new[j].packet
       PROVE  i = j
  <2>1. k \in Int /\ i \in Int /\ j \in Int
    OBVIOUS
  <2>2. CASE i = k /\ new[i] = r
    <3>1. CASE j = k
      BY <2>2, <3>1
    <3>2. CASE j \in 1..n /\ new[j] = old[j]
      BY <1>6, <1>11, <2>2, <3>2
    <3>3. CASE j - 1 \in 1..n /\ new[j] = old[j - 1]
      BY <1>6, <1>11, <2>2, <3>3
    <3> QED BY <1>9, <3>1, <3>2, <3>3
  <2>3. CASE i \in 1..k - 1 /\ i \in 1..n /\ new[i] = old[i]
    <3>1. CASE j = k /\ new[j] = r
      BY <1>6, <1>11, <2>3, <3>1
    <3>2. CASE j \in 1..n /\ new[j] = old[j]
      BY <1>5, <1>11, <2>3, <3>2
    <3>3. CASE j \in k + 1..n + 1 /\ j - 1 \in 1..n /\ new[j] = old[j - 1]
      <4>1. i = j - 1
        BY <1>5, <1>11, <2>3, <3>3
      <4> QED BY <2>1, <2>3, <3>3, <4>1
    <3> QED BY <1>9, <3>1, <3>2, <3>3
  <2>4. CASE i \in k + 1..n + 1 /\ i - 1 \in 1..n /\ new[i] = old[i - 1]
    <3>1. CASE j = k /\ new[j] = r
      BY <1>6, <1>11, <2>4, <3>1
    <3>2. CASE j \in 1..k - 1 /\ j \in 1..n /\ new[j] = old[j]
      <4>1. i - 1 = j
        BY <1>5, <1>11, <2>4, <3>2
      <4> QED BY <2>1, <2>4, <3>2, <4>1
    <3>3. CASE j - 1 \in 1..n /\ new[j] = old[j - 1]
      <4>1. i - 1 = j - 1
        BY <1>5, <1>11, <2>4, <3>3
      <4> QED BY <2>1, <4>1
    <3> QED BY <1>9, <3>1, <3>2, <3>3
  <2> QED BY <1>9, <2>2, <2>3, <2>4
<1>12. ASSUME NEW id
       PROVE  IsReceived(id)' <=> IsReceived(id) \/ id = r.packet
  <2>1. ASSUME NEW i \in 1..n + 1, new[i].packet = id
        PROVE  (\E j \in 1..n : old[j].packet = id) \/ id = r.packet
    BY <1>9, <2>1
  <2>2. ASSUME NEW j \in 1..n, old[j].packet = id PROVE \E i \in 1..n + 1 : new[i].packet = id
    <3>1. CASE j < k
      <4>1. j \in 1..k - 1 /\ j \in 1..n + 1
        BY <1>4, <3>1
      <4> QED BY <1>7, <2>2, <4>1
    <3>2. CASE ~ (j < k)
      <4>1. j + 1 \in k + 1..n + 1 /\ j + 1 \in 1..n + 1 /\ (j + 1) - 1 = j
        BY <1>4, <3>2
      <4>2. new[j + 1] = old[j]
        BY <1>7, <4>1
      <4> QED BY <2>2, <4>1, <4>2
    <3> QED BY <3>1, <3>2
  <2>3. k \in 1..n + 1
    BY DEF n
  <2> QED BY <1>4, <1>7, <1>8, <2>1, <2>2, <2>3
<1> QED BY <1>4, <1>8, <1>10, <1>11, <1>12

\* Only the chunks of long packets have a group.
LEMMA ChunkOfLong ==
    ASSUME NEW id \in Nat \ {0}, NEW packet \in SentPackets, NEW chunk \in ToSet(Split(id, packet))
    PROVE  chunk.group # 0 => packet.length > MaxChunkSize
<1>1. PICK s : s = Split(id, packet)
  OBVIOUS
<1>2. chunk \in ToSet(s)
  BY <1>1
<1>3. chunk.group # 0 => packet.length > MaxChunkSize
  BY <1>1, <1>2, ChunkOfSplit
<1> QED BY <1>3

\* What is known of a packet one of whose chunks is under way.
LEMMA ChunkArrives ==
    ASSUME TransportInv, DeliveryInv, NEW chunk \in UnderWay, NEW id, id = chunk.packet
    PROVE  /\ id \in 1..Len(sent) /\ id \in Nat \ {0} /\ sent[id] \in SentPackets /\ PacketOK(id)
           /\ chunk \in Chunks /\ chunk \in ToSet(Split(id, sent[id])) /\ chunk.group \in {0, id}
           /\ ~ IsReceived(id) /\ Times(id) \in Seq(Nat) /\ now \in Nat /\ Timeout \in Nat
<1>1. chunk \in Chunks /\ id \in 1..Len(sent) /\ chunk \in ToSet(Split(id, sent[id]))
  BY UnderWayTypes DEF DeliveryInv
<1>2. sent[id] \in SentPackets /\ id \in Nat \ {0} /\ PacketOK(id)
  BY <1>1 DEF TransportInv, NetworkOK, DeliveryInv
<1>3. chunk.group \in {0, id}
  BY <1>1, ChunkTypes, Zenon
<1>4. ~ IsReceived(id) /\ Times(id) \in Seq(Nat)
  BY <1>2 DEF PacketOK
<1>5. now \in Nat /\ Timeout \in Nat
  BY TransportAssumption DEF TransportInv, FrameOK
<1> QED BY <1>1, <1>2, <1>3, <1>4, <1>5

\* When a chunk was ignored, it came late.
LEMMA IgnoredIsLate ==
    ASSUME TransportInv, DeliveryInv, NEW chunk \in UnderWay, NEW id, id = chunk.packet,
           chunk.group = id, Ignored(chunk, sent[id].sender)
    PROVE  Times(id) # <<>> /\ now > Times(id)[1] + Timeout /\ TimedOut(groups[id])
<1>1. /\ id \in Nat \ {0} /\ PacketOK(id) /\ ~ IsReceived(id)
      /\ Times(id) \in Seq(Nat) /\ now \in Nat /\ Timeout \in Nat
  BY ChunkArrives
<1>2. id \in DOMAIN groups /\ KeptGroups[id] = groups[id] /\ groups[id] \in Groups
      /\ groups[id].chunks # <<>>
  <2>1. CollectorOK /\ now \in Nat
    BY <1>1 DEF TransportInv
  <2>2. id \in DOMAIN KeptGroups
    BY DEF Ignored
  <2> QED BY <2>1, <2>2, CleanedUp DEF CollectorOK
<1>3. GroupHolds(id, sent[id], groups[id], UnderWay) /\ GroupTimed(groups[id], Times(id))
  BY <1>1, <1>2 DEF PacketOK
<1>4. TimedOut(groups[id])
  BY <1>2, <1>3 DEF Ignored, GroupHolds
<1>5. groups[id].chunks \in Seq(Chunks) /\ groups[id].timeOutAfter \in Nat
  BY <1>2 DEF Groups
<1>6. Times(id) # <<>>
  <2>1. Len(groups[id].chunks) # 0 /\ Len(groups[id].chunks) \in Nat
    BY <1>2, <1>5
  <2>2. Len(groups[id].chunks) <= Len(Times(id))
    BY <1>3 DEF GroupTimed
  <2>3. Len(Times(id)) # 0
    BY <1>1, <2>1, <2>2
  <2> QED BY <2>3
<1>7. Times(id)[1] \in Nat
  BY <1>1, <1>6
<1>8. ASSUME now <= Times(id)[1] + Timeout PROVE FALSE
  <2>1. Len(groups[id].chunks) = Len(Times(id))
    BY <1>1, <1>6, <1>8 DEF PacketOK
  <2>2. groups[id].timeOutAfter = Times(id)[1] + Timeout
    BY <1>3, <2>1 DEF GroupTimed
  <2> QED BY <1>1, <1>4, <1>7, <1>8, <2>2 DEF TimedOut
<1> QED BY <1>1, <1>4, <1>6, <1>7, <1>8

\* The group that takes a chunk: it has all that arrived, or the first to arrive
\* has been here for longer than the timeout.
LEMMA IntoGroup ==
    ASSUME TransportInv, DeliveryInv, NEW chunk \in UnderWay, NEW id, id = chunk.packet,
           chunk.group = id, ~ Ignored(chunk, sent[id].sender),
           NEW new, new = WithChunk(chunk, sent[id].sender), NEW times, times = Append(Times(id), now)
    PROVE  /\ new \in Groups /\ new.chunks # <<>>
           /\ GroupHolds(id, sent[id], new, UnderWay \ {chunk})
           /\ GroupTimed(new, times)
           /\ now <= new.timeOutAfter
           /\ now <= times[1] + Timeout => Len(new.chunks) = Len(times)
<1> DEFINE p == sent[id].sender
           group == IF chunk.group \in DOMAIN KeptGroups THEN KeptGroups[chunk.group]
                    ELSE [sender |-> p, timeOutAfter |-> now + Timeout,
                          chunks |-> <<>>, targetSize |-> 0]
           grown == [group EXCEPT !.chunks = Append(@, chunk),
                                  !.targetSize = IF chunk.isLast THEN chunk.index + 1 ELSE @]
<1>1. /\ id \in Nat \ {0} /\ sent[id] \in SentPackets /\ PacketOK(id)
      /\ chunk \in Chunks /\ chunk \in ToSet(Split(id, sent[id]))
      /\ ~ IsReceived(id) /\ Times(id) \in Seq(Nat) /\ now \in Nat /\ Timeout \in Nat
  BY ChunkArrives
<1>2. p \in Peers /\ CollectorOK /\ now \in 0..MaxTime
  BY <1>1 DEF SentPackets, TransportInv, FrameOK
<1>3. new = grown
  BY DEF WithChunk
<1>4. new \in Groups /\ new.chunks # <<>>
  BY <1>1, <1>2, ChunkAdded
<1>5. /\ times \in Seq(Nat) /\ Len(times) = Len(Times(id)) + 1 /\ Len(Times(id)) \in Nat
      /\ Times(id) = <<>> => times[1] = now
      /\ Times(id) # <<>> => times[1] = Times(id)[1] /\ Times(id)[1] \in Nat
  <2>1. CASE Times(id) = <<>>
    BY <1>1, <2>1
  <2>2. CASE Times(id) # <<>>
    BY <1>1, <2>2
  <2> QED BY <2>1, <2>2
<1>6. CASE id \in DOMAIN KeptGroups
  <2>1. id \in DOMAIN groups /\ KeptGroups[id] = groups[id]
    BY <1>1, <1>2, <1>6, CleanedUp
  <2>2. group = groups[id] /\ group \in Groups /\ group.chunks # <<>>
    BY <1>2, <1>6, <2>1 DEF CollectorOK
  <2>3. GroupHolds(id, sent[id], group, UnderWay) /\ GroupTimed(group, Times(id))
    BY <1>1, <2>1, <2>2 DEF PacketOK
  <2>4. ~ TimedOut(group)
    BY <1>6, <2>1, <2>2 DEF Ignored
  <2> HIDE DEF group, p
  <2>5. /\ new.sender = group.sender /\ new.chunks = Append(group.chunks, chunk)
        /\ new.targetSize = IF chunk.isLast THEN chunk.index + 1 ELSE group.targetSize
        /\ new.timeOutAfter = group.timeOutAfter
    BY <1>3, <2>2 DEF Groups
  <2> HIDE DEF grown
  <2>6. GroupHolds(id, sent[id], new, UnderWay \ {chunk})
    BY <1>1, <2>2, <2>3, <2>5, GroupGrows
  <2>7. Len(new.chunks) = Len(group.chunks) + 1 /\ Len(group.chunks) \in Nat
        /\ Len(group.chunks) # 0 /\ group.timeOutAfter \in Nat
    BY <2>2, <2>5 DEF Groups
  <2>8. Len(group.chunks) <= Len(Times(id)) /\ Times(id) # <<>>
    <3>1. Len(group.chunks) <= Len(Times(id))
      BY <2>3 DEF GroupTimed
    <3>2. Len(Times(id)) # 0
      BY <1>5, <2>7, <3>1
    <3> QED BY <3>1, <3>2
  <2>9. GroupTimed(new, times)
    <3>1. Len(group.chunks) = Len(Times(id)) => group.timeOutAfter = Times(id)[1] + Timeout
      BY <2>3 DEF GroupTimed
    <3> QED BY <1>5, <2>5, <2>7, <2>8, <3>1 DEF GroupTimed
  <2>10. now <= new.timeOutAfter
    BY <1>1, <2>4, <2>5, <2>7 DEF TimedOut
  <2>11. ASSUME now <= times[1] + Timeout PROVE Len(new.chunks) = Len(times)
    <3>1. now <= Times(id)[1] + Timeout
      BY <1>5, <2>8, <2>11
    <3>2. Len(groups[id].chunks) = Len(Times(id))
      BY <1>1, <2>8, <3>1 DEF PacketOK
    <3> QED BY <1>5, <2>2, <2>7, <3>2
  <2> QED BY <1>4, <2>6, <2>9, <2>10, <2>11
<1>7. CASE id \notin DOMAIN KeptGroups
  <2>1. group = [sender |-> p, timeOutAfter |-> now + Timeout, chunks |-> <<>>, targetSize |-> 0]
    BY <1>7
  <2>0. now + Timeout \in Nat /\ <<>> \in Seq(Chunks) /\ 0 \in Nat
    BY <1>1
  <2> HIDE DEF group, p
  <2>2. group.sender = p /\ group.timeOutAfter = now + Timeout /\ group.chunks = <<>>
        /\ group.targetSize = 0 /\ group \in Groups
    BY <1>2, <2>0, <2>1 DEF Groups
  <2>3. GroupHolds(id, sent[id], group, UnderWay)
    <3>1. sent[id].length > MaxChunkSize
      <4>1. chunk.group # 0
        BY <1>1
      <4> QED BY <1>1, <4>1, ChunkOfLong
    <3>2. SomeOf(<<>>, Split(id, sent[id]))
      BY DEF SomeOf, Distinct
    <3>3. Len(group.chunks) = 0
      BY <2>2
    <3> QED BY <2>2, <3>1, <3>2, <3>3 DEF GroupHolds, p
  <2>5. /\ new.sender = group.sender /\ new.chunks = Append(group.chunks, chunk)
        /\ new.targetSize = IF chunk.isLast THEN chunk.index + 1 ELSE group.targetSize
        /\ new.timeOutAfter = group.timeOutAfter
    BY <1>3, <2>2 DEF Groups
  <2> HIDE DEF grown
  <2>6. GroupHolds(id, sent[id], new, UnderWay \ {chunk})
    BY <1>1, <2>2, <2>3, <2>5, GroupGrows
  <2>7. Len(new.chunks) = 1
    BY <2>2, <2>5
  <2>8. GroupTimed(new, times)
    <3>1. Len(times) = 1 => Times(id) = <<>>
      BY <1>1, <1>5
    <3> QED BY <1>5, <2>2, <2>5, <2>7, <3>1 DEF GroupTimed
  <2>9. now <= new.timeOutAfter
    BY <1>1, <2>2, <2>5
  <2>10. ASSUME now <= times[1] + Timeout PROVE Len(new.chunks) = Len(times)
    <3>1. CASE Times(id) = <<>>
      BY <1>5, <2>7, <3>1
    <3>2. CASE Times(id) # <<>>
      <4>1. now <= Times(id)[1] + Timeout /\ Times(id)[1] \in Nat
        BY <1>5, <2>10, <3>2
      <4>2. id \in DOMAIN groups /\ Len(groups[id].chunks) = Len(Times(id))
        BY <1>1, <3>2, <4>1 DEF PacketOK
      <4>3. groups[id].timeOutAfter = Times(id)[1] + Timeout
        BY <1>1, <4>2 DEF PacketOK, GroupTimed
      <4>4. ~ TimedOut(groups[id])
        BY <1>1, <4>1, <4>3 DEF TimedOut
      <4> QED BY <1>7, <4>2, <4>4 DEF KeptGroups
    <3> QED BY <3>1, <3>2
  <2> QED BY <1>4, <2>6, <2>8, <2>9, <2>10
<1> QED BY <1>6, <1>7

\* A chunk of another packet: a cleanup takes the group only if the packet is
\* late already.
LEMMA OtherPackets ==
    ASSUME TransportInv, DeliveryInv, NEW id \in 1..Len(sent), UNCHANGED <<sent, now>>,
           Times(id)' = Times(id), IsReceived(id)' <=> IsReceived(id), UnderWay' \subseteq UnderWay,
           id \in DOMAIN groups' => id \in DOMAIN groups /\ groups'[id] = groups[id],
           id \in DOMAIN groups /\ ~ TimedOut(groups[id]) => id \in DOMAIN groups'
    PROVE  PacketOK(id)'
<1>1. PacketOK(id)
  BY DEF DeliveryInv
<1>2. ASSUME id \in DOMAIN groups'
      PROVE  GroupHolds(id, sent[id], groups'[id], UnderWay') /\ GroupTimed(groups'[id], Times(id))
  <2>1. GroupHolds(id, sent[id], groups[id], UnderWay) /\ GroupTimed(groups[id], Times(id))
    BY <1>1, <1>2 DEF PacketOK
  <2>2. groups'[id] = groups[id]
    BY <1>2
  <2> QED BY <2>1, <2>2, LessUnderWay
<1>3. ASSUME ~ IsReceived(id), Times(id) # <<>>, now <= Times(id)[1] + Timeout
      PROVE  id \in DOMAIN groups' /\ Len(groups'[id].chunks) = Len(Times(id))
  <2>1. id \in DOMAIN groups /\ Len(groups[id].chunks) = Len(Times(id))
    BY <1>1, <1>3 DEF PacketOK
  <2>2. groups[id].timeOutAfter = Times(id)[1] + Timeout
    BY <1>1, <2>1 DEF PacketOK, GroupTimed
  <2>3. Times(id)[1] \in Nat /\ Timeout \in Nat /\ now \in Nat
    BY <1>1, <1>3, TransportAssumption DEF PacketOK, TransportInv, FrameOK
  <2>4. ~ TimedOut(groups[id])
    BY <1>3, <2>2, <2>3 DEF TimedOut
  <2> QED BY <2>1, <2>4
<1>4. IsReceived(id) =>
        /\ id \notin DOMAIN groups'
        /\ \A c \in UnderWay' : c.packet # id
        /\ Times(id) # <<>>
        /\ Len(Times(id)) = Len(Split(id, sent[id])) => CameInTime(Times(id))
  BY <1>1 DEF PacketOK
<1>5. Times(id) \in Seq(Nat)
  BY <1>1 DEF PacketOK
<1>6. ~ IsReceived(id) /\ Times(id) # <<>> =>
        (Len(Times(id)) = Len(Split(id, sent[id])) => ~ CameInTime(Times(id)))
  BY <1>1 DEF PacketOK
<1> HIDE DEF UnderWay
<1> QED BY <1>2, <1>3, <1>4, <1>5, <1>6 DEF PacketOK

\* A chunk opens a group, or goes into one, or completes it; a cleanup takes only
\* groups that have timed out (AddChunk).
LEMMA GroupsAfter ==
    ASSUME TransportInv, NEW chunk, NEW p, AddChunk(chunk, p), NEW new, new = WithChunk(chunk, p),
           NEW id, id = chunk.group
    PROVE  /\ \A k : k # id =>
                 /\ k \in DOMAIN groups' => k \in DOMAIN groups /\ groups'[k] = groups[k]
                 /\ k \in DOMAIN groups /\ ~ TimedOut(groups[k]) => k \in DOMAIN groups'
           /\ Ignored(chunk, p) => id \in DOMAIN groups' /\ groups'[id] = groups[id]
           /\ ~ Ignored(chunk, p) /\ Complete(new) => id \notin DOMAIN groups'
           /\ ~ Ignored(chunk, p) /\ ~ Complete(new) => id \in DOMAIN groups' /\ groups'[id] = new
<1>1. /\ \A k \in DOMAIN KeptGroups : k \in DOMAIN groups /\ KeptGroups[k] = groups[k]
      /\ \A k \in DOMAIN groups : ~ TimedOut(groups[k]) => k \in DOMAIN KeptGroups
  <2>1. CASE now < nextCleanup
    BY <2>1 DEF KeptGroups
  <2>2. CASE ~ (now < nextCleanup)
    <3>1. KeptGroups = [k \in {g \in DOMAIN groups : ~ TimedOut(groups[g])} |-> groups[k]]
      BY <2>2 DEF KeptGroups
    <3> QED BY <3>1
  <2> QED BY <2>1, <2>2
<1>2. CASE Ignored(chunk, p)
  <2>1. groups' = KeptGroups /\ id \in DOMAIN KeptGroups
    BY <1>2 DEF AddChunk, Ignored
  <2> QED BY <1>1, <1>2, <2>1
<1>3. CASE ~ Ignored(chunk, p) /\ Complete(new)
  <2>1. groups' = [k \in DOMAIN KeptGroups \ {id} |-> KeptGroups[k]]
    BY <1>3 DEF AddChunk
  <2>2. DOMAIN groups' = DOMAIN KeptGroups \ {id} /\ \A k \in DOMAIN groups' : groups'[k] = KeptGroups[k]
    BY <2>1
  <2> QED BY <1>1, <1>3, <2>2
<1>4. CASE ~ Ignored(chunk, p) /\ ~ Complete(new)
  <2>1. groups' = With(KeptGroups, id, new)
    BY <1>4 DEF AddChunk
  <2>2. DOMAIN groups' = DOMAIN KeptGroups \cup {id} /\ groups'[id] = new
        /\ \A k \in DOMAIN KeptGroups : k # id => groups'[k] = KeptGroups[k]
    BY <2>1 DEF With
  <2> QED BY <1>1, <1>4, <2>2
<1> QED BY <1>2, <1>3, <1>4

\* A history of one more arrival.
LEMMA TimesAfter ==
    ASSUME NEW chunk, NEW id, id = chunk.packet, Arrive(chunk)
    PROVE  /\ Times(id)' = Append(Times(id), now)
           /\ \A k : k # id => Times(k)' = Times(k)
<1>1. arrivals' = With(arrivals, id, Append(Times(id), now))
  BY DEF Arrive, Times
<1>2. DOMAIN arrivals' = DOMAIN arrivals \cup {id} /\ arrivals'[id] = Append(Times(id), now)
      /\ \A k \in DOMAIN arrivals : k # id => arrivals'[k] = arrivals[k]
  BY <1>1 DEF With
<1>3. Times(id)' = Append(Times(id), now)
  BY <1>2 DEF Times
<1>4. ASSUME NEW k, k # id PROVE Times(k)' = Times(k)
  BY <1>2, <1>4 DEF Times
<1> QED BY <1>3, <1>4

\* A packet that is received has nothing more to come.
LEMMA NowReceived ==
    ASSUME NEW id, Times(id)' \in Seq(Nat), Times(id)' # <<>>, IsReceived(id)', id \notin DOMAIN groups',
           \A c \in UnderWay' : c.packet # id,
           Len(Times(id)') = Len(Split(id, sent'[id])) => CameInTime(Times(id)')
    PROVE  PacketOK(id)'
<1> HIDE DEF UnderWay, Times, IsReceived
<1> QED BY DEF PacketOK

LEMMA NotReceived ==
    ASSUME NEW id, Times(id)' \in Seq(Nat), ~ IsReceived(id)', id \in DOMAIN groups',
           GroupHolds(id, sent'[id], groups'[id], UnderWay'), GroupTimed(groups'[id], Times(id)'),
           now' <= Times(id)'[1] + Timeout => Len(groups'[id].chunks) = Len(Times(id)'),
           Len(Times(id)') = Len(Split(id, sent'[id])) => ~ CameInTime(Times(id)')
    PROVE  PacketOK(id)'
<1> HIDE DEF UnderWay, Times, IsReceived
<1> QED BY DEF PacketOK

\* A chunk without a group is a whole packet.
LEMMA WholeChunk ==
    ASSUME NEW id \in Nat \ {0}, NEW packet \in SentPackets, NEW s, s = Split(id, packet),
           NEW chunk \in ToSet(s), chunk.group = 0
    PROVE  /\ Len(s) = 1 /\ chunk = s[1] /\ chunk.bytes = Bytes(packet.length)
           /\ packet.length <= MaxChunkSize /\ Len(s) \in Nat \ {0}
<1>1. packet.length <= MaxChunkSize
  BY ChunkOfSplit, Zenon
<1>2. packet.length <= MaxChunkSize =>
         Len(s) = 1 /\ chunk = s[1] /\ chunk.bytes = Bytes(packet.length)
  BY ChunkOfSplit
<1>3. Len(s) \in Nat \ {0}
  BY <1>1, <1>2
<1> QED BY <1>1, <1>2, <1>3

LEMMA SplitDomain ==
    ASSUME NEW id \in Nat \ {0}, NEW packet \in SentPackets, NEW s, s = Split(id, packet)
    PROVE  DOMAIN s = 1..Len(s)
<1>1. packet.length \in Lengths
  BY DEF SentPackets
<1> DEFINE length == packet.length
<1>2. s = SplitIntoChunks(id, length)
  BY DEF Split
<1> HIDE DEF length
<1>3. s \in Seq(Chunks)
  BY <1>1, <1>2, ChunksInOrder DEF length
<1> QED BY <1>3

\* A chunk that is handled (HandlePacket): its packet is received when its group
\* is complete, and then in time and as it was sent.
LEMMA HandleDelivery ==
    ASSUME TransportInv, DeliveryInv, TransportInv', NEW chunk \in UnderWay, NEW id, id = chunk.packet,
           HandlePacket(chunk, sent[id].sender), UNCHANGED <<sent, now>>,
           UnderWay' = UnderWay \ {chunk}, ChannelsOK'
    PROVE  DeliveryInv'
<1>1. /\ id \in 1..Len(sent) /\ id \in Nat \ {0} /\ sent[id] \in SentPackets /\ PacketOK(id)
      /\ chunk \in Chunks /\ chunk \in ToSet(Split(id, sent[id])) /\ chunk.group \in {0, id}
      /\ ~ IsReceived(id) /\ Times(id) \in Seq(Nat) /\ now \in Nat /\ Timeout \in Nat
  BY ChunkArrives
<1>2. PICK packet, s, p, times :
         /\ packet = sent[id] /\ s = Split(id, packet) /\ p = packet.sender
         /\ times = Append(Times(id), now)
  OBVIOUS
<1>3. packet \in SentPackets /\ p \in Peers /\ packet.length \in Lengths /\ chunk \in ToSet(s)
      /\ HandlePacket(chunk, p)
  <2>1. packet \in SentPackets /\ chunk \in ToSet(s) /\ HandlePacket(chunk, p)
    BY <1>1, <1>2
  <2> QED BY <1>2, <2>1 DEF SentPackets
<1>4. Times(id)' = times /\ \A k : k # id => Times(k)' = Times(k)
  BY <1>2, <1>3, TimesAfter DEF HandlePacket
<1>5. /\ times \in Seq(Nat) /\ Len(times) = Len(Times(id)) + 1 /\ Len(Times(id)) \in Nat
      /\ times[Len(times)] = now /\ times # <<>>
      /\ Times(id) = <<>> => times[1] = now
      /\ Times(id) # <<>> => times[1] = Times(id)[1]
      /\ times[1] \in Nat
  <2>1. PICK old \in Seq(Nat) : old = Times(id)
    BY <1>1
  <2>2. times = Append(old, now)
    BY <1>2, <2>1
  <2>3. CASE old = <<>>
    BY <1>1, <2>1, <2>2, <2>3
  <2>4. CASE old # <<>>
    BY <1>1, <2>1, <2>2, <2>4
  <2> QED BY <2>3, <2>4
<1>6. CameInTime(times) <=> now <= times[1] + Timeout
  BY <1>1, <1>5 DEF CameInTime
<1>7. \A c \in UnderWay : c.packet = id => c \in ToSet(s)
  BY <1>2 DEF DeliveryInv, ChannelsOK
<1>8. sent' = sent /\ now' = now
  OBVIOUS
<1> HIDE DEF UnderWay
<1>9. CASE chunk.group = 0
  <2> DEFINE r == [packet |-> id, sender |-> p, bytes |-> chunk.bytes]
  <2>1. Receive(<<r>>) /\ UNCHANGED <<groups, nextCleanup>>
    BY <1>3, <1>9 DEF HandlePacket
  <2>2. Len(s) = 1 /\ chunk = s[1] /\ chunk.bytes = Bytes(packet.length) /\ packet.length <= MaxChunkSize
        /\ Len(s) \in Nat \ {0}
    BY <1>1, <1>2, <1>3, <1>9, WholeChunk
  <2>3. r \in Packets /\ r.packet = id /\ r.sender = p /\ r.bytes = Bytes(packet.length)
    <3>1. chunk.bytes \in Payloads
      BY <1>1, ChunkTypes, Zenon
    <3> QED BY <1>1, <1>3, <2>2, <3>1 DEF Packets
  <2> HIDE DEF r
  <2>4. HandledAsSent' /\ \A k : IsReceived(k)' <=> IsReceived(k) \/ k = id
    BY <1>1, <1>2, <2>1, <2>3, ReceivedMore
  <2>5. id \notin DOMAIN groups
    <3>1. ~ (packet.length > MaxChunkSize)
      <4>1. PICK length \in Lengths : length = packet.length
        BY <1>3
      <4>2. Lengths \subseteq Nat /\ MaxChunkSize \in Nat
        BY TransportAssumption
      <4>3. length \in Int /\ length <= MaxChunkSize
        BY <2>2, <4>1, <4>2
      <4>4. ~ (length > MaxChunkSize)
        BY <4>2, <4>3
      <4> QED BY <4>1, <4>4
    <3> QED BY <1>1, <1>2, <3>1 DEF PacketOK, GroupHolds
  <2>6. PacketOK(id)'
    <3>1. \A c \in UnderWay' : c.packet # id
      <4>1. \A c \in ToSet(s) : c = chunk
        <5>1. DOMAIN s = 1..Len(s)
          BY <1>1, <1>2, <1>3, SplitDomain
        <5> QED BY <2>2, <5>1 DEF ToSet
      <4> QED BY <1>7, <4>1
    <3>2. Len(times) = Len(s) => CameInTime(times)
      <4>1. Len(times) = 1 => times[1] = now
        BY <1>5
      <4> QED BY <1>1, <1>6, <2>2, <4>1
    <3>3. IsReceived(id)' /\ id \notin DOMAIN groups'
      BY <2>1, <2>4, <2>5
    <3> HIDE DEF Times, IsReceived
    <3> QED BY <1>2, <1>4, <1>5, <1>8, <3>1, <3>2, <3>3, NowReceived
  <2>7. ASSUME NEW k \in 1..Len(sent), k # id PROVE PacketOK(k)'
    <3>1. /\ Times(k)' = Times(k) /\ (IsReceived(k)' <=> IsReceived(k)) /\ UnderWay' \subseteq UnderWay
          /\ groups' = groups
      BY <1>4, <2>1, <2>4, <2>7
    <3> QED BY <1>8, <3>1, OtherPackets
  <2> QED BY <1>8, <2>4, <2>6, <2>7 DEF DeliveryInv
<1>10. CASE chunk.group = id
  <2>0. chunk.group # 0
    BY <1>1, <1>10
  <2> DEFINE r == [packet |-> id, sender |-> p, bytes |-> Restored(WithChunk(chunk, p))]
  <2>1. AddChunk(chunk, p) /\ Receive(RestoredPackets(chunk, p))
    BY <1>3, <2>0 DEF HandlePacket
  <2>2. PICK new : new = WithChunk(chunk, p)
    OBVIOUS
  <2>3. RestoredPackets(chunk, p) = IF ~ Ignored(chunk, p) /\ Complete(new) THEN <<r>> ELSE <<>>
    BY <2>2 DEF RestoredPackets
  <2>4. /\ \A k : k # id =>
                 /\ k \in DOMAIN groups' => k \in DOMAIN groups /\ groups'[k] = groups[k]
                 /\ k \in DOMAIN groups /\ ~ TimedOut(groups[k]) => k \in DOMAIN groups'
        /\ Ignored(chunk, p) => id \in DOMAIN groups' /\ groups'[id] = groups[id]
        /\ ~ Ignored(chunk, p) /\ Complete(new) => id \notin DOMAIN groups'
        /\ ~ Ignored(chunk, p) /\ ~ Complete(new) => id \in DOMAIN groups' /\ groups'[id] = new
    BY <1>10, <2>1, <2>2, GroupsAfter
  <2>5. ASSUME NEW k \in 1..Len(sent), k # id, IsReceived(k)' <=> IsReceived(k) PROVE PacketOK(k)'
    <3>1. Times(k)' = Times(k) /\ UnderWay' \subseteq UnderWay
      BY <1>4, <2>5
    <3> QED BY <1>8, <2>4, <2>5, <3>1, OtherPackets
  <2>6. ASSUME Receive(<<>>) PROVE HandledAsSent' /\ \A k : IsReceived(k)' <=> IsReceived(k)
    <3>1. Received' = Received
      <4>1. packetQueue \in Seq(Packets) /\ handled \in Seq(Packets)
        BY ReceivedTypes
      <4>2. packetQueue \o <<>> = packetQueue /\ handled \o <<>> = handled
        BY <4>1, ConcatEmptySeq
      <4> QED BY <2>6, <4>2 DEF Receive, Received
    <3> QED BY <1>8, <3>1 DEF DeliveryInv, HandledAsSent, IsReceived
  <2>7. CASE Ignored(chunk, p)
    <3>1. Times(id) # <<>> /\ now > Times(id)[1] + Timeout
      BY <1>2, <1>10, <2>7, IgnoredIsLate
    <3>2. ~ CameInTime(times) /\ ~ (now <= times[1] + Timeout)
      BY <1>1, <1>5, <1>6, <3>1
    <3>3. Receive(<<>>)
      BY <2>1, <2>3, <2>7
    <3>4. id \in DOMAIN groups' /\ groups'[id] = groups[id] /\ id \in DOMAIN groups
      <4>1. id \in DOMAIN groups
        <5>1. id \in DOMAIN KeptGroups
          BY <1>10, <2>7 DEF Ignored
        <5> QED BY <1>1, <5>1, CleanedUp DEF TransportInv
      <4> QED BY <2>4, <2>7, <4>1
    <3>5. PICK group : group = groups[id]
      OBVIOUS
    <3>6. GroupHolds(id, packet, group, UnderWay) /\ GroupTimed(group, Times(id))
      BY <1>1, <1>2, <3>4, <3>5 DEF PacketOK
    <3>7. GroupHolds(id, packet, group, UnderWay')
      BY <3>6, LessUnderWay
    <3>8. GroupTimed(group, times)
      <4>1. Len(group.chunks) \in Nat
        <5>1. group \in Groups
          BY <3>4, <3>5 DEF TransportInv, CollectorOK
        <5> QED BY <5>1 DEF Groups
      <4> QED BY <1>5, <3>6, <4>1 DEF GroupTimed
    <3>9. ~ IsReceived(id)'
      BY <1>1, <2>6, <3>3
    <3>10. PacketOK(id)'
      <4> HIDE DEF Times, IsReceived
      <4> QED BY <1>2, <1>4, <1>5, <1>8, <3>2, <3>4, <3>5, <3>7, <3>8, <3>9, NotReceived
    <3> QED BY <1>8, <2>5, <2>6, <3>3, <3>10 DEF DeliveryInv
  <2>8. CASE ~ Ignored(chunk, p)
    <3>1. /\ new \in Groups /\ new.chunks # <<>>
          /\ GroupHolds(id, packet, new, UnderWay')
          /\ GroupTimed(new, times)
          /\ now <= new.timeOutAfter
          /\ now <= times[1] + Timeout => Len(new.chunks) = Len(times)
      BY <1>2, <1>10, <2>2, <2>8, IntoGroup
    <3>2. /\ Complete(new) => /\ Len(new.chunks) = Len(s)
                              /\ Restored(new) = Bytes(packet.length)
                              /\ \A c \in ToSet(s) : c \notin UnderWay'
          /\ Len(new.chunks) = Len(s) => Complete(new)
      BY <1>1, <1>2, <1>3, <3>1, CompleteGroup
    <3>3. CASE Complete(new)
      <4>1. Receive(<<r>>)
        BY <2>1, <2>3, <2>8, <3>3
      <4>2. r \in Packets /\ r.packet = id /\ r.sender = p /\ r.bytes = Bytes(packet.length)
        <5>1. Restored(new) \in Payloads
          BY <3>1 DEF Payloads
        <5> QED BY <1>1, <1>3, <2>2, <3>2, <3>3, <5>1 DEF Packets
      <4> HIDE DEF r
      <4>3. HandledAsSent' /\ \A k : IsReceived(k)' <=> IsReceived(k) \/ k = id
        BY <1>1, <1>2, <4>1, <4>2, ReceivedMore
      <4>4. \A c \in UnderWay' : c.packet # id
        BY <1>7, <3>2, <3>3
      <4>5. Len(times) = Len(s) => CameInTime(times)
        <5>1. Len(times) = Len(s) => new.timeOutAfter = times[1] + Timeout
          BY <3>1, <3>2, <3>3 DEF GroupTimed
        <5> QED BY <1>6, <3>1, <5>1
      <4>6. IsReceived(id)' /\ id \notin DOMAIN groups'
        BY <2>4, <2>8, <3>3, <4>3
      <4>7. PacketOK(id)'
        <5> HIDE DEF Times, IsReceived
        <5> QED BY <1>2, <1>4, <1>5, <1>8, <4>4, <4>5, <4>6, NowReceived
      <4> QED BY <1>8, <2>5, <4>3, <4>7 DEF DeliveryInv
    <3>4. CASE ~ Complete(new)
      <4>1. Receive(<<>>)
        BY <2>1, <2>3, <3>4
      <4>2. id \in DOMAIN groups' /\ groups'[id] = new
        BY <2>4, <2>8, <3>4
      <4>3. ~ IsReceived(id)'
        BY <1>1, <2>6, <4>1
      <4>4. Len(times) = Len(s) => ~ CameInTime(times)
        BY <1>6, <3>1, <3>2, <3>4
      <4>5. PacketOK(id)'
        <5> HIDE DEF Times, IsReceived
        <5> QED BY <1>2, <1>4, <1>5, <1>8, <3>1, <4>2, <4>3, <4>4, NotReceived
      <4> QED BY <1>8, <2>5, <2>6, <4>1, <4>5 DEF DeliveryInv
    <3> QED BY <3>3, <3>4
  <2> QED BY <2>7, <2>8
<1> QED BY <1>1, <1>9, <1>10

\* A chunk that is taken from its channel is nowhere else.
LEMMA ReceiveReliableDelivery ==
    ASSUME TransportInv, DeliveryInv, TransportInv', ReceiveReliable
    PROVE  DeliveryInv'
<1>1. PICK p : p = reading
  OBVIOUS
<1>2. /\ p \in Peers /\ reliable[p] # <<>> /\ HandlePacket(Head(reliable[p]), p)
      /\ reliable' = [reliable EXCEPT ![p] = Tail(@)]
      /\ UNCHANGED <<sent, unreliable, now>>
  BY <1>1 DEF ReceiveReliable, TransportInv, FrameOK
<1>3. /\ reliable \in [Peers -> Seq(Chunks)] /\ unreliable \in [Peers -> SUBSET Chunks]
      /\ reliable[p] \in Seq(Chunks) /\ Distinct(reliable[p])
  BY <1>2 DEF TransportInv, NetworkOK, DeliveryInv, ChannelsOK
<1>4. PICK chunk, rest, channel :
         chunk = Head(reliable[p]) /\ rest = Tail(reliable[p]) /\ channel = reliable[p]
  OBVIOUS
<1>5. /\ rest \in Seq(Chunks) /\ Len(rest) = Len(channel) - 1 /\ Len(channel) \in Nat \ {0}
      /\ \A i \in 1..Len(rest) : rest[i] = channel[i + 1]
      /\ chunk = channel[1]
  BY <1>2, <1>3, <1>4, HeadTailProperties
<1>6. DOMAIN rest = 1..Len(rest) /\ DOMAIN channel = 1..Len(channel) /\ Distinct(channel)
  BY <1>3, <1>4, <1>5
<1>7. ToSet(channel) = ToSet(rest) \cup {chunk} /\ chunk \notin ToSet(rest) /\ Distinct(rest)
  <2>1. \A x \in ToSet(rest) : x \in ToSet(channel) /\ x # chunk
    <3> SUFFICES ASSUME NEW i \in 1..Len(rest) PROVE rest[i] \in ToSet(channel) /\ rest[i] # chunk
      BY <1>6 DEF ToSet
    <3>1. i + 1 \in 1..Len(channel) /\ 1 \in 1..Len(channel) /\ i + 1 # 1
      BY <1>5
    <3>2. channel[i + 1] # channel[1]
      BY <1>6, <3>1 DEF Distinct
    <3> QED BY <1>5, <1>6, <3>1, <3>2 DEF ToSet
  <2>2. \A x \in ToSet(channel) : x = chunk \/ x \in ToSet(rest)
    <3> SUFFICES ASSUME NEW i \in 1..Len(channel) PROVE channel[i] = chunk \/ channel[i] \in ToSet(rest)
      BY <1>6 DEF ToSet
    <3>1. i = 1 \/ (i - 1 \in 1..Len(rest) /\ (i - 1) + 1 = i)
      BY <1>5
    <3> QED BY <1>5, <1>6, <3>1 DEF ToSet
  <2>3. chunk \in ToSet(channel)
    BY <1>5, <1>6 DEF ToSet
  <2>4. ASSUME NEW i \in 1..Len(rest), NEW j \in 1..Len(rest), rest[i] = rest[j] PROVE i = j
    <3>1. i + 1 \in 1..Len(channel) /\ j + 1 \in 1..Len(channel) /\ channel[i + 1] = channel[j + 1]
      BY <1>5, <2>4
    <3>2. i + 1 = j + 1
      BY <1>6, <3>1 DEF Distinct
    <3> QED BY <3>2
  <2> QED BY <2>1, <2>2, <2>3, <2>4 DEF Distinct
<1>8. reliable'[p] = rest /\ \A q \in Peers \ {p} : reliable'[q] = reliable[q]
  BY <1>2, <1>3, <1>4
<1>9. chunk \in UnderWay
  BY <1>2, <1>4, <1>7 DEF UnderWay
<1>10. /\ \A q \in Peers : chunk \in ToSet(reliable[q]) =>
             sent[chunk.packet].sender = q /\ sent[chunk.packet].isReliable
       /\ \A q \in Peers : chunk \in unreliable[q] =>
             sent[chunk.packet].sender = q /\ ~ sent[chunk.packet].isReliable
  BY <1>9, UnderWayTypes DEF DeliveryInv
<1>11. sent[chunk.packet].sender = p /\ sent[chunk.packet].isReliable
  BY <1>2, <1>4, <1>7, <1>10
<1>12. UnderWay' = UnderWay \ {chunk}
  <2>1. ASSUME NEW q \in Peers
        PROVE  ToSet(reliable'[q]) \cup unreliable'[q] = (ToSet(reliable[q]) \cup unreliable[q]) \ {chunk}
    <3>1. chunk \notin unreliable[q]
      BY <1>10, <1>11
    <3>2. CASE q = p
      BY <1>2, <1>4, <1>7, <1>8, <3>1, <3>2
    <3>3. CASE q # p
      <4>1. chunk \notin ToSet(reliable[q])
        BY <1>10, <1>11, <3>3
      <4> QED BY <1>2, <1>8, <3>1, <3>3, <4>1
    <3> QED BY <3>2, <3>3
  <2> QED BY <2>1 DEF UnderWay
<1>13. ChannelsOK'
  <2>1. \A q \in Peers : Distinct(reliable'[q])
    BY <1>7, <1>8 DEF DeliveryInv, ChannelsOK
  <2> HIDE DEF UnderWay
  <2>2. \A c \in UnderWay' : c \in ToSet(Split(c.packet, sent[c.packet]))
    BY <1>12 DEF DeliveryInv, ChannelsOK
  <2> QED BY <1>2, <2>1, <2>2 DEF DeliveryInv, ChannelsOK
<1>14. PICK id : id = chunk.packet
  OBVIOUS
<1>15. HandlePacket(chunk, sent[id].sender)
  BY <1>2, <1>4, <1>11, <1>14
<1> HIDE DEF UnderWay
<1> QED BY <1>2, <1>9, <1>12, <1>13, <1>14, <1>15, HandleDelivery

LEMMA ReceiveUnreliableDelivery ==
    ASSUME TransportInv, DeliveryInv, TransportInv', ReceiveUnreliable
    PROVE  DeliveryInv'
<1>1. PICK p : p = reading
  OBVIOUS
<1>2. p \in Peers /\ UNCHANGED <<sent, reliable, now>>
  BY <1>1 DEF ReceiveUnreliable, TransportInv, FrameOK
<1>3. PICK chunk \in unreliable[p] :
         HandlePacket(chunk, p) /\ unreliable' = [unreliable EXCEPT ![p] = @ \ {chunk}]
  BY <1>1 DEF ReceiveUnreliable
<1>4. unreliable \in [Peers -> SUBSET Chunks]
  BY DEF TransportInv, NetworkOK
<1>5. unreliable'[p] = unreliable[p] \ {chunk} /\ \A q \in Peers \ {p} : unreliable'[q] = unreliable[q]
  BY <1>2, <1>3, <1>4
<1>6. chunk \in UnderWay
  BY <1>2, <1>3 DEF UnderWay
<1>7. /\ \A q \in Peers : chunk \in ToSet(reliable[q]) =>
             sent[chunk.packet].sender = q /\ sent[chunk.packet].isReliable
      /\ \A q \in Peers : chunk \in unreliable[q] =>
             sent[chunk.packet].sender = q /\ ~ sent[chunk.packet].isReliable
  BY <1>6, UnderWayTypes DEF DeliveryInv
<1>8. sent[chunk.packet].sender = p /\ ~ sent[chunk.packet].isReliable
  BY <1>2, <1>3, <1>7
<1>9. UnderWay' = UnderWay \ {chunk}
  <2>1. ASSUME NEW q \in Peers
        PROVE  ToSet(reliable'[q]) \cup unreliable'[q] = (ToSet(reliable[q]) \cup unreliable[q]) \ {chunk}
    <3>1. chunk \notin ToSet(reliable[q])
      BY <1>7, <1>8
    <3>2. CASE q = p
      BY <1>2, <1>5, <3>1, <3>2
    <3>3. CASE q # p
      <4>1. chunk \notin unreliable[q]
        BY <1>7, <1>8, <3>3
      <4> QED BY <1>2, <1>5, <3>1, <3>3, <4>1
    <3> QED BY <3>2, <3>3
  <2> QED BY <2>1 DEF UnderWay
<1>10. ChannelsOK'
  <2>1. \A q \in Peers : unreliable'[q] \subseteq unreliable[q]
    BY <1>5
  <2> HIDE DEF UnderWay
  <2>2. \A c \in UnderWay' : c \in ToSet(Split(c.packet, sent[c.packet]))
    BY <1>9 DEF DeliveryInv, ChannelsOK
  <2> QED BY <1>2, <2>1, <2>2 DEF DeliveryInv, ChannelsOK
<1>11. PICK id : id = chunk.packet
  OBVIOUS
<1>12. HandlePacket(chunk, sent[id].sender)
  BY <1>3, <1>8, <1>11
<1> HIDE DEF UnderWay
<1> QED BY <1>2, <1>6, <1>9, <1>10, <1>11, <1>12, HandleDelivery

----------------------------------------------------------------------------
(* What the abstract specification sees of a step. *)

\* What is in a queue is in another.
Within(queue, all) == \A i \in 1..Len(queue) : \E j \in DOMAIN all : all[j] = queue[i]

\* What is in one of two queues is in both joined.
LEMMA InBoth ==
    ASSUME NEW a \in Seq(Packets), NEW b \in Seq(Packets), NEW all, all = a \o b
    PROVE  Within(a, all) /\ Within(b, all)
<1>1. /\ Len(a) \in Nat /\ Len(b) \in Nat /\ DOMAIN all = 1..Len(a) + Len(b)
      /\ \A i \in 1..Len(a) + Len(b) : all[i] = IF i <= Len(a) THEN a[i] ELSE b[i - Len(a)]
  BY ConcatProperties
<1>2. ASSUME NEW i \in 1..Len(a) PROVE \E j \in DOMAIN all : all[j] = a[i]
  <2>1. i \in 1..Len(a) + Len(b) /\ i <= Len(a)
    BY <1>1
  <2> QED BY <1>1, <2>1
<1>3. ASSUME NEW i \in 1..Len(b) PROVE \E j \in DOMAIN all : all[j] = b[i]
  <2>1. Len(a) + i \in 1..Len(a) + Len(b) /\ ~ (Len(a) + i <= Len(a)) /\ (Len(a) + i) - Len(a) = i
    BY <1>1
  <2>2. all[Len(a) + i] = b[i]
    BY <1>1, <2>1
  <2> QED BY <1>1, <2>1, <2>2
<1> QED BY <1>2, <1>3 DEF Within

\* A packet that is received anew is one the abstract specification may accept.
LEMMA AcceptedStep ==
    ASSUME TransportInv, TransportInv', HandledAsSent', UNCHANGED sent,
           NEW r \in Packets, NEW k, k = r.packet, k \in 1..Len(sent), Receive(<<r>>), ~ IsReceived(k),
           \A i \in 1..Len(packetQueue) : NotBefore(k, packetQueue[i].packet),
           \A i \in 1..Len(handled) : NotBefore(k, handled[i].packet)
    PROVE  \E id \in DOMAIN sent : Delivery!Handle(id) \/ Delivery!Defer(id)
<1>1. /\ handled \in Seq(Packets) /\ packetQueue \in Seq(Packets)
      /\ handled' \in Seq(Packets) /\ packetQueue' \in Seq(Packets)
      /\ DOMAIN handled = 1..Len(handled) /\ DOMAIN packetQueue = 1..Len(packetQueue)
      /\ sent \in Seq(SentPackets)
  BY DEF TransportInv, OrderOK, NetworkOK
<1>2. k \in DOMAIN sent /\ k \in Int
  BY <1>1
<1>3. ASSUME NEW packets \in {handled, packetQueue}, NEW i \in DOMAIN packets
      PROVE  packets[i].packet # k /\ ~ Delivery!Overtakes(packets[i].packet, k)
  <2>1. \E j \in DOMAIN Received : Received[j] = packets[i]
    <3>1. PICK all : all = Received
      OBVIOUS
    <3>2. all = handled \o packetQueue
      BY <3>1 DEF Received
    <3>3. Within(handled, all) /\ Within(packetQueue, all)
      BY <1>1, <3>2, InBoth
    <3>4. i \in 1..Len(packets) /\ (packets = handled \/ packets = packetQueue)
      BY <1>1
    <3> QED BY <3>1, <3>3, <3>4 DEF Within
  <2>2. packets[i].packet # k
    BY <2>1 DEF IsReceived
  <2>3. NotBefore(k, packets[i].packet) /\ packets[i].packet \in Int
    BY <1>1 DEF TransportInv, OrderOK
  <2> QED BY <1>2, <2>2, <2>3 DEF NotBefore, Delivery!Overtakes
<1>4. Delivery!Acceptable(k)
  BY <1>3 DEF Delivery!Acceptable
<1>5. ASSUME \E j \in DOMAIN Received' : Received'[j] = r
      PROVE  r = Delivery!AsSent(k)
  <2>1. r.bytes = Bytes(sent[k].length) /\ r.sender = sent[k].sender
    BY <1>5 DEF HandledAsSent
  <2>2. r = [packet |-> r.packet, sender |-> r.sender, bytes |-> r.bytes]
    BY DEF Packets
  <2> QED BY <2>1, <2>2 DEF Delivery!AsSent, Bytes
<1>6. CASE handled' = handled \o <<r>> /\ packetQueue' = packetQueue
  <2>1. handled' = Append(handled, r) /\ Len(handled) + 1 \in 1..Len(handled') /\ handled'[Len(handled) + 1] = r
    BY <1>1, <1>6, AppendIsConcat
  <2>2. \E j \in DOMAIN Received' : Received'[j] = r
    <3>1. PICK all : all = Received'
      OBVIOUS
    <3>2. all = handled' \o packetQueue'
      BY <3>1 DEF Received
    <3>3. Within(handled', all) /\ Within(packetQueue', all)
      BY <1>1, <3>2, InBoth
    <3> QED BY <2>1, <3>1, <3>3 DEF Within
  <2>3. Delivery!Handle(k)
    BY <1>4, <1>5, <1>6, <2>1, <2>2 DEF Delivery!Handle
  <2> QED BY <1>2, <2>3
<1>7. CASE packetQueue' = packetQueue \o <<r>> /\ handled' = handled
  <2>1. /\ packetQueue' = Append(packetQueue, r) /\ Len(packetQueue) + 1 \in 1..Len(packetQueue')
        /\ packetQueue'[Len(packetQueue) + 1] = r
    BY <1>1, <1>7, AppendIsConcat
  <2>2. \E j \in DOMAIN Received' : Received'[j] = r
    <3>1. PICK all : all = Received'
      OBVIOUS
    <3>2. all = handled' \o packetQueue'
      BY <3>1 DEF Received
    <3>3. Within(handled', all) /\ Within(packetQueue', all)
      BY <1>1, <3>2, InBoth
    <3> QED BY <2>1, <3>1, <3>3 DEF Within
  <2>3. Delivery!Defer(k)
    BY <1>4, <1>5, <1>7, <2>1, <2>2 DEF Delivery!Defer
  <2> QED BY <1>2, <2>3
<1> QED BY <1>6, <1>7 DEF Receive

\* A chunk that is taken from its channel makes a packet received or changes
\* nothing that the abstract specification sees.
LEMMA HandledStep ==
    ASSUME TransportInv, TransportInv', DeliveryInv, DeliveryInv', UNCHANGED sent,
           NEW chunk \in UnderWay, NEW p \in Peers, HandlePacket(chunk, p),
           \A i \in 1..Len(packetQueue) : NotBefore(chunk.packet, packetQueue[i].packet),
           \A i \in 1..Len(handled) : NotBefore(chunk.packet, handled[i].packet)
    PROVE  [Delivery!Next]_Delivery!vars
<1>1. PICK k : k = chunk.packet
  OBVIOUS
<1>2. chunk \in Chunks /\ k \in 1..Len(sent) /\ ~ IsReceived(k)
  BY <1>1, ChunkArrives
<1>3. PICK packets \in Seq(Packets) :
         /\ Receive(packets)
         /\ packets = <<>> \/ \E r \in Packets : r.packet = k /\ packets = <<r>>
  BY <1>1, <1>2, PacketsReceived
<1>4. CASE packets = <<>>
  <2>1. handled \in Seq(Packets) /\ packetQueue \in Seq(Packets)
    BY DEF TransportInv, OrderOK
  <2>2. handled \o <<>> = handled /\ packetQueue \o <<>> = packetQueue
    BY <2>1, ConcatEmptySeq
  <2> QED BY <1>3, <1>4, <2>2 DEF Receive, Delivery!vars
<1>5. CASE \E r \in Packets : r.packet = k /\ packets = <<r>>
  <2>1. PICK r \in Packets : r.packet = k /\ packets = <<r>>
    BY <1>5
  <2>2. \E id \in DOMAIN sent : Delivery!Handle(id) \/ Delivery!Defer(id)
    BY <1>1, <1>2, <1>3, <2>1, AcceptedStep DEF DeliveryInv
  <2> QED BY <2>2 DEF Delivery!Next
<1> QED BY <1>3, <1>4, <1>5

LEMMA ReceiveReliableAccepts ==
    ASSUME TransportInv, TransportInv', DeliveryInv, DeliveryInv', ReceiveReliable
    PROVE  [Delivery!Next]_Delivery!vars
<1>1. PICK p, chunk : p = reading /\ chunk = Head(reliable[p])
  OBVIOUS
<1>2. p \in Peers /\ reliable[p] # <<>> /\ HandlePacket(chunk, p) /\ UNCHANGED sent
  BY <1>1 DEF ReceiveReliable, TransportInv, FrameOK
<1>3. reliable[p] \in Seq(Chunks) /\ 1 \in 1..Len(reliable[p]) /\ chunk = reliable[p][1]
  BY <1>1, <1>2 DEF TransportInv, NetworkOK
<1>4. chunk \in UnderWay
  BY <1>2, <1>3 DEF UnderWay, ToSet
<1>5. /\ \A i \in 1..Len(packetQueue) : NotBefore(chunk.packet, packetQueue[i].packet)
      /\ \A i \in 1..Len(handled) : NotBefore(chunk.packet, handled[i].packet)
  BY <1>2, <1>3 DEF TransportInv, OrderOK
<1> QED BY <1>2, <1>4, <1>5, HandledStep

LEMMA ReceiveUnreliableAccepts ==
    ASSUME TransportInv, TransportInv', DeliveryInv, DeliveryInv', ReceiveUnreliable
    PROVE  [Delivery!Next]_Delivery!vars
<1>1. PICK p : p = reading
  OBVIOUS
<1>2. p \in Peers /\ UNCHANGED sent
  BY <1>1 DEF ReceiveUnreliable, TransportInv, FrameOK
<1>3. PICK chunk \in unreliable[p] : HandlePacket(chunk, p)
  BY <1>1 DEF ReceiveUnreliable
<1>4. chunk \in UnderWay
  BY <1>2, <1>3 DEF UnderWay
<1>5. ~ sent[chunk.packet].isReliable
  BY <1>2, <1>3 DEF TransportInv, NetworkOK
<1>6. /\ \A i \in 1..Len(packetQueue) : NotBefore(chunk.packet, packetQueue[i].packet)
      /\ \A i \in 1..Len(handled) : NotBefore(chunk.packet, handled[i].packet)
  BY <1>5 DEF NotBefore
<1> QED BY <1>2, <1>3, <1>4, <1>6, HandledStep

----------------------------------------------------------------------------
(* The theorems. *)

LEMMA Invariance == Spec => []TransportInv
<1>1. Init => TransportInv
  BY InitialStates
<1>2. TransportInv /\ [Next]_vars => TransportInv'
  <2> SUFFICES ASSUME TransportInv, [Next]_vars PROVE TransportInv'
    OBVIOUS
  <2>1. CASE UNCHANGED vars
    <3>1. NetworkOK' /\ OrderOK' /\ CollectorOK'
      BY <2>1, NetworkKept, CollectorKept DEF vars, networkVars, frameVars
    <3> QED BY <2>1, <3>1 DEF TransportInv, ConnectionsOK, AnnouncedIsPresent, FrameOK, vars,
                              connectionVars, frameVars
  <2>2. CASE \E p \in Peers :
               \/ \E length \in Lengths, isReliable \in BOOLEAN : Send(p, length, isReliable)
               \/ Establish(p)
               \/ PeerCloses(p)
               \/ CreateConnection(p)
               \/ PollPeer(p)
    BY <2>2, SendStep, EstablishStep, PeerClosesStep, CreateConnectionStep, PollPeerStep
  <2>3. CASE PassTime
    BY <2>3, PassTimeStep
  <2>4. CASE PhysicsProcess \/ Process
    BY <2>4, PhysicsProcessStep, ProcessStep
  <2>5. CASE ReceiveReliable \/ ReceiveUnreliable
    BY <2>5, ReceiveReliableStep, ReceiveUnreliableStep
  <2>6. CASE EndPoll \/ HandleQueued
    BY <2>6, EndPollStep, HandleQueuedStep
  <2> QED BY <2>1, <2>2, <2>3, <2>4, <2>5, <2>6 DEF Next
<1> QED BY <1>1, <1>2, PTL DEF Spec

LEMMA DeliveryInvariance == Spec => []DeliveryInv
<1>1. Init => DeliveryInv
  BY DeliveryInitially
<1>2. TransportInv /\ TransportInv' /\ DeliveryInv /\ [Next]_vars => DeliveryInv'
  <2> SUFFICES ASSUME TransportInv, TransportInv', DeliveryInv, [Next]_vars PROVE DeliveryInv'
    OBVIOUS
  <2>1. now \in Nat /\ now <= now
    BY DEF TransportInv, FrameOK
  <2>2. CASE UNCHANGED vars
    BY <2>1, <2>2, NetworkKeptDelivery DEF vars, Received
  <2>3. CASE \E p \in Peers :
               \/ \E length \in Lengths, isReliable \in BOOLEAN : Send(p, length, isReliable)
               \/ Establish(p)
               \/ PeerCloses(p)
               \/ CreateConnection(p)
               \/ PollPeer(p)
    <3>1. PICK p \in Peers :
             \/ \E length \in Lengths, isReliable \in BOOLEAN : Send(p, length, isReliable)
             \/ Establish(p)
             \/ PeerCloses(p)
             \/ CreateConnection(p)
             \/ PollPeer(p)
      BY <2>3
    <3>2. CASE \E length \in Lengths, isReliable \in BOOLEAN : Send(p, length, isReliable)
      BY <3>2, SendDelivery
    <3>3. CASE Establish(p)
      BY <2>1, <3>3, NetworkKeptDelivery DEF Establish, Received
    <3>4. CASE PeerCloses(p) \/ CreateConnection(p)
      BY <3>4, ClosedChannelsDelivery DEF PeerCloses, CreateConnection
    <3>5. CASE PollPeer(p)
      BY <2>1, <3>5, NetworkKeptDelivery DEF PollPeer, Received
    <3> QED BY <3>1, <3>2, <3>3, <3>4, <3>5
  <2>4. CASE PassTime
    BY <2>4, PassTimeDelivery
  <2>5. CASE PhysicsProcess
    BY <2>1, <2>5, NetworkKeptDelivery DEF PhysicsProcess, Received
  <2>6. CASE Process
    BY <2>1, <2>6, NetworkKeptDelivery DEF Process, Received
  <2>7. CASE ReceiveReliable \/ ReceiveUnreliable
    BY <2>7, ReceiveReliableDelivery, ReceiveUnreliableDelivery
  <2>8. CASE EndPoll
    BY <2>1, <2>8, NetworkKeptDelivery DEF EndPoll, Received
  <2>9. CASE HandleQueued
    BY <2>9, HandleQueuedDelivery
  <2> QED BY <2>2, <2>3, <2>4, <2>5, <2>6, <2>7, <2>8, <2>9 DEF Next
<1> QED BY <1>1, <1>2, Invariance, PTL DEF Spec

\* The types of everything, and that no complete group waits for a cleanup.
THEOREM TypeCorrect == Spec => []TypeOK
<1>1. TransportInv => TypeOK
  <2> SUFFICES ASSUME TransportInv PROVE TypeOK
    OBVIOUS
  <2>1. \A id \in DOMAIN sent : sent[id] \in [sender : Peers, length : Lengths, isReliable : BOOLEAN]
    <3>1. sent \in Seq(SentPackets)
      BY DEF TransportInv, NetworkOK
    <3>2. \A id \in DOMAIN sent : sent[id] \in SentPackets
      BY <3>1
    <3> QED BY <3>2 DEF SentPackets
  <2>2. DOMAIN groups \cup DOMAIN arrivals \subseteq DOMAIN sent
    BY DEF TransportInv, NetworkOK, CollectorOK
  <2>3. \A id \in DOMAIN groups :
           /\ groups[id].sender \in Peers
           /\ groups[id].timeOutAfter \in 0..(MaxTime + Timeout)
           /\ groups[id].chunks # <<>>
           /\ ~ Complete(groups[id])
    BY TransportAssumption DEF TransportInv, CollectorOK, Groups
  <2>4. nextCleanup \in 0..(MaxTime + CleanupInterval)
    BY TransportAssumption DEF TransportInv, CollectorOK, FrameOK
  <2> QED BY <2>1, <2>2, <2>3, <2>4 DEF TransportInv, ConnectionsOK, FrameOK, TypeOK
<1> QED BY <1>1, Invariance, PTL

\* Listeners know of present connections only, for any number of peers that
\* connect any number of times (AnnouncedIsPresent).
THEOREM ListenersAreUpToDate == Spec => []AnnouncedIsPresent
<1>1. TransportInv => AnnouncedIsPresent
  BY DEF TransportInv, ConnectionsOK
<1> QED BY <1>1, Invariance, PTL

\* A group that has timed out is not there a cleanup interval later
\* (StaleGroupsAreCleanedUp), for any timeout and interval.
THEOREM GroupsAreCleanedUp == Spec => []StaleGroupsAreCleanedUp
<1>1. TransportInv => StaleGroupsAreCleanedUp
  BY DEF TransportInv, CollectorOK
<1> QED BY <1>1, Invariance, PTL

\* Packets of a reliable channel are handled in order, except within a physics
\* step (OvertakenWithinStep), for any number of packets and sizes.
THEOREM OvertakenPacketsWaitForNoTick == Spec => []OvertakenWithinStep
<1>1. TransportInv => OvertakenWithinStep
  <2> SUFFICES ASSUME TransportInv, step \in {"between", "process"},
                      NEW i \in DOMAIN packetQueue, NEW j \in DOMAIN handled
               PROVE  ~ SentBefore(packetQueue[i].packet, handled[j].packet)
    BY DEF OvertakenWithinStep
  <2>1. i \in 1..Len(packetQueue) /\ j \in 1..Len(handled)
    BY DEF TransportInv, OrderOK
  <2>2. /\ NotBefore(packetQueue[i].packet, handled[j].packet)
        /\ packetQueue[i].packet \in Int /\ handled[j].packet \in Int
    BY <2>1 DEF TransportInv, OrderOK
  <2> QED BY <2>2 DEF NotBefore, SentBefore
<1> QED BY <1>1, Invariance, PTL

\* A packet handler gets packets as they were sent, and none of them twice
\* (HandledAsSent), for any sizes of packets and chunks, however chunks are lost,
\* reordered or late.
THEOREM PacketsAreHandledAsSent == Spec => []HandledAsSent
<1>1. DeliveryInv => HandledAsSent
  BY DEF DeliveryInv
<1> QED BY <1>1, DeliveryInvariance, PTL

\* A packet all of whose chunks arrived is received exactly when they came within
\* the timeout (RestoredInTime), for any timeout and cleanup interval.
THEOREM PacketsAreRestoredInTime == Spec => []RestoredInTime
<1>1. TransportInv /\ DeliveryInv => RestoredInTime
  <2> SUFFICES ASSUME TransportInv, DeliveryInv, NEW id \in DOMAIN arrivals,
                      Len(arrivals[id]) = Len(SplitIntoChunks(id, sent[id].length))
               PROVE  IsReceived(id) <=> arrivals[id][Len(arrivals[id])] - arrivals[id][1] <= Timeout
    BY DEF RestoredInTime
  <2>1. id \in 1..Len(sent) /\ id \in Nat \ {0} /\ sent[id] \in SentPackets
    BY DEF TransportInv, CollectorOK, NetworkOK
  <2>2. PacketOK(id) /\ Times(id) = arrivals[id]
    BY <2>1 DEF DeliveryInv, Times
  <2>3. Len(arrivals[id]) = Len(Split(id, sent[id]))
    BY DEF Split
  <2>4. Times(id) # <<>>
    <3>1. sent[id].length \in Lengths
      BY <2>1 DEF SentPackets
    <3>2. PICK length, s : length = sent[id].length /\ s = SplitIntoChunks(id, length)
      OBVIOUS
    <3>3. Len(s) \in Nat \ {0}
      BY <2>1, <3>1, <3>2, ChunksInOrder
    <3> QED BY <2>2, <3>2, <3>3
  <2>5. IsReceived(id) <=> CameInTime(Times(id))
    BY <2>2, <2>3, <2>4 DEF PacketOK
  <2> QED BY <2>2, <2>5 DEF CameInTime
<1> QED BY <1>1, Invariance, DeliveryInvariance, PTL

\* Through chunks that are lost, late or out of order, connections that are
\* replaced and frames that poll at any time, the communicator delivers packets
\* as PacketDelivery says (PacketChunkCollector.AddChunk, Communicator.HandlePacket
\* and PhysicsProcess), for any peers, sizes and times.
THEOREM DeliveryRefinement == Spec => ImplementsDelivery
<1>1. Init => Delivery!Init
  BY DEF Init, Delivery!Init
<1>2. TransportInv /\ TransportInv' /\ DeliveryInv /\ DeliveryInv' /\ [Next]_vars
         => [Delivery!Next]_Delivery!vars
  <2> SUFFICES ASSUME TransportInv, TransportInv', DeliveryInv, DeliveryInv', [Next]_vars
               PROVE  [Delivery!Next]_Delivery!vars
    OBVIOUS
  <2>1. CASE \E p \in Peers, length \in Lengths, isReliable \in BOOLEAN : Send(p, length, isReliable)
    BY <2>1 DEF Send, Delivery!Next, Delivery!Send
  <2>2. CASE ReceiveReliable \/ ReceiveUnreliable
    BY <2>2, ReceiveReliableAccepts, ReceiveUnreliableAccepts
  <2>3. CASE HandleQueued
    BY <2>3 DEF HandleQueued, Delivery!Next, Delivery!HandleWaiting, networkVars
  <2>4. CASE UNCHANGED <<sent, packetQueue, handled>>
    BY <2>4 DEF Delivery!vars
  <2>5. CASE \E p \in Peers : Establish(p) \/ PeerCloses(p) \/ CreateConnection(p) \/ PollPeer(p)
    BY <2>4, <2>5 DEF Establish, PeerCloses, CreateConnection, PollPeer, CloseChannels, networkVars
  <2>6. CASE PassTime \/ PhysicsProcess \/ Process \/ EndPoll \/ UNCHANGED vars
    BY <2>4, <2>6 DEF PassTime, PhysicsProcess, Process, EndPoll, vars, networkVars
  <2> QED BY <2>1, <2>2, <2>3, <2>5, <2>6 DEF Next
<1> QED BY <1>1, <1>2, Invariance, DeliveryInvariance, PTL DEF Spec, ImplementsDelivery, Delivery!Spec
=============================================================================
