---------------------- MODULE CampaignPersistenceProofs ----------------------
(***************************************************************************)
(* Proofs about CampaignPersistence, for every set of shards and of        *)
(* characters and every value of the bounds.                               *)
(***************************************************************************)
EXTENDS CampaignPersistenceInv, TLAPS

-----------------------------------------------------------------------------
(***************************************************************************)
(* What sending and receiving do to the packets under way.                 *)
(***************************************************************************)

(* A packet sent joins what is under way and changes nothing else.         *)
LEMMA AppendFacts ==
  ASSUME NEW S, NEW q \in Seq(S), NEW m \in S
  PROVE  /\ \A x : UnderWay(Append(q, m), x) <=> UnderWay(q, x) \/ x = m
         /\ \A t : Carries(Append(q, m), t) <=> Carries(q, t) \/ m.type = t
         /\ \A c : Delivers(Append(q, m), c) <=>
                     Delivers(q, c) \/ (m.type = "ShardSnapshot" /\ m.world[c] # "none")
         /\ \A x : AtMostOnce(q, x) /\ (x = m => ~UnderWay(q, x))
                     => AtMostOnce(Append(q, m), x)
         /\ \A t : AtMostOneOf(q, t) /\ (m.type = t => ~Carries(q, t))
                     => AtMostOneOf(Append(q, m), t)
<1>1. /\ Len(Append(q, m)) = Len(q) + 1
      /\ Len(q) \in Nat
      /\ \A i \in 1..Len(q) : Append(q, m)[i] = q[i]
      /\ Append(q, m)[Len(q) + 1] = m
  OBVIOUS
<1> DEFINE a == Append(q, m)
<1>2. /\ Len(a) = Len(q) + 1
      /\ \A i \in 1..Len(q) : a[i] = q[i]
      /\ a[Len(q) + 1] = m
  BY <1>1
<1> HIDE DEF a
<1>3. \A x : UnderWay(a, x) <=> UnderWay(q, x) \/ x = m
  BY <1>1, <1>2 DEF UnderWay
<1>4. \A t : Carries(a, t) <=> Carries(q, t) \/ m.type = t
  BY <1>1, <1>2 DEF Carries
<1>5. \A c : Delivers(a, c) <=>
               Delivers(q, c) \/ (m.type = "ShardSnapshot" /\ m.world[c] # "none")
  BY <1>1, <1>2 DEF Delivers
<1>6. \A x : AtMostOnce(q, x) /\ (x = m => ~UnderWay(q, x)) => AtMostOnce(a, x)
  BY <1>1, <1>2 DEF AtMostOnce, UnderWay
<1>7. \A t : AtMostOneOf(q, t) /\ (m.type = t => ~Carries(q, t)) => AtMostOneOf(a, t)
  BY <1>1, <1>2 DEF AtMostOneOf, Carries
<1> QED BY <1>3, <1>4, <1>5, <1>6, <1>7 DEF a

(* Receiving the first packet leaves what was under way behind it; a packet*)
(* that could be there only once is gone.                                  *)
LEMMA TailFacts ==
  ASSUME NEW S, NEW q \in Seq(S), q # <<>>
  PROVE  /\ \A x : UnderWay(Tail(q), x) => UnderWay(q, x)
         /\ \A t : Carries(Tail(q), t) => Carries(q, t)
         /\ \A c : Delivers(Tail(q), c) => Delivers(q, c)
         /\ \A x : AtMostOnce(q, x) => AtMostOnce(Tail(q), x)
         /\ \A t : AtMostOneOf(q, t) => AtMostOneOf(Tail(q), t)
         /\ AtMostOnce(q, Head(q)) => ~UnderWay(Tail(q), Head(q))
         /\ AtMostOneOf(q, Head(q).type) => ~Carries(Tail(q), Head(q).type)
         /\ UnderWay(q, Head(q))
         /\ Carries(q, Head(q).type)
         /\ \A c : Head(q).type = "ShardSnapshot" /\ Head(q).world[c] # "none"
                     => Delivers(q, c)
         /\ Head(q) \in S
<1> DEFINE r == Tail(q)
<1>1. /\ Len(q) \in Nat \ {0}
      /\ Len(r) = Len(q) - 1
      /\ \A i \in 1..Len(r) : r[i] = q[i + 1] /\ i + 1 \in 1..Len(q)
      /\ Head(q) = q[1]
      /\ Head(q) \in S
  OBVIOUS
<1> HIDE DEF r
<1>2. /\ \A x : UnderWay(r, x) => UnderWay(q, x)
      /\ UnderWay(q, Head(q))
  BY <1>1 DEF UnderWay
<1>3. /\ \A t : Carries(r, t) => Carries(q, t)
      /\ Carries(q, Head(q).type)
  BY <1>1 DEF Carries
<1>4. /\ \A c : Delivers(r, c) => Delivers(q, c)
      /\ \A c : Head(q).type = "ShardSnapshot" /\ Head(q).world[c] # "none"
                  => Delivers(q, c)
  BY <1>1 DEF Delivers
<1>5. /\ \A x : AtMostOnce(q, x) => AtMostOnce(r, x)
      /\ AtMostOnce(q, Head(q)) => ~UnderWay(r, Head(q))
  BY <1>1 DEF AtMostOnce, UnderWay
<1>6. /\ \A t : AtMostOneOf(q, t) => AtMostOneOf(r, t)
      /\ AtMostOneOf(q, Head(q).type) => ~Carries(r, Head(q).type)
  BY <1>1 DEF AtMostOneOf, Carries
<1> QED BY <1>1, <1>2, <1>3, <1>4, <1>5, <1>6 DEF r

(* Nothing is under way in an empty channel.                               *)
LEMMA EmptyFacts ==
  /\ \A x : ~UnderWay(<<>>, x) /\ AtMostOnce(<<>>, x)
  /\ \A t : ~Carries(<<>>, t) /\ AtMostOneOf(<<>>, t)
  /\ \A c : ~Delivers(<<>>, c)
BY DEF UnderWay, Carries, Delivers, AtMostOnce, AtMostOneOf

-----------------------------------------------------------------------------
(***************************************************************************)
(* Type correctness.                                                       *)
(***************************************************************************)

(* The values the actions put together are of the right kind.              *)
LEMMA ValueTypes ==
  /\ \A c \in Characters : Spawn(c) \in ToShardPacket
  /\ \A c \in Characters : Recalled(c) \in ToCampaignPacket
  /\ \A p \in BOOLEAN : State(p) \in ToShardPacket
  /\ \A w \in WorldSnapshot :
       ShardSnapshot(w) \in ToShardPacket /\ ShardSnapshot(w) \in ToCampaignPacket
  /\ SnapshotRequest \in ToShardPacket
  /\ Replicated \in ToCampaignPacket
  /\ \A w \in World : ToSnapshot(w) \in WorldSnapshot
  /\ \A w \in World, v \in WorldSnapshot : Replica(w, v) \in World
  /\ EmptyWorld \in World /\ EmptyWorld \in WorldSnapshot
  /\ NotDeployed \in Placement
  /\ EmptyFile("absent") \in File /\ EmptyFile("torn") \in File
<1>1. /\ EmptyWorld \in World /\ EmptyWorld \in WorldSnapshot
      /\ NotDeployed \in Placement
  BY DEF EmptyWorld, World, WorldSnapshot, Status, NotDeployed, Placement
<1>2. EmptyFile("absent") \in File /\ EmptyFile("torn") \in File
  BY <1>1 DEF EmptyFile, File
<1>3. \A w \in World : ToSnapshot(w) \in WorldSnapshot
  BY DEF ToSnapshot, WorldSnapshot, World, Status
<1>4. \A w \in World, v \in WorldSnapshot : Replica(w, v) \in World
  BY DEF Replica, World, WorldSnapshot, Status, InWorld
<1>5. /\ \A c \in Characters : Spawn(c) \in ToShardPacket
      /\ \A c \in Characters : Recalled(c) \in ToCampaignPacket
      /\ \A p \in BOOLEAN : State(p) \in ToShardPacket
      /\ \A w \in WorldSnapshot :
           ShardSnapshot(w) \in ToShardPacket /\ ShardSnapshot(w) \in ToCampaignPacket
      /\ SnapshotRequest \in ToShardPacket
      /\ Replicated \in ToCampaignPacket
  BY Zenon DEF ToShardPacket, ToCampaignPacket
<1> QED BY <1>1, <1>2, <1>3, <1>4, <1>5

(* What the first packet in a channel carries, by its type.                *)
LEMMA HeadTypes ==
  ASSUME TypeOK, NEW s \in Shards
  PROVE  /\ toShard[s] # <<>> =>
              LET m == Head(toShard[s]) IN
              /\ m \in ToShardPacket
              /\ Tail(toShard[s]) \in Seq(ToShardPacket)
              /\ m.type = "Spawn" => m.char \in Characters /\ m = Spawn(m.char)
              /\ m.type = "State" => m.isPaused \in BOOLEAN /\ m = State(m.isPaused)
              /\ m.type = "ShardSnapshot" =>
                   m.world \in WorldSnapshot /\ m = ShardSnapshot(m.world)
         /\ toCampaign[s] # <<>> =>
              LET m == Head(toCampaign[s]) IN
              /\ m \in ToCampaignPacket
              /\ Tail(toCampaign[s]) \in Seq(ToCampaignPacket)
              /\ m.type = "Recalled" => m.char \in Characters /\ m = Recalled(m.char)
              /\ m.type = "ShardSnapshot" =>
                   m.world \in WorldSnapshot /\ m = ShardSnapshot(m.world)
<1>1. toShard[s] \in Seq(ToShardPacket) /\ toCampaign[s] \in Seq(ToCampaignPacket)
  BY DEF TypeOK
<1>2. \A m \in ToShardPacket :
        /\ m.type = "Spawn" => m.char \in Characters /\ m = Spawn(m.char)
        /\ m.type = "State" => m.isPaused \in BOOLEAN /\ m = State(m.isPaused)
        /\ m.type = "ShardSnapshot" =>
             m.world \in WorldSnapshot /\ m = ShardSnapshot(m.world)
  BY DEF ToShardPacket, Spawn, SnapshotRequest, ShardSnapshot, State
<1>3. \A m \in ToCampaignPacket :
        /\ m.type = "Recalled" => m.char \in Characters /\ m = Recalled(m.char)
        /\ m.type = "ShardSnapshot" =>
             m.world \in WorldSnapshot /\ m = ShardSnapshot(m.world)
  BY DEF ToCampaignPacket, Recalled, ShardSnapshot, Replicated
<1>4. /\ toShard[s] # <<>> =>
           Head(toShard[s]) \in ToShardPacket /\ Tail(toShard[s]) \in Seq(ToShardPacket)
      /\ toCampaign[s] # <<>> =>
           Head(toCampaign[s]) \in ToCampaignPacket
           /\ Tail(toCampaign[s]) \in Seq(ToCampaignPacket)
  BY <1>1
<1> QED BY <1>2, <1>3, <1>4

(* What the senders leave in the channels is of the right kind.            *)
LEMMA ChannelTypes ==
  ASSUME TypeOK
  PROVE  /\ \A s \in Shards, m \in ToShardPacket :
              SendTo(s, m) \in [Shards -> Seq(ToShardPacket)]
         /\ \A m \in ToShardPacket : Broadcast(m) \in [Shards -> Seq(ToShardPacket)]
         /\ \A R \in SUBSET Shards : SendState(R) \in [Shards -> Seq(ToShardPacket)]
         /\ \A w \in [Shards -> WorldSnapshot] :
              SendWorlds(w) \in [Shards -> Seq(ToShardPacket)]
         /\ \A s \in Shards, m \in ToCampaignPacket :
              Reply(s, m) \in [Shards -> Seq(ToCampaignPacket)]
<1>1. /\ toShard \in [Shards -> Seq(ToShardPacket)]
      /\ toCampaign \in [Shards -> Seq(ToCampaignPacket)]
      /\ statePaused \in BOOLEAN
  BY DEF TypeOK
<1>2. \A s \in Shards, m \in ToShardPacket :
        Append(toShard[s], m) \in Seq(ToShardPacket)
  BY <1>1
<1>3. \A s \in Shards, m \in ToCampaignPacket :
        Append(toCampaign[s], m) \in Seq(ToCampaignPacket)
  BY <1>1
<1>4. State(statePaused) \in ToShardPacket
  BY <1>1, ValueTypes
<1>5. \A w \in [Shards -> WorldSnapshot], s \in Shards :
        ShardSnapshot(w[s]) \in ToShardPacket
  BY ValueTypes
<1>6. \A s \in Shards, m \in ToShardPacket :
        SendTo(s, m) \in [Shards -> Seq(ToShardPacket)]
  BY <1>1, <1>2 DEF SendTo
<1>7. \A m \in ToShardPacket : Broadcast(m) \in [Shards -> Seq(ToShardPacket)]
  BY <1>1, <1>2 DEF Broadcast
<1>8. \A R \in SUBSET Shards : SendState(R) \in [Shards -> Seq(ToShardPacket)]
  BY <1>1, <1>2, <1>4 DEF SendState
<1>9. \A w \in [Shards -> WorldSnapshot] :
        SendWorlds(w) \in [Shards -> Seq(ToShardPacket)]
  BY <1>1, <1>2, <1>5 DEF SendWorlds
<1>10. \A s \in Shards, m \in ToCampaignPacket :
        Reply(s, m) \in [Shards -> Seq(ToCampaignPacket)]
  BY <1>1, <1>3 DEF Reply
<1> QED BY <1>6, <1>7, <1>8, <1>9, <1>10

(* The initial state has the right types.                                  *)
LEMMA InitType == Init => TypeOK
<1> SUFFICES ASSUME Init PROVE TypeOK
  OBVIOUS
<1>1. <<>> \in Seq(ToShardPacket) /\ <<>> \in Seq(ToCampaignPacket)
  OBVIOUS
<1> QED BY <1>1, ValueTypes DEF Init, TypeOK, Phase

(* Every step keeps the types.                                             *)
LEMMA TypeStep ==
  ASSUME TypeOK, [Next]_vars
  PROVE  TypeOK'
<1> USE DEF TypeOK, boundVars, campaignVars, saveVars, shardVars, netVars
<1>0. <<>> \in Seq(ToShardPacket) /\ <<>> \in Seq(ToCampaignPacket)
  OBVIOUS
<1>1. CASE Restart
  <2>1. /\ sessions' \in Nat
        /\ UNCHANGED <<disk, deploys, deaths, disconnects>>
    BY <1>1 DEF Restart
  <2>2. /\ tracker' \in Placement
        /\ cut' \in Placement
        /\ answers' \in [Shards -> WorldSnapshot]
        /\ entities' \in [Shards -> World]
    BY <1>1, ValueTypes DEF Restart, FreshCluster
  <2>3. /\ toShard' \in [Shards -> Seq(ToShardPacket)]
        /\ toCampaign' \in [Shards -> Seq(ToCampaignPacket)]
    BY <1>0, <1>1 DEF Restart, FreshCluster
  <2>4. /\ phase' \in Phase
        /\ statePaused' \in BOOLEAN /\ stateChanged' \in BOOLEAN
        /\ stateRequesters' \in SUBSET Shards
        /\ loaded' \in SUBSET Shards
        /\ attempt' \in Nat
        /\ answered' \in SUBSET Shards
        /\ paused' \in [Shards -> BOOLEAN]
        /\ connected' \in SUBSET Shards
    BY <1>1 DEF Restart, FreshCluster, Phase
  <2> QED BY <2>1, <2>2, <2>3, <2>4
<1>2. CASE StartNewCampaign \/ LoadTornSnapshot \/ FinishLoading \/ LoadTimeout
             \/ FinishAttempt \/ CollectTimeout \/ GiveUp \/ Unpause
  BY <1>2 DEF StartNewCampaign, LoadTornSnapshot, FinishLoading, LoadTimeout,
              FinishAttempt, CollectTimeout, GiveUp, Unpause, Phase
<1>3. CASE LoadSnapshot
  <2>1. disk.tracker \in Placement /\ disk.worlds \in [Shards -> WorldSnapshot]
    BY DEF File
  <2> QED BY <1>3, <2>1, ChannelTypes DEF LoadSnapshot, Phase
<1>4. CASE PublishState
  <2>1. (IF stateChanged THEN Shards ELSE stateRequesters) \in SUBSET Shards
    OBVIOUS
  <2>2. toShard' \in [Shards -> Seq(ToShardPacket)]
    BY <1>4, <2>1, ChannelTypes DEF PublishState
  <2>3. stateChanged' \in BOOLEAN /\ stateRequesters' \in SUBSET Shards
    BY <1>4 DEF PublishState
  <2> QED BY <1>4, <2>2, <2>3 DEF PublishState
<1>5. ASSUME BeginAttempt
      PROVE  /\ phase' \in Phase
             /\ attempt' \in Nat
             /\ cut' \in Placement
             /\ answered' \in SUBSET Shards
             /\ answers' \in [Shards -> WorldSnapshot]
             /\ toShard' \in [Shards -> Seq(ToShardPacket)]
  <2>1. Broadcast(SnapshotRequest) \in [Shards -> Seq(ToShardPacket)]
    BY ValueTypes, ChannelTypes
  <2>2. answers' \in [Shards -> WorldSnapshot]
    BY <1>5, ValueTypes DEF BeginAttempt
  <2> QED BY <1>5, <2>1, <2>2 DEF BeginAttempt, NextAttempt, Phase
<1>6. CASE EndSession
  BY <1>5, <1>6 DEF EndSession
<1>7. CASE Retry
  BY <1>5, <1>7 DEF Retry
<1>8. CASE WriteSnapshot \/ CrashWhileWriting
  <2>1. [state |-> "whole", tracker |-> cut, worlds |-> answers] \in File
    BY DEF File
  <2>2. disk' \in File
    BY <1>8, <2>1, ValueTypes DEF WriteSnapshot, CrashWhileWriting
  <2> QED BY <1>8, <2>2 DEF WriteSnapshot, CrashWhileWriting, Phase
<1>9. ASSUME NEW s \in Shards, ReceiveFromShard(s) PROVE TypeOK'
  <2>1. /\ toCampaign[s] # <<>>
        /\ toCampaign' = [toCampaign EXCEPT ![s] = Tail(@)]
    BY <1>9 DEF ReceiveFromShard, ReceiveRecalled, ReceiveShardSnapshot,
                ReceiveReplicated, FromShard
  <2>2. toCampaign' \in [Shards -> Seq(ToCampaignPacket)]
    BY <2>1, HeadTypes
  <2>3. CASE ReceiveRecalled(s)
    BY <2>1, <2>2, <2>3, HeadTypes DEF ReceiveRecalled, FromShard, Placement
  <2>4. CASE ReceiveShardSnapshot(s)
    BY <2>1, <2>2, <2>4, HeadTypes DEF ReceiveShardSnapshot, FromShard
  <2>5. CASE ReceiveReplicated(s)
    BY <2>2, <2>5 DEF ReceiveReplicated
  <2> QED BY <1>9, <2>3, <2>4, <2>5 DEF ReceiveFromShard
<1>10. ASSUME NEW s \in Shards, ShardStep(s) PROVE TypeOK'
  <2>1. ASSUME toShard[s] # <<>>, toShard' = [toShard EXCEPT ![s] = Tail(@)]
        PROVE  toShard' \in [Shards -> Seq(ToShardPacket)]
    BY <2>1, HeadTypes
  <2>2. CASE ReceiveSpawn(s)
    BY <2>1, <2>2, HeadTypes
       DEF ReceiveSpawn, FromCampaign, AfterSpawn, World, Status
  <2>3. CASE ReceiveSnapshotRequest(s)
    <3>1. ShardSnapshot(ToSnapshot(entities[s])) \in ToCampaignPacket
      BY ValueTypes
    <3> QED BY <2>1, <2>3, <3>1, ChannelTypes DEF ReceiveSnapshotRequest, FromCampaign
  <2>4. CASE ReceiveState(s)
    BY <2>1, <2>4, HeadTypes DEF ReceiveState, FromCampaign
  <2>5. CASE ReceiveReplicate(s)
    BY <2>1, <2>5, HeadTypes, ValueTypes, ChannelTypes DEF ReceiveReplicate, FromCampaign
  <2>6. CASE ReplicateThrows(s)
    <3>1. Head(toShard[s]).world \in WorldSnapshot
      BY <2>6, HeadTypes DEF ReplicateThrows, FromCampaign
    <3>2. \A late \in SUBSET Characters :
            [c \in Characters |-> IF c \in late THEN "live"
                                 ELSE Head(toShard[s]).world[c]] \in WorldSnapshot
      BY <3>1 DEF WorldSnapshot
    <3>3. PICK late \in SUBSET Characters :
            entities' = [entities EXCEPT ![s] =
              Replica(@, [c \in Characters |-> IF c \in late THEN "live"
                                               ELSE Head(toShard[s]).world[c]])]
      BY <2>6 DEF ReplicateThrows
    <3>4. entities' \in [Shards -> World]
      BY <3>2, <3>3, ValueTypes
    <3> QED BY <2>1, <2>6, <3>4 DEF ReplicateThrows, FromCampaign
  <2>7. ASSUME NEW c \in Characters, Recall(s, c) PROVE TypeOK'
    <3>1. entities' \in [Shards -> World]
      BY <2>7 DEF Recall, World, Status
    <3>2. toCampaign' \in [Shards -> Seq(ToCampaignPacket)]
      BY <2>7, ValueTypes, ChannelTypes DEF Recall
    <3> QED BY <2>7, <3>1, <3>2 DEF Recall
  <2>8. ASSUME NEW c \in Characters, Die(s, c) PROVE TypeOK'
    BY <2>8 DEF Die, World, Status
  <2>9. ASSUME NEW c \in Characters, Collect(s, c) PROVE TypeOK'
    BY <2>9 DEF Collect, World, Status
  <2> QED BY <1>10, <2>2, <2>3, <2>4, <2>5, <2>6, <2>7, <2>8, <2>9 DEF ShardStep
<1>11. ASSUME NEW s \in Shards, Disconnect(s) PROVE TypeOK'
  <2>1. /\ toShard' \in [Shards -> Seq(ToShardPacket)]
        /\ toCampaign' \in [Shards -> Seq(ToCampaignPacket)]
    BY <1>0, <1>11 DEF Disconnect
  <2> QED BY <1>11, <2>1 DEF Disconnect
<1>12. ASSUME NEW s \in Shards, Reconnect(s) PROVE TypeOK'
  BY <1>12 DEF Reconnect
<1>13. ASSUME NEW s \in Shards, NEW c \in Characters, Deploy(c, s) PROVE TypeOK'
  <2>1. tracker' \in Placement
    BY <1>13 DEF Deploy, Placement
  <2>2. toShard' \in [Shards -> Seq(ToShardPacket)]
    BY <1>13, ValueTypes, ChannelTypes DEF Deploy
  <2> QED BY <1>13, <2>1, <2>2 DEF Deploy
<1>14. CASE UNCHANGED vars
  BY <1>14 DEF vars
<1> QED BY <1>1, <1>2, <1>3, <1>4, <1>6, <1>7, <1>8, <1>9, <1>10, <1>11, <1>12,
        <1>13, <1>14 DEF Next, CampaignServerStep

(* Every variable keeps its type, whatever the constants.                  *)
THEOREM TypeCorrect == Spec => []TypeOK
<1>1. TypeOK /\ [Next]_vars => TypeOK'
  BY TypeStep
<1> QED BY InitType, <1>1, PTL DEF Spec

-----------------------------------------------------------------------------
(***************************************************************************)
(* The inductive invariant.                                                *)
(***************************************************************************)

(* Packets of different kinds, or about different characters, differ.      *)
LEMMA PacketsDiffer ==
  /\ \A c : Spawn(c).type = "Spawn" /\ Recalled(c).type = "Recalled"
  /\ \A w : ShardSnapshot(w).type = "ShardSnapshot" /\ ShardSnapshot(w).world = w
  /\ \A p : State(p).type = "State"
  /\ SnapshotRequest.type = "SnapshotRequest" /\ Replicated.type = "Replicated"
  /\ \A c, d : (Spawn(c) = Spawn(d) => c = d) /\ (Recalled(c) = Recalled(d) => c = d)
  /\ \A p, q : State(p) = State(q) => p = q
<1>1. /\ \A c : Spawn(c).type = "Spawn" /\ Spawn(c).char = c
      /\ \A c : Recalled(c).type = "Recalled" /\ Recalled(c).char = c
      /\ \A p : State(p).type = "State" /\ State(p).isPaused = p
  BY DEF Spawn, Recalled, State
<1>2. /\ \A w : ShardSnapshot(w).type = "ShardSnapshot" /\ ShardSnapshot(w).world = w
      /\ SnapshotRequest.type = "SnapshotRequest" /\ Replicated.type = "Replicated"
  BY DEF ShardSnapshot, SnapshotRequest, Replicated
<1> QED BY <1>1, <1>2

(* A packet under way is of a type that is under way.                      *)
LEMMA UnderWayCarries ==
  ASSUME NEW q, NEW m, UnderWay(q, m)
  PROVE  Carries(q, m.type)
BY DEF UnderWay, Carries

(* Channel r holds nothing that channel q to a shard does not hold already,*)
(* as far as the invariant can tell.                                       *)
NoMoreToShard(r, q) ==
  /\ \A c \in Characters :
       /\ UnderWay(r, Spawn(c)) => UnderWay(q, Spawn(c))
       /\ AtMostOnce(q, Spawn(c)) => AtMostOnce(r, Spawn(c))
       /\ Delivers(r, c) => Delivers(q, c)
  /\ Carries(r, "Spawn") => Carries(q, "Spawn")
  /\ Carries(r, "ShardSnapshot") => Carries(q, "ShardSnapshot")
  /\ AtMostOneOf(q, "ShardSnapshot") => AtMostOneOf(r, "ShardSnapshot")

(* The same of a channel to the campaign server.                           *)
NoMoreToCampaign(r, q) ==
  /\ \A c \in Characters :
       /\ UnderWay(r, Recalled(c)) => UnderWay(q, Recalled(c))
       /\ AtMostOnce(q, Recalled(c)) => AtMostOnce(r, Recalled(c))
  /\ Carries(r, "Recalled") => Carries(q, "Recalled")
  /\ Carries(r, "Replicated") => Carries(q, "Replicated")

(* Nothing happens to a channel, it loses its first packet, it breaks, or a*)
(* packet that is no token is sent.                                        *)
LEMMA NoMoreFacts ==
  ASSUME NEW S, NEW q \in Seq(S), NEW r
  PROVE  /\ \/ r = q
            \/ r = <<>>
            \/ q # <<>> /\ r = Tail(q)
            => NoMoreToShard(r, q) /\ NoMoreToCampaign(r, q)
         /\ \A m \in S :
              /\ r = Append(q, m)
              /\ m.type \in {"SnapshotRequest", "State"}
              => NoMoreToShard(r, q)
         /\ \A m \in S :
              /\ r = Append(q, m)
              /\ m.type = "ShardSnapshot"
              => NoMoreToCampaign(r, q)
<1>1. CASE r = q
  BY <1>1 DEF NoMoreToShard, NoMoreToCampaign
<1>2. CASE r = <<>>
  BY <1>2, EmptyFacts DEF NoMoreToShard, NoMoreToCampaign
<1>3. CASE q # <<>> /\ r = Tail(q)
  BY <1>3, TailFacts DEF NoMoreToShard, NoMoreToCampaign
<1>4. ASSUME NEW m \in S, r = Append(q, m), m.type \in {"SnapshotRequest", "State"}
      PROVE  NoMoreToShard(r, q)
  <2>1. \A c : m # Spawn(c)
    BY <1>4, PacketsDiffer
  <2> QED BY <1>4, <2>1, AppendFacts DEF NoMoreToShard
<1>5. ASSUME NEW m \in S, r = Append(q, m), m.type = "ShardSnapshot"
      PROVE  NoMoreToCampaign(r, q)
  <2>1. \A c : m # Recalled(c)
    BY <1>5, PacketsDiffer
  <2> QED BY <1>5, <2>1, AppendFacts DEF NoMoreToCampaign
<1>6. (r = q \/ r = <<>> \/ (q # <<>> /\ r = Tail(q)))
        => NoMoreToShard(r, q) /\ NoMoreToCampaign(r, q)
  BY <1>1, <1>2, <1>3
<1> QED BY <1>4, <1>5, <1>6

(* The invariant holds of an empty cluster.                                *)
LEMMA InitInv == Init => IInv
<1> SUFFICES ASSUME Init PROVE IInv
  OBVIOUS
<1>1. TypeOK
  BY InitType
<1>2. \A s \in Shards : toShard[s] = <<>> /\ toCampaign[s] = <<>>
  BY DEF Init
<1>3. \A s \in Shards, c \in Characters : ~InShard(s, c)
  BY DEF Init, EmptyWorld, InShard, InWorld
<1>4. LiveWhereTracked /\ SpawnIsToken /\ RecallIsToken
  BY <1>2, <1>3, EmptyFacts DEF LiveWhereTracked, SpawnIsToken, RecallIsToken
<1>5. NobodyPlaysBeforeInit /\ StartsEmpty
  BY <1>2, <1>3, EmptyFacts DEF NobodyPlaysBeforeInit, StartsEmpty, Init
<1>6. ReplicationIsToken
  BY <1>2, EmptyFacts DEF ReplicationIsToken
<1>7. SavedIsConsistent
  BY DEF Init, SavedIsConsistent, EmptyFile
<1> QED BY <1>1, <1>4, <1>5, <1>6, <1>7 DEF IInv

(* A step that adds no token keeps the invariant: it puts no character into*)
(* a world, no spawn request, recall notice or snapshot to load under way, *)
(* and changes no tracker.                                                 *)
LEMMA NoNewToken ==
  ASSUME IInv, TypeOK', SavedIsConsistent',
         tracker' = tracker,
         \A s \in Shards :
           /\ NoMoreToShard(toShard'[s], toShard[s])
           /\ NoMoreToCampaign(toCampaign'[s], toCampaign[s])
           /\ \A c \in Characters : InShard(s, c)' => InShard(s, c)
           /\ Carries(toShard'[s], "ShardSnapshot") =>
                phase' \in {"loading", "initFailed"} /\ s \notin loaded',
         phase' = "starting" => phase = "starting" /\ loaded' = loaded,
         PreInit' =>
           /\ PreInit
           /\ statePaused'
           /\ \A s \in Shards : paused'[s] /\ ~UnderWay(toShard'[s], State(FALSE))
  PROVE  IInv'
<1>1. LiveWhereTracked'
  BY DEF IInv, LiveWhereTracked
<1>2. SpawnIsToken'
  BY DEF IInv, SpawnIsToken, NoMoreToShard
<1>3. RecallIsToken'
  BY DEF IInv, RecallIsToken, NoMoreToShard, NoMoreToCampaign
<1>4. NobodyPlaysBeforeInit'
  BY DEF IInv, NobodyPlaysBeforeInit, NoMoreToShard, NoMoreToCampaign
<1>5. StartsEmpty'
  BY DEF IInv, StartsEmpty, NoMoreToShard, NoMoreToCampaign
<1>6. ReplicationIsToken'
  BY DEF IInv, ReplicationIsToken, NoMoreToShard, NoMoreToCampaign
<1> QED BY <1>1, <1>2, <1>3, <1>4, <1>5, <1>6 DEF IInv

(* The steps of the campaign server that leave every channel alone.        *)
LEMMA LocalStep ==
  ASSUME IInv, TypeOK',
         \/ StartNewCampaign \/ LoadTornSnapshot \/ FinishLoading \/ LoadTimeout
         \/ Unpause \/ FinishAttempt \/ CollectTimeout \/ GiveUp
         \/ WriteSnapshot \/ CrashWhileWriting
  PROVE  IInv'
<1> USE DEF boundVars, campaignVars, saveVars, shardVars, netVars
<1>1. UNCHANGED <<tracker, entities, paused, toShard, toCampaign, cut, answers>>
  BY DEF StartNewCampaign, LoadTornSnapshot, FinishLoading, LoadTimeout, Unpause,
         FinishAttempt, CollectTimeout, GiveUp, WriteSnapshot, CrashWhileWriting
<1>2. /\ phase' # "starting"
      /\ phase' \in {"loading", "initFailed"} =>
           /\ phase \in {"starting", "loading"}
           /\ statePaused' = statePaused
           /\ loaded' = loaded \/ loaded' = {}
      /\ phase \in {"loading", "initFailed"} =>
           phase' \in {"loading", "initFailed"} \/ loaded = Shards
  BY DEF StartNewCampaign, LoadTornSnapshot, FinishLoading, LoadTimeout, Unpause,
         FinishAttempt, CollectTimeout, GiveUp, WriteSnapshot, CrashWhileWriting, AllLoaded
<1>3. SavedIsConsistent'
  <2>1. CASE WriteSnapshot
    BY <2>1, <1>1 DEF IInv, SavedIsConsistent, WriteSnapshot
  <2>2. CASE CrashWhileWriting
    BY <2>2, <1>1 DEF IInv, SavedIsConsistent, CrashWhileWriting, EmptyFile
  <2>3. CASE FinishAttempt
    BY <2>3, <1>1 DEF IInv, SavedIsConsistent, FinishAttempt
  <2>4. CASE \/ StartNewCampaign \/ LoadTornSnapshot \/ FinishLoading \/ LoadTimeout
             \/ Unpause \/ CollectTimeout \/ GiveUp
    <3>1. disk' = disk /\ phase' # "writing"
      BY <2>4 DEF StartNewCampaign, LoadTornSnapshot, FinishLoading, LoadTimeout, Unpause,
                  CollectTimeout, GiveUp
    <3> QED BY <3>1 DEF IInv, SavedIsConsistent
  <2> QED BY <2>1, <2>2, <2>3, <2>4
<1>4. \A s \in Shards :
        /\ NoMoreToShard(toShard'[s], toShard[s])
        /\ NoMoreToCampaign(toCampaign'[s], toCampaign[s])
  BY <1>1 DEF NoMoreToShard, NoMoreToCampaign
<1>5. \A s \in Shards, c \in Characters : InShard(s, c)' => InShard(s, c)
  BY <1>1 DEF InShard
<1>6. \A s \in Shards : Carries(toShard'[s], "ShardSnapshot") =>
        phase' \in {"loading", "initFailed"} /\ s \notin loaded'
  BY <1>1, <1>2 DEF IInv, ReplicationIsToken
<1>7. PreInit' =>
        /\ PreInit
        /\ statePaused'
        /\ \A s \in Shards : paused'[s] /\ ~UnderWay(toShard'[s], State(FALSE))
  <2> SUFFICES ASSUME PreInit'
               PROVE  /\ PreInit
                      /\ statePaused'
                      /\ \A s \in Shards : paused'[s] /\ ~UnderWay(toShard'[s], State(FALSE))
    OBVIOUS
  <2>1. PreInit /\ statePaused' = statePaused
    BY <1>2 DEF PreInit
  <2>2. statePaused /\ \A s \in Shards : paused[s]
    BY <2>1 DEF IInv, NobodyPlaysBeforeInit
  <2>3. \A s \in Shards : ~UnderWay(toShard'[s], State(FALSE))
    BY <1>1, <2>1 DEF IInv, NobodyPlaysBeforeInit
  <2>4. statePaused'
    BY <2>1, <2>2
  <2>5. \A s \in Shards : paused'[s]
    BY <1>1, <2>2
  <2> QED BY <2>1, <2>3, <2>4, <2>5
<1> QED BY <1>1, <1>2, <1>3, <1>4, <1>5, <1>6, <1>7, NoNewToken

(* A step outside the campaign server's phases: nothing but channels that  *)
(* lose packets or gain harmless ones, and worlds that lose characters.    *)
LEMMA QuietStep ==
  ASSUME IInv, TypeOK',
         UNCHANGED <<phase, tracker, statePaused, paused, loaded, disk, cut>>,
         phase = "writing" => answers' = answers,
         \A s \in Shards :
           /\ NoMoreToShard(toShard'[s], toShard[s])
           /\ NoMoreToCampaign(toCampaign'[s], toCampaign[s])
           /\ UnderWay(toShard'[s], State(FALSE)) => UnderWay(toShard[s], State(FALSE))
           /\ \A c \in Characters : InShard(s, c)' => InShard(s, c)
  PROVE  IInv'
<1>1. SavedIsConsistent'
  BY DEF IInv, SavedIsConsistent
<1>2. \A s \in Shards : Carries(toShard'[s], "ShardSnapshot") =>
        phase' \in {"loading", "initFailed"} /\ s \notin loaded'
  BY DEF IInv, ReplicationIsToken, NoMoreToShard
<1>3. ASSUME PreInit'
      PROVE  /\ PreInit
             /\ statePaused'
             /\ \A s \in Shards : paused'[s] /\ ~UnderWay(toShard'[s], State(FALSE))
  <2>1. PreInit
    BY <1>3 DEF PreInit
  <2>2. statePaused /\ \A s \in Shards : paused[s]
    BY <2>1 DEF IInv, NobodyPlaysBeforeInit
  <2>3. \A s \in Shards : ~UnderWay(toShard'[s], State(FALSE))
    BY <2>1 DEF IInv, NobodyPlaysBeforeInit
  <2>4. statePaused'
    BY <2>2
  <2>5. \A s \in Shards : paused'[s]
    BY <2>2
  <2> QED BY <2>1, <2>3, <2>4, <2>5
<1> QED BY <1>1, <1>2, <1>3, NoNewToken

(* A shard's snapshot arrives, is asked for, or a connection comes or goes.*)
LEMMA QuietNetworkStep ==
  ASSUME IInv, TypeOK', NEW s \in Shards,
         \/ ReceiveShardSnapshot(s) \/ ReceiveSnapshotRequest(s)
         \/ Disconnect(s) \/ Reconnect(s)
  PROVE  IInv'
<1> USE DEF boundVars, campaignVars, saveVars, shardVars, netVars
<1>1. /\ UNCHANGED <<phase, tracker, statePaused, paused, loaded, disk, cut, entities>>
      /\ phase = "writing" => answers' = answers
  BY DEF ReceiveShardSnapshot, ReceiveSnapshotRequest, Disconnect, Reconnect
<1>2. /\ toShard \in [Shards -> Seq(ToShardPacket)]
      /\ toCampaign \in [Shards -> Seq(ToCampaignPacket)]
  BY DEF IInv, TypeOK
<1>3. \A t \in Shards :
        \/ toShard'[t] = toShard[t]
        \/ toShard'[t] = <<>>
        \/ toShard[t] # <<>> /\ toShard'[t] = Tail(toShard[t])
  BY <1>2 DEF ReceiveShardSnapshot, ReceiveSnapshotRequest, Disconnect, Reconnect,
              FromShard, FromCampaign
<1>4. \A t \in Shards :
        \/ toCampaign'[t] = toCampaign[t]
        \/ toCampaign'[t] = <<>>
        \/ toCampaign[t] # <<>> /\ toCampaign'[t] = Tail(toCampaign[t])
        \/ \E w \in WorldSnapshot :
             toCampaign'[t] = Append(toCampaign[t], ShardSnapshot(w))
  <2>1. ToSnapshot(entities[s]) \in WorldSnapshot
    BY ValueTypes DEF IInv, TypeOK
  <2>2. CASE ReceiveShardSnapshot(s)
    BY <1>2, <2>2 DEF ReceiveShardSnapshot, FromShard
  <2>3. CASE ReceiveSnapshotRequest(s)
    BY <1>2, <2>1, <2>3 DEF ReceiveSnapshotRequest, Reply
  <2>4. CASE Disconnect(s) \/ Reconnect(s)
    BY <1>2, <2>4 DEF Disconnect, Reconnect
  <2> QED BY <2>2, <2>3, <2>4
<1>5. \A t \in Shards :
        /\ NoMoreToShard(toShard'[t], toShard[t])
        /\ UnderWay(toShard'[t], State(FALSE)) => UnderWay(toShard[t], State(FALSE))
  BY <1>2, <1>3, NoMoreFacts, TailFacts, EmptyFacts
<1>6. \A t \in Shards : NoMoreToCampaign(toCampaign'[t], toCampaign[t])
  <2> SUFFICES ASSUME NEW t \in Shards
               PROVE  NoMoreToCampaign(toCampaign'[t], toCampaign[t])
    OBVIOUS
  <2>1. ASSUME NEW w \in WorldSnapshot,
               toCampaign'[t] = Append(toCampaign[t], ShardSnapshot(w))
        PROVE  NoMoreToCampaign(toCampaign'[t], toCampaign[t])
    <3>1. /\ toCampaign[t] \in Seq(ToCampaignPacket)
          /\ ShardSnapshot(w) \in ToCampaignPacket
          /\ ShardSnapshot(w).type = "ShardSnapshot"
      BY <1>2, ValueTypes, PacketsDiffer
    <3> QED BY <2>1, <3>1, NoMoreFacts
  <2>2. CASE \/ toCampaign'[t] = toCampaign[t]
             \/ toCampaign'[t] = <<>>
             \/ toCampaign[t] # <<>> /\ toCampaign'[t] = Tail(toCampaign[t])
    BY <1>2, <2>2, NoMoreFacts
  <2> QED BY <1>4, <2>1, <2>2
<1>7. \A t \in Shards, c \in Characters : InShard(t, c)' => InShard(t, c)
  BY <1>1 DEF InShard
<1> QED BY <1>1, <1>5, <1>6, <1>7, QuietStep

(* A character dies, or a removed one is collected.                        *)
LEMMA EntityLost ==
  ASSUME IInv, TypeOK', NEW s \in Shards, NEW c \in Characters,
         Die(s, c) \/ Collect(s, c)
  PROVE  IInv'
<1> USE DEF boundVars, campaignVars, saveVars, shardVars, netVars
<1>1. UNCHANGED <<phase, tracker, statePaused, paused, loaded, disk, cut, answers,
                  toShard, toCampaign>>
  BY DEF Die, Collect
<1>2. entities \in [Shards -> [Characters -> Status]]
  BY DEF IInv, TypeOK, World
<1>3. \A t \in Shards, d \in Characters :
        entities'[t][d] = entities[t][d] \/ entities'[t][d] \notin InWorld
  BY <1>2 DEF Die, Collect, InWorld
<1>4. \A t \in Shards, d \in Characters : InShard(t, d)' => InShard(t, d)
  BY <1>3 DEF InShard
<1>5. \A t \in Shards :
        /\ NoMoreToShard(toShard'[t], toShard[t])
        /\ NoMoreToCampaign(toCampaign'[t], toCampaign[t])
  BY <1>1 DEF NoMoreToShard, NoMoreToCampaign
<1> QED BY <1>1, <1>4, <1>5, QuietStep

(* The paused flag is published: a packet that is no token, and says       *)
(* "paused" until the campaign server is initialized.                      *)
LEMMA PublishStep ==
  ASSUME IInv, TypeOK', PublishState
  PROVE  IInv'
<1> USE DEF boundVars, campaignVars, saveVars, shardVars, netVars
<1>1. /\ UNCHANGED <<phase, tracker, statePaused, paused, loaded, disk, cut, answers,
                     entities, toCampaign>>
      /\ \A s \in Shards :
           \/ toShard'[s] = toShard[s]
           \/ toShard'[s] = Append(toShard[s], State(statePaused))
  BY DEF PublishState, SendState
<1>2. /\ \A s \in Shards : toShard[s] \in Seq(ToShardPacket)
      /\ State(statePaused) \in ToShardPacket
      /\ State(statePaused).type = "State"
  BY ValueTypes, PacketsDiffer DEF IInv, TypeOK
<1>3. \A s \in Shards :
        /\ NoMoreToShard(toShard'[s], toShard[s])
        /\ NoMoreToCampaign(toCampaign'[s], toCampaign[s])
  BY <1>1, <1>2, NoMoreFacts DEF NoMoreToCampaign
<1>4. \A s \in Shards, c \in Characters : InShard(s, c)' => InShard(s, c)
  BY <1>1 DEF InShard
<1>5. \A s \in Shards : Carries(toShard'[s], "ShardSnapshot") =>
        phase' \in {"loading", "initFailed"} /\ s \notin loaded'
  BY <1>1, <1>3 DEF IInv, ReplicationIsToken, NoMoreToShard
<1>6. ASSUME PreInit'
      PROVE  /\ PreInit
             /\ statePaused'
             /\ \A s \in Shards : paused'[s] /\ ~UnderWay(toShard'[s], State(FALSE))
  <2>1. PreInit
    BY <1>1, <1>6 DEF PreInit
  <2>2. statePaused /\ \A s \in Shards : paused[s] /\ ~UnderWay(toShard[s], State(FALSE))
    BY <2>1 DEF IInv, NobodyPlaysBeforeInit
  <2>3. statePaused'
    BY <1>1, <2>2
  <2>4. \A s \in Shards : paused'[s]
    BY <1>1, <2>2
  <2>5. statePaused = TRUE
    BY <2>2 DEF IInv, TypeOK
  <2>6. State(FALSE) # State(statePaused)
    BY <2>5, PacketsDiffer
  <2>7. ASSUME NEW s \in Shards PROVE ~UnderWay(toShard'[s], State(FALSE))
    <3>1. CASE toShard'[s] = toShard[s]
      BY <2>2, <3>1
    <3>2. CASE toShard'[s] = Append(toShard[s], State(statePaused))
      <4> DEFINE m == State(statePaused)
      <4>1. m \in ToShardPacket /\ State(FALSE) # m
        BY <1>2, <2>6
      <4>2. toShard'[s] = Append(toShard[s], m)
        BY <3>2
      <4> HIDE DEF m
      <4>3. \A x : UnderWay(Append(toShard[s], m), x) <=> UnderWay(toShard[s], x) \/ x = m
        BY <1>2, <4>1, AppendFacts
      <4> QED BY <2>2, <4>1, <4>2, <4>3
    <3> QED BY <1>1, <3>1, <3>2
  <2> QED BY <2>1, <2>3, <2>4, <2>7
<1>7. SavedIsConsistent'
  BY <1>1 DEF IInv, SavedIsConsistent
<1> QED BY <1>1, <1>3, <1>4, <1>5, <1>6, <1>7, NoNewToken

(* An attempt begins: the shards are asked for their snapshots.            *)
LEMMA AttemptStep ==
  ASSUME IInv, TypeOK', EndSession \/ Retry
  PROVE  IInv'
<1> USE DEF boundVars, campaignVars, saveVars, shardVars, netVars
<1>1. /\ UNCHANGED <<tracker, loaded, disk, entities, toCampaign>>
      /\ phase \in {"running", "retrying"} /\ phase' = "collecting"
      /\ \A s \in Shards :
           \/ toShard'[s] = toShard[s]
           \/ toShard'[s] = Append(toShard[s], SnapshotRequest)
  BY DEF EndSession, Retry, BeginAttempt, Broadcast
<1>2. /\ \A s \in Shards : toShard[s] \in Seq(ToShardPacket)
      /\ SnapshotRequest \in ToShardPacket
      /\ SnapshotRequest.type = "SnapshotRequest"
  BY ValueTypes, PacketsDiffer DEF IInv, TypeOK
<1>3. \A s \in Shards :
        /\ NoMoreToShard(toShard'[s], toShard[s])
        /\ NoMoreToCampaign(toCampaign'[s], toCampaign[s])
  BY <1>1, <1>2, NoMoreFacts DEF NoMoreToCampaign
<1>4. \A s \in Shards, c \in Characters : InShard(s, c)' => InShard(s, c)
  BY <1>1 DEF InShard
<1>5. \A s \in Shards : ~Carries(toShard'[s], "ShardSnapshot")
  BY <1>1, <1>3 DEF IInv, ReplicationIsToken, NoMoreToShard
<1>6. ~PreInit'
  BY <1>1 DEF PreInit
<1>7. SavedIsConsistent'
  BY <1>1 DEF IInv, SavedIsConsistent
<1> QED BY <1>1, <1>3, <1>4, <1>5, <1>6, <1>7, NoNewToken

(* A shard acknowledges its snapshot: no snapshot is under way to it.      *)
LEMMA ReplicatedStep ==
  ASSUME IInv, TypeOK', NEW s \in Shards, ReceiveReplicated(s)
  PROVE  IInv'
<1> USE DEF boundVars, campaignVars, saveVars, shardVars, netVars
<1>1. /\ UNCHANGED <<phase, tracker, statePaused, paused, disk, cut, answers, entities,
                     toShard>>
      /\ loaded' \subseteq loaded \union {s}
  BY DEF ReceiveReplicated
<1>2. /\ toCampaign \in [Shards -> Seq(ToCampaignPacket)]
      /\ toCampaign[s] # <<>>
      /\ toCampaign' = [toCampaign EXCEPT ![s] = Tail(@)]
      /\ Head(toCampaign[s]).type = "Replicated"
  BY DEF ReceiveReplicated, FromShard, IInv, TypeOK
<1>3. \A t \in Shards :
        /\ NoMoreToShard(toShard'[t], toShard[t])
        /\ NoMoreToCampaign(toCampaign'[t], toCampaign[t])
  <2>1. \A t \in Shards : NoMoreToShard(toShard'[t], toShard[t])
    BY <1>1 DEF NoMoreToShard
  <2>2. \A t \in Shards :
          \/ toCampaign'[t] = toCampaign[t]
          \/ toCampaign[t] # <<>> /\ toCampaign'[t] = Tail(toCampaign[t])
    BY <1>2
  <2> QED BY <1>2, <2>1, <2>2, NoMoreFacts
<1>4. \A t \in Shards, c \in Characters : InShard(t, c)' => InShard(t, c)
  BY <1>1 DEF InShard
<1>5. Carries(toCampaign[s], "Replicated")
  BY <1>2, TailFacts
<1>6. \A t \in Shards : Carries(toShard'[t], "ShardSnapshot") =>
        phase' \in {"loading", "initFailed"} /\ t \notin loaded'
  BY <1>1, <1>5 DEF IInv, ReplicationIsToken
<1>7. phase # "starting"
  BY <1>5 DEF IInv, StartsEmpty
<1>8. ASSUME PreInit'
      PROVE  /\ PreInit
             /\ statePaused'
             /\ \A t \in Shards : paused'[t] /\ ~UnderWay(toShard'[t], State(FALSE))
  <2>1. PreInit
    BY <1>1, <1>8 DEF PreInit
  <2>2. statePaused /\ \A t \in Shards : paused[t] /\ ~UnderWay(toShard[t], State(FALSE))
    BY <2>1 DEF IInv, NobodyPlaysBeforeInit
  <2>3. statePaused' /\ \A t \in Shards : paused'[t]
    BY <1>1, <2>2
  <2> QED BY <1>1, <2>1, <2>2, <2>3
<1>9. SavedIsConsistent'
  BY <1>1 DEF IInv, SavedIsConsistent
<1> QED BY <1>1, <1>3, <1>4, <1>6, <1>7, <1>8, <1>9, NoNewToken

(* A shard hears the paused flag: before the campaign server is            *)
(* initialized, the flag is up.                                            *)
LEMMA StateStep ==
  ASSUME IInv, TypeOK', NEW s \in Shards, ReceiveState(s)
  PROVE  IInv'
<1> USE DEF boundVars, campaignVars, saveVars, shardVars, netVars
<1>1. /\ UNCHANGED <<phase, tracker, statePaused, loaded, disk, cut, answers, entities,
                     toCampaign>>
      /\ paused' = [paused EXCEPT ![s] = Head(toShard[s]).isPaused]
      /\ toShard[s] # <<>>
      /\ toShard' = [toShard EXCEPT ![s] = Tail(@)]
      /\ Head(toShard[s]).type = "State"
  BY DEF ReceiveState, FromCampaign
<1>2. toShard \in [Shards -> Seq(ToShardPacket)] /\ paused \in [Shards -> BOOLEAN]
  BY DEF IInv, TypeOK
<1>3. \A t \in Shards :
        \/ toShard'[t] = toShard[t]
        \/ toShard[t] # <<>> /\ toShard'[t] = Tail(toShard[t])
  BY <1>1, <1>2
<1>4. \A t \in Shards :
        /\ NoMoreToShard(toShard'[t], toShard[t])
        /\ NoMoreToCampaign(toCampaign'[t], toCampaign[t])
  BY <1>1, <1>2, <1>3, NoMoreFacts DEF NoMoreToCampaign
<1>5. \A t \in Shards, c \in Characters : InShard(t, c)' => InShard(t, c)
  BY <1>1 DEF InShard
<1>6. \A t \in Shards : Carries(toShard'[t], "ShardSnapshot") =>
        phase' \in {"loading", "initFailed"} /\ t \notin loaded'
  BY <1>1, <1>4 DEF IInv, ReplicationIsToken, NoMoreToShard
<1>7. ASSUME PreInit'
      PROVE  /\ PreInit
             /\ statePaused'
             /\ \A t \in Shards : paused'[t] /\ ~UnderWay(toShard'[t], State(FALSE))
  <2>1. PreInit
    BY <1>1, <1>7 DEF PreInit
  <2>2. statePaused /\ \A t \in Shards : paused[t] /\ ~UnderWay(toShard[t], State(FALSE))
    BY <2>1 DEF IInv, NobodyPlaysBeforeInit
  <2>3. \A t \in Shards : ~UnderWay(toShard'[t], State(FALSE))
    <3>1. \A t \in Shards : toShard[t] # <<>> =>
            \A x : UnderWay(Tail(toShard[t]), x) => UnderWay(toShard[t], x)
      BY <1>2, TailFacts
    <3> QED BY <1>3, <2>2, <3>1
  <2>4. Head(toShard[s]).isPaused # FALSE
    <3>1. UnderWay(toShard[s], Head(toShard[s]))
      BY <1>1, <1>2, TailFacts
    <3>2. Head(toShard[s]) = State(Head(toShard[s]).isPaused)
      BY <1>1, HeadTypes DEF IInv
    <3> QED BY <2>2, <3>1, <3>2
  <2>5. Head(toShard[s]).isPaused \in BOOLEAN
    BY <1>1, HeadTypes DEF IInv
  <2>6. Head(toShard[s]).isPaused
    BY <2>4, <2>5
  <2>7. \A t \in Shards : paused'[t]
    BY <1>1, <1>2, <2>2, <2>6
  <2>8. statePaused'
    BY <1>1, <2>2
  <2> QED BY <2>1, <2>3, <2>7, <2>8
<1>8. SavedIsConsistent'
  BY <1>1 DEF IInv, SavedIsConsistent
<1> QED BY <1>1, <1>4, <1>5, <1>6, <1>7, <1>8, NoNewToken

(* A new session starts from nothing but the file.                         *)
LEMMA RestartStep ==
  ASSUME IInv, TypeOK', Restart
  PROVE  IInv'
<1>1. /\ phase' = "starting" /\ disk' = disk /\ statePaused' = TRUE
      /\ tracker' = NotDeployed /\ loaded' = {}
      /\ \A s \in Shards : toShard'[s] = <<>> /\ toCampaign'[s] = <<>> /\ paused'[s] = TRUE
      /\ \A s \in Shards, c \in Characters : entities'[s][c] = "none"
  BY DEF Restart, FreshCluster, EmptyWorld
<1>2. \A s \in Shards, c \in Characters : ~InShard(s, c)'
  BY <1>1 DEF InShard, InWorld
<1>3. LiveWhereTracked'
  BY <1>2 DEF LiveWhereTracked
<1>4. SpawnIsToken' /\ RecallIsToken' /\ ReplicationIsToken'
  BY <1>1, EmptyFacts DEF SpawnIsToken, RecallIsToken, ReplicationIsToken
<1>5. StartsEmpty'
  BY <1>1, <1>2, EmptyFacts DEF StartsEmpty
<1>6. NobodyPlaysBeforeInit'
  BY <1>1, EmptyFacts DEF NobodyPlaysBeforeInit
<1>7. SavedIsConsistent'
  BY <1>1 DEF IInv, SavedIsConsistent
<1> QED BY <1>3, <1>4, <1>5, <1>6, <1>7 DEF IInv

(* Loading hands every shard the part of the file that fits the trackers.  *)
LEMMA LoadStep ==
  ASSUME IInv, TypeOK', LoadSnapshot
  PROVE  IInv'
<1> USE DEF boundVars, campaignVars, saveVars, shardVars, netVars
<1>1. /\ phase = "starting" /\ phase' = "loading"
      /\ tracker' = disk.tracker /\ disk.state = "whole"
      /\ UNCHANGED <<statePaused, loaded, entities, paused, toCampaign, disk>>
      /\ \A s \in Shards :
           \/ toShard'[s] = toShard[s]
           \/ toShard'[s] = Append(toShard[s], ShardSnapshot(disk.worlds[s]))
  BY DEF LoadSnapshot, SendWorlds
<1>2. /\ \A s \in Shards : toShard[s] \in Seq(ToShardPacket)
      /\ \A s \in Shards : ShardSnapshot(disk.worlds[s]) \in ToShardPacket
  <2>1. \A s \in Shards : disk.worlds[s] \in WorldSnapshot
    BY DEF IInv, TypeOK, File
  <2> QED BY <2>1, ValueTypes DEF IInv, TypeOK
<1>3. /\ loaded = {}
      /\ \A s \in Shards :
           /\ ~Carries(toShard[s], "ShardSnapshot")
           /\ ~Carries(toShard[s], "Spawn")
           /\ ~Carries(toCampaign[s], "Recalled")
           /\ ~Carries(toCampaign[s], "Replicated")
           /\ ~UnderWay(toShard[s], State(FALSE))
           /\ \A c \in Characters : ~InShard(s, c)
  BY <1>1 DEF IInv, StartsEmpty, NobodyPlaysBeforeInit, PreInit
<1>4. \A s \in Shards :
        /\ ~Carries(toShard'[s], "Spawn")
        /\ ~UnderWay(toShard'[s], State(FALSE))
        /\ AtMostOneOf(toShard'[s], "ShardSnapshot")
        /\ \A c \in Characters : Delivers(toShard'[s], c) => tracker'[c] = s
  <2> SUFFICES ASSUME NEW s \in Shards
               PROVE  /\ ~Carries(toShard'[s], "Spawn")
                      /\ ~UnderWay(toShard'[s], State(FALSE))
                      /\ AtMostOneOf(toShard'[s], "ShardSnapshot")
                      /\ \A c \in Characters : Delivers(toShard'[s], c) => tracker'[c] = s
    OBVIOUS
  <2>1. CASE toShard'[s] = toShard[s]
    BY <1>3, <2>1 DEF AtMostOneOf, Carries, Delivers
  <2>2. CASE toShard'[s] = Append(toShard[s], ShardSnapshot(disk.worlds[s]))
    <3> DEFINE m == ShardSnapshot(disk.worlds[s])
    <3>1. /\ m \in ToShardPacket /\ m.type = "ShardSnapshot" /\ m.world = disk.worlds[s]
          /\ m # State(FALSE)
      BY <1>2, PacketsDiffer
    <3>2. toShard'[s] = Append(toShard[s], m)
      BY <2>2
    <3> HIDE DEF m
    <3>3. LET q == toShard[s] IN
          /\ \A x : UnderWay(Append(q, m), x) <=> UnderWay(q, x) \/ x = m
          /\ \A t : Carries(Append(q, m), t) <=> Carries(q, t) \/ m.type = t
          /\ \A c : Delivers(Append(q, m), c) <=>
                      Delivers(q, c) \/ (m.type = "ShardSnapshot" /\ m.world[c] # "none")
          /\ \A t : AtMostOneOf(q, t) /\ (m.type = t => ~Carries(q, t))
                      => AtMostOneOf(Append(q, m), t)
      BY <1>2, <3>1, AppendFacts
    <3>4. AtMostOneOf(toShard[s], "ShardSnapshot")
      BY DEF IInv, ReplicationIsToken
    <3>5. /\ ~Carries(toShard'[s], "Spawn")
          /\ ~UnderWay(toShard'[s], State(FALSE))
          /\ AtMostOneOf(toShard'[s], "ShardSnapshot")
      BY <1>3, <3>1, <3>2, <3>3, <3>4
    <3>6. ASSUME NEW c \in Characters, Delivers(toShard'[s], c)
          PROVE  tracker'[c] = s
      <4>1. ~Delivers(toShard[s], c)
        BY <1>3 DEF Delivers, Carries
      <4>2. disk.worlds[s][c] # "none"
        BY <3>1, <3>2, <3>3, <3>6, <4>1
      <4> QED BY <1>1, <4>2 DEF IInv, SavedIsConsistent, IsConsistent, PresentAreDeployed
    <3> QED BY <3>5, <3>6
  <2> QED BY <1>1, <2>1, <2>2
<1>5. \A s \in Shards, c \in Characters : ~UnderWay(toShard'[s], Spawn(c))
  <2> SUFFICES ASSUME NEW s \in Shards, NEW c \in Characters,
                      UnderWay(toShard'[s], Spawn(c))
               PROVE  FALSE
    OBVIOUS
  <2>1. Carries(toShard'[s], Spawn(c).type)
    BY UnderWayCarries
  <2> QED BY <1>4, <2>1, PacketsDiffer
<1>6. \A s \in Shards, c \in Characters : ~UnderWay(toCampaign'[s], Recalled(c))
  <2> SUFFICES ASSUME NEW s \in Shards, NEW c \in Characters,
                      UnderWay(toCampaign[s], Recalled(c))
               PROVE  FALSE
    BY <1>1
  <2>1. Carries(toCampaign[s], Recalled(c).type)
    BY UnderWayCarries
  <2> QED BY <1>3, <2>1, PacketsDiffer
<1>7. LiveWhereTracked'
  BY <1>1, <1>3 DEF LiveWhereTracked, InShard
<1>8. SpawnIsToken' /\ RecallIsToken'
  BY <1>5, <1>6 DEF SpawnIsToken, RecallIsToken, AtMostOnce, UnderWay
<1>9. NobodyPlaysBeforeInit'
  <2>1. statePaused /\ \A s \in Shards : paused[s]
    BY <1>1 DEF IInv, NobodyPlaysBeforeInit, PreInit
  <2>2. statePaused'
    BY <1>1, <2>1
  <2>3. \A s \in Shards : paused'[s]
    BY <1>1, <2>1
  <2>4. \A s \in Shards : ~Carries(toCampaign'[s], "Recalled")
    BY <1>1, <1>3
  <2> QED BY <1>4, <2>2, <2>3, <2>4 DEF NobodyPlaysBeforeInit
<1>10. ReplicationIsToken'
  <2>1. \A s \in Shards, c \in Characters : ~InShard(s, c)'
    BY <1>1, <1>3 DEF InShard
  <2> QED BY <1>1, <1>3, <1>4, <2>1 DEF ReplicationIsToken
<1>11. StartsEmpty' /\ SavedIsConsistent'
  BY <1>1 DEF StartsEmpty, IInv, SavedIsConsistent
<1> QED BY <1>7, <1>8, <1>9, <1>10, <1>11 DEF IInv

(* A deployment: the character had no tracker, and so no trace anywhere.   *)
LEMMA DeployStep ==
  ASSUME IInv, TypeOK', NEW s \in Shards, NEW c \in Characters, Deploy(c, s)
  PROVE  IInv'
<1> USE DEF boundVars, campaignVars, saveVars, shardVars, netVars
<1>1. /\ tracker[c] = NoShard /\ tracker' = [tracker EXCEPT ![c] = s]
      /\ UNCHANGED <<phase, loaded, statePaused, entities, paused, toCampaign, disk, cut,
                     answers>>
      /\ Initialized
  BY DEF Deploy, MayDeploy
<1>2. /\ tracker \in [Characters -> Shards \union {NoShard}]
      /\ \A t \in Shards : toShard[t] \in Seq(ToShardPacket)
      /\ Spawn(c) \in ToShardPacket
  BY ValueTypes DEF IInv, TypeOK, Placement
<1>3. \A t \in Shards :
        \/ toShard'[t] = toShard[t]
        \/ t = s /\ toShard'[t] = Append(toShard[t], Spawn(c))
  BY DEF Deploy, SendTo, IInv, TypeOK
<1>4. \A t \in Shards :
        /\ ~InShard(t, c)
        /\ ~UnderWay(toShard[t], Spawn(c))
        /\ ~UnderWay(toCampaign[t], Recalled(c))
        /\ ~Delivers(toShard[t], c)
  BY <1>1, ShardsAssumption
     DEF IInv, LiveWhereTracked, SpawnIsToken, RecallIsToken, ReplicationIsToken
<1>5. \A d \in Characters : d # c => tracker'[d] = tracker[d] /\ Spawn(d) # Spawn(c)
  BY <1>1, <1>2, PacketsDiffer
<1>6. tracker'[c] = s
  BY <1>1, <1>2
<1>7. ASSUME NEW t \in Shards
      PROVE  /\ \A d \in Characters : UnderWay(toShard'[t], Spawn(d)) =>
                  UnderWay(toShard[t], Spawn(d)) \/ (d = c /\ t = s)
             /\ \A d \in Characters : AtMostOnce(toShard'[t], Spawn(d))
             /\ \A d \in Characters : Delivers(toShard'[t], d) => Delivers(toShard[t], d)
             /\ Carries(toShard'[t], "ShardSnapshot") => Carries(toShard[t], "ShardSnapshot")
             /\ AtMostOneOf(toShard'[t], "ShardSnapshot")
  <2>1. /\ \A d \in Characters : AtMostOnce(toShard[t], Spawn(d))
        /\ AtMostOneOf(toShard[t], "ShardSnapshot")
    BY DEF IInv, SpawnIsToken, ReplicationIsToken
  <2>2. CASE toShard'[t] = toShard[t]
    BY <2>1, <2>2
  <2>3. CASE t = s /\ toShard'[t] = Append(toShard[t], Spawn(c))
    <3> DEFINE m == Spawn(c)
    <3>1. /\ m \in ToShardPacket /\ m.type = "Spawn" /\ ~UnderWay(toShard[t], m)
          /\ \A d \in Characters : Spawn(d) = m <=> d = c
      BY <1>2, <1>4, PacketsDiffer
    <3>2. t = s /\ toShard'[t] = Append(toShard[t], m)
      BY <2>3
    <3> HIDE DEF m
    <3>3. LET q == toShard[t] IN
          /\ \A x : UnderWay(Append(q, m), x) <=> UnderWay(q, x) \/ x = m
          /\ \A x : Carries(Append(q, m), x) <=> Carries(q, x) \/ m.type = x
          /\ \A d : Delivers(Append(q, m), d) <=>
                      Delivers(q, d) \/ (m.type = "ShardSnapshot" /\ m.world[d] # "none")
          /\ \A x : AtMostOnce(q, x) /\ (x = m => ~UnderWay(q, x))
                      => AtMostOnce(Append(q, m), x)
          /\ \A x : AtMostOneOf(q, x) /\ (m.type = x => ~Carries(q, x))
                      => AtMostOneOf(Append(q, m), x)
      BY <1>2, <3>1, AppendFacts
    <3> QED BY <2>1, <3>1, <3>2, <3>3
  <2> QED BY <1>3, <2>2, <2>3
<1>8. LiveWhereTracked'
  BY <1>1, <1>4, <1>5 DEF IInv, LiveWhereTracked, InShard
<1>9. SpawnIsToken'
  <2> SUFFICES ASSUME NEW t \in Shards, NEW d \in Characters,
                      UnderWay(toShard'[t], Spawn(d))
               PROVE  tracker'[d] = t /\ ~InShard(t, d)'
    BY <1>7 DEF SpawnIsToken
  <2>1. ~InShard(t, d)' <=> ~InShard(t, d)
    BY <1>1 DEF InShard
  <2>2. CASE d = c
    BY <1>4, <1>6, <1>7, <2>1, <2>2
  <2>3. CASE d # c
    BY <1>5, <1>7, <2>1, <2>3 DEF IInv, SpawnIsToken
  <2> QED BY <2>2, <2>3
<1>10. RecallIsToken'
  <2> SUFFICES ASSUME NEW t \in Shards, NEW d \in Characters
               PROVE  /\ AtMostOnce(toCampaign'[t], Recalled(d))
                      /\ UnderWay(toCampaign'[t], Recalled(d)) =>
                           /\ tracker'[d] = t
                           /\ ~InShard(t, d)'
                           /\ ~UnderWay(toShard'[t], Spawn(d))
    BY DEF RecallIsToken
  <2>1. AtMostOnce(toCampaign'[t], Recalled(d))
    BY <1>1 DEF IInv, RecallIsToken
  <2>2. ASSUME UnderWay(toCampaign'[t], Recalled(d))
        PROVE  /\ tracker'[d] = t
               /\ ~InShard(t, d)'
               /\ ~UnderWay(toShard'[t], Spawn(d))
    <3>1. UnderWay(toCampaign[t], Recalled(d)) /\ d # c
      BY <1>1, <1>4, <2>2
    <3>2. ~InShard(t, d)' <=> ~InShard(t, d)
      BY <1>1 DEF InShard
    <3> QED BY <1>5, <1>7, <3>1, <3>2 DEF IInv, RecallIsToken
  <2> QED BY <2>1, <2>2
<1>11. NobodyPlaysBeforeInit' /\ StartsEmpty' /\ SavedIsConsistent'
  <2>1. ~PreInit' /\ phase' # "starting"
    BY <1>1 DEF Initialized, PreInit
  <2> QED BY <1>1, <2>1
          DEF IInv, NobodyPlaysBeforeInit, StartsEmpty, SavedIsConsistent
<1>12. ReplicationIsToken'
  <2>1. \A t \in Shards, d \in Characters : InShard(t, d)' => InShard(t, d)
    BY <1>1 DEF InShard
  <2> QED BY <1>1, <1>4, <1>5, <1>7, <2>1 DEF IInv, ReplicationIsToken
<1> QED BY <1>8, <1>9, <1>10, <1>11, <1>12 DEF IInv

(* A recall notice is taken for what it says: its deployment is over, and  *)
(* has no other trace.                                                     *)
LEMMA RecalledStep ==
  ASSUME IInv, TypeOK', NEW s \in Shards, ReceiveRecalled(s)
  PROVE  IInv'
<1> USE DEF boundVars, campaignVars, saveVars, shardVars, netVars
<1> DEFINE c == Head(toCampaign[s]).char
<1>1. /\ toCampaign[s] # <<>> /\ toCampaign' = [toCampaign EXCEPT ![s] = Tail(@)]
      /\ Head(toCampaign[s]).type = "Recalled"
      /\ tracker' = [tracker EXCEPT ![c] = NoShard]
      /\ UNCHANGED <<phase, loaded, statePaused, entities, paused, toShard, disk, cut,
                     answers>>
  BY DEF ReceiveRecalled, FromShard
<1>2. c \in Characters /\ Head(toCampaign[s]) = Recalled(c)
  BY <1>1, HeadTypes DEF IInv
<1> HIDE DEF c
<1>3. /\ tracker \in [Characters -> Shards \union {NoShard}]
      /\ toCampaign \in [Shards -> Seq(ToCampaignPacket)]
  BY DEF IInv, TypeOK, Placement
<1>4. /\ \A x : UnderWay(Tail(toCampaign[s]), x) => UnderWay(toCampaign[s], x)
      /\ \A t : Carries(Tail(toCampaign[s]), t) => Carries(toCampaign[s], t)
      /\ \A x : AtMostOnce(toCampaign[s], x) => AtMostOnce(Tail(toCampaign[s]), x)
      /\ AtMostOnce(toCampaign[s], Recalled(c)) => ~UnderWay(Tail(toCampaign[s]), Recalled(c))
      /\ UnderWay(toCampaign[s], Recalled(c))
      /\ Carries(toCampaign[s], "Recalled")
  BY <1>1, <1>2, <1>3, TailFacts
<1>5. /\ toCampaign'[s] = Tail(toCampaign[s])
      /\ \A t \in Shards : t # s => toCampaign'[t] = toCampaign[t]
      /\ \A d \in Characters : d # c => tracker'[d] = tracker[d]
  BY <1>1, <1>2, <1>3
<1>6. /\ tracker[c] = s
      /\ ~InShard(s, c)
      /\ ~UnderWay(toShard[s], Spawn(c))
      /\ ~UnderWay(toCampaign'[s], Recalled(c))
  BY <1>2, <1>4, <1>5 DEF IInv, RecallIsToken
<1>7. \A t \in Shards :
        /\ ~InShard(t, c)
        /\ ~UnderWay(toShard[t], Spawn(c))
        /\ ~UnderWay(toCampaign'[t], Recalled(c))
  BY <1>2, <1>5, <1>6 DEF IInv, LiveWhereTracked, SpawnIsToken, RecallIsToken
<1>8. ~PreInit
  BY <1>4 DEF IInv, NobodyPlaysBeforeInit
<1>9. LiveWhereTracked' /\ SpawnIsToken'
  BY <1>1, <1>5, <1>7 DEF IInv, LiveWhereTracked, SpawnIsToken, InShard
<1>10. RecallIsToken'
  <2> SUFFICES ASSUME NEW t \in Shards, NEW d \in Characters
               PROVE  /\ AtMostOnce(toCampaign'[t], Recalled(d))
                      /\ UnderWay(toCampaign'[t], Recalled(d)) =>
                           /\ tracker'[d] = t
                           /\ ~InShard(t, d)'
                           /\ ~UnderWay(toShard'[t], Spawn(d))
    BY DEF RecallIsToken
  <2>1. AtMostOnce(toCampaign'[t], Recalled(d))
    BY <1>4, <1>5 DEF IInv, RecallIsToken
  <2>2. ASSUME UnderWay(toCampaign'[t], Recalled(d))
        PROVE  /\ tracker'[d] = t
               /\ ~InShard(t, d)'
               /\ ~UnderWay(toShard'[t], Spawn(d))
    <3>1. UnderWay(toCampaign[t], Recalled(d)) /\ d # c
      BY <1>4, <1>5, <1>7, <2>2
    <3>2. ~InShard(t, d)' <=> ~InShard(t, d)
      BY <1>1 DEF InShard
    <3> QED BY <1>1, <1>5, <3>1, <3>2 DEF IInv, RecallIsToken
  <2> QED BY <2>1, <2>2
<1>11. NobodyPlaysBeforeInit' /\ StartsEmpty' /\ SavedIsConsistent'
  <2>1. ~PreInit' /\ phase' # "starting"
    BY <1>1, <1>8 DEF PreInit
  <2> QED BY <1>1, <2>1
          DEF IInv, NobodyPlaysBeforeInit, StartsEmpty, SavedIsConsistent
<1>12. ReplicationIsToken'
  <2>1. \A t \in Shards : ~Carries(toShard'[t], "ShardSnapshot")
    BY <1>1, <1>8 DEF IInv, ReplicationIsToken, PreInit
  <2>2. \A t \in Shards, d \in Characters : ~Delivers(toShard'[t], d)
    BY <2>1 DEF Carries, Delivers
  <2>3. \A t \in Shards : AtMostOneOf(toShard'[t], "ShardSnapshot")
    BY <1>1 DEF IInv, ReplicationIsToken
  <2> QED BY <2>1, <2>2, <2>3 DEF ReplicationIsToken
<1> QED BY <1>9, <1>10, <1>11, <1>12 DEF IInv

(* A spawn request is carried out: the character it named was nowhere, and *)
(* the request is gone when the character is in the world.                 *)
LEMMA SpawnStep ==
  ASSUME IInv, TypeOK', NEW s \in Shards, ReceiveSpawn(s)
  PROVE  IInv'
<1> USE DEF boundVars, campaignVars, saveVars, shardVars, netVars
<1> DEFINE c == Head(toShard[s]).char
<1>1. /\ toShard[s] # <<>> /\ toShard' = [toShard EXCEPT ![s] = Tail(@)]
      /\ Head(toShard[s]).type = "Spawn"
      /\ entities' = [entities EXCEPT ![s][c] = AfterSpawn(@)]
      /\ UNCHANGED <<phase, tracker, loaded, statePaused, paused, toCampaign, disk, cut,
                     answers>>
  BY DEF ReceiveSpawn, FromCampaign
<1>2. c \in Characters /\ Head(toShard[s]) = Spawn(c)
  BY <1>1, HeadTypes DEF IInv
<1> HIDE DEF c
<1>3. /\ entities \in [Shards -> [Characters -> Status]]
      /\ toShard \in [Shards -> Seq(ToShardPacket)]
  BY DEF IInv, TypeOK, World
<1>4. /\ \A x : UnderWay(Tail(toShard[s]), x) => UnderWay(toShard[s], x)
      /\ \A t : Carries(Tail(toShard[s]), t) => Carries(toShard[s], t)
      /\ \A d : Delivers(Tail(toShard[s]), d) => Delivers(toShard[s], d)
      /\ \A x : AtMostOnce(toShard[s], x) => AtMostOnce(Tail(toShard[s]), x)
      /\ \A t : AtMostOneOf(toShard[s], t) => AtMostOneOf(Tail(toShard[s]), t)
      /\ AtMostOnce(toShard[s], Spawn(c)) => ~UnderWay(Tail(toShard[s]), Spawn(c))
      /\ UnderWay(toShard[s], Spawn(c))
      /\ Carries(toShard[s], "Spawn")
  BY <1>1, <1>2, <1>3, TailFacts
<1>5. /\ toShard'[s] = Tail(toShard[s])
      /\ \A t \in Shards : t # s => toShard'[t] = toShard[t]
      /\ \A t \in Shards, d \in Characters :
           t # s \/ d # c => entities'[t][d] = entities[t][d]
  BY <1>1, <1>2, <1>3
<1>6. \A t \in Shards, d \in Characters :
        InShard(t, d)' => InShard(t, d) \/ (t = s /\ d = c)
  BY <1>5 DEF InShard
<1>7. /\ tracker[c] = s
      /\ \A t \in Shards :
           /\ ~UnderWay(toShard'[t], Spawn(c))
           /\ ~UnderWay(toCampaign[t], Recalled(c))
  BY <1>2, <1>4, <1>5 DEF IInv, SpawnIsToken, RecallIsToken
<1>8. ~PreInit
  BY <1>4 DEF IInv, NobodyPlaysBeforeInit
<1>9. \A t \in Shards, d \in Characters :
        /\ AtMostOnce(toShard'[t], Spawn(d))
        /\ UnderWay(toShard'[t], Spawn(d)) => UnderWay(toShard[t], Spawn(d)) /\ d # c
  BY <1>4, <1>5, <1>7 DEF IInv, SpawnIsToken
<1>10. LiveWhereTracked'
  BY <1>1, <1>6, <1>7 DEF IInv, LiveWhereTracked
<1>11. SpawnIsToken'
  BY <1>1, <1>6, <1>9 DEF IInv, SpawnIsToken
<1>12. RecallIsToken'
  BY <1>1, <1>6, <1>7, <1>9 DEF IInv, RecallIsToken
<1>13. NobodyPlaysBeforeInit' /\ StartsEmpty' /\ SavedIsConsistent'
  <2>1. ~PreInit' /\ phase' # "starting"
    BY <1>1, <1>8 DEF PreInit
  <2> QED BY <1>1, <2>1
          DEF IInv, NobodyPlaysBeforeInit, StartsEmpty, SavedIsConsistent
<1>14. ReplicationIsToken'
  <2>1. \A t \in Shards :
          /\ Carries(toShard'[t], "ShardSnapshot") => Carries(toShard[t], "ShardSnapshot")
          /\ AtMostOneOf(toShard'[t], "ShardSnapshot")
          /\ \A d \in Characters : Delivers(toShard'[t], d) => Delivers(toShard[t], d)
    BY <1>4, <1>5 DEF IInv, ReplicationIsToken
  <2>2. \A t \in Shards : ~Carries(toShard'[t], "ShardSnapshot")
    BY <1>8, <2>1 DEF IInv, ReplicationIsToken, PreInit
  <2> QED BY <1>1, <2>1, <2>2 DEF IInv, ReplicationIsToken
<1> QED BY <1>10, <1>11, <1>12, <1>13, <1>14 DEF IInv

(* A recall: the character leaves the world, and the notice is its only    *)
(* trace, if there is one at all.                                          *)
LEMMA RecallStep ==
  ASSUME IInv, TypeOK', NEW s \in Shards, NEW c \in Characters, Recall(s, c)
  PROVE  IInv'
<1> USE DEF boundVars, campaignVars, saveVars, shardVars, netVars
<1>1. /\ ~paused[s] /\ InShard(s, c)
      /\ entities' = [entities EXCEPT ![s][c] = "removed"]
      /\ UNCHANGED <<phase, tracker, loaded, statePaused, paused, toShard, disk, cut,
                     answers>>
  BY DEF Recall, InShard
<1>2. /\ entities \in [Shards -> [Characters -> Status]]
      /\ toCampaign \in [Shards -> Seq(ToCampaignPacket)]
      /\ Recalled(c) \in ToCampaignPacket
  BY ValueTypes DEF IInv, TypeOK, World
<1>3. /\ ~InShard(s, c)'
      /\ \A t \in Shards, d \in Characters : InShard(t, d)' => InShard(t, d)
  BY <1>1, <1>2 DEF InShard, InWorld
<1>4. /\ tracker[c] = s
      /\ ~UnderWay(toShard[s], Spawn(c))
      /\ \A t \in Shards : ~UnderWay(toCampaign[t], Recalled(c))
  BY <1>1 DEF IInv, LiveWhereTracked, SpawnIsToken, RecallIsToken
<1>5. ~PreInit
  BY <1>1 DEF IInv, NobodyPlaysBeforeInit
<1>6. \A t \in Shards :
        \/ toCampaign'[t] = toCampaign[t]
        \/ t = s /\ toCampaign'[t] = Append(toCampaign[t], Recalled(c))
  BY <1>2 DEF Recall, Reply
<1>7. ASSUME NEW t \in Shards, NEW d \in Characters
      PROVE  /\ AtMostOnce(toCampaign'[t], Recalled(d))
             /\ UnderWay(toCampaign'[t], Recalled(d)) =>
                  UnderWay(toCampaign[t], Recalled(d)) \/ (t = s /\ d = c)
             /\ Carries(toCampaign'[t], "Replicated") => Carries(toCampaign[t], "Replicated")
  <2>1. AtMostOnce(toCampaign[t], Recalled(d))
    BY DEF IInv, RecallIsToken
  <2>2. CASE toCampaign'[t] = toCampaign[t]
    BY <2>1, <2>2
  <2>3. CASE t = s /\ toCampaign'[t] = Append(toCampaign[t], Recalled(c))
    <3> DEFINE m == Recalled(c)
    <3>1. /\ m \in ToCampaignPacket /\ m.type = "Recalled" /\ ~UnderWay(toCampaign[t], m)
          /\ Recalled(d) = m <=> d = c
      BY <1>2, <1>4, PacketsDiffer
    <3>2. t = s /\ toCampaign'[t] = Append(toCampaign[t], m)
      BY <2>3
    <3> HIDE DEF m
    <3>3. LET q == toCampaign[t] IN
          /\ \A x : UnderWay(Append(q, m), x) <=> UnderWay(q, x) \/ x = m
          /\ \A x : Carries(Append(q, m), x) <=> Carries(q, x) \/ m.type = x
          /\ \A x : AtMostOnce(q, x) /\ (x = m => ~UnderWay(q, x))
                      => AtMostOnce(Append(q, m), x)
      BY <1>2, <3>1, AppendFacts
    <3> QED BY <2>1, <3>1, <3>2, <3>3
  <2> QED BY <1>6, <2>2, <2>3
<1>8. LiveWhereTracked' /\ SpawnIsToken'
  BY <1>1, <1>3 DEF IInv, LiveWhereTracked, SpawnIsToken
<1>9. RecallIsToken'
  BY <1>1, <1>3, <1>4, <1>7 DEF IInv, RecallIsToken
<1>10. NobodyPlaysBeforeInit' /\ StartsEmpty' /\ SavedIsConsistent'
  <2>1. ~PreInit' /\ phase' # "starting"
    BY <1>1, <1>5 DEF PreInit
  <2> QED BY <1>1, <2>1
          DEF IInv, NobodyPlaysBeforeInit, StartsEmpty, SavedIsConsistent
<1>11. ReplicationIsToken'
  BY <1>1, <1>3, <1>7 DEF IInv, ReplicationIsToken
<1> QED BY <1>8, <1>9, <1>10, <1>11 DEF IInv

(* What a shard's world holds after it took a snapshot it held before, or  *)
(* the snapshot holds: whether the replication went through or was thrown  *)
(* out of.                                                                 *)
LEMMA ReplicaFacts ==
  ASSUME NEW w \in World, NEW snapshot \in WorldSnapshot, NEW c \in Characters,
         NEW late \in SUBSET {d \in Characters : snapshot[d] = "removed"},
         Replica(w, [d \in Characters |-> IF d \in late THEN "live" ELSE snapshot[d]])[c]
           \in InWorld
  PROVE  w[c] \in InWorld \/ snapshot[c] # "none"
BY DEF Replica, World, WorldSnapshot, Status, InWorld

(* A shard takes its snapshot: everyone in it is deployed there.           *)
LEMMA ReplicateStep ==
  ASSUME IInv, TypeOK', NEW s \in Shards, ReceiveReplicate(s) \/ ReplicateThrows(s)
  PROVE  IInv'
<1> USE DEF boundVars, campaignVars, saveVars, shardVars, netVars
<1>1. /\ toShard[s] # <<>> /\ toShard' = [toShard EXCEPT ![s] = Tail(@)]
      /\ Head(toShard[s]).type = "ShardSnapshot"
      /\ UNCHANGED <<phase, tracker, loaded, statePaused, paused, disk, cut, answers>>
  BY DEF ReceiveReplicate, ReplicateThrows, FromCampaign
<1>2. /\ entities \in [Shards -> World]
      /\ toShard \in [Shards -> Seq(ToShardPacket)]
      /\ toCampaign \in [Shards -> Seq(ToCampaignPacket)]
      /\ Head(toShard[s]).world \in WorldSnapshot
  BY <1>1, HeadTypes DEF IInv, TypeOK
<1>3. /\ \A x : UnderWay(Tail(toShard[s]), x) => UnderWay(toShard[s], x)
      /\ \A t : Carries(Tail(toShard[s]), t) => Carries(toShard[s], t)
      /\ \A d : Delivers(Tail(toShard[s]), d) => Delivers(toShard[s], d)
      /\ \A t : AtMostOneOf(toShard[s], t) => AtMostOneOf(Tail(toShard[s]), t)
      /\ AtMostOneOf(toShard[s], "ShardSnapshot") => ~Carries(Tail(toShard[s]), "ShardSnapshot")
      /\ Carries(toShard[s], "ShardSnapshot")
      /\ \A c : Head(toShard[s]).world[c] # "none" => Delivers(toShard[s], c)
  BY <1>1, <1>2, TailFacts
<1>4. /\ toShard'[s] = Tail(toShard[s])
      /\ \A t \in Shards : t # s => toShard'[t] = toShard[t]
  BY <1>1, <1>2
<1>5. /\ phase \in {"loading", "initFailed"}
      /\ ~Carries(toShard'[s], "ShardSnapshot")
  BY <1>3, <1>4 DEF IInv, ReplicationIsToken
<1>6. /\ statePaused /\ \A t \in Shards : paused[t]
      /\ \A t \in Shards :
           /\ ~UnderWay(toShard'[t], State(FALSE))
           /\ ~Carries(toShard'[t], "Spawn")
           /\ ~Carries(toCampaign[t], "Recalled")
  BY <1>3, <1>4, <1>5 DEF IInv, NobodyPlaysBeforeInit, PreInit
<1>7. \A c \in Characters : InShard(s, c)' => InShard(s, c) \/ Delivers(toShard[s], c)
  <2> DEFINE w == entities[s]
             snapshot == Head(toShard[s]).world
  <2>1. w \in World /\ snapshot \in WorldSnapshot
    BY <1>2
  <2>2. \E late \in SUBSET {d \in Characters : snapshot[d] = "removed"} :
          entities'[s] =
            Replica(w, [d \in Characters |-> IF d \in late THEN "live" ELSE snapshot[d]])
    <3>1. CASE ReceiveReplicate(s)
      <4>1. entities'[s] = Replica(w, snapshot)
        BY <1>2, <3>1 DEF ReceiveReplicate
      <4>2. snapshot = [d \in Characters |-> IF d \in {} THEN "live" ELSE snapshot[d]]
        BY <2>1 DEF WorldSnapshot
      <4> HIDE DEF w, snapshot
      <4>3. entities'[s] =
              Replica(w, [d \in Characters |-> IF d \in {} THEN "live" ELSE snapshot[d]])
        BY <4>1, <4>2, Zenon
      <4>4. {} \in SUBSET {d \in Characters : snapshot[d] = "removed"}
        OBVIOUS
      <4> QED BY <4>3, <4>4, Zenon
    <3>2. CASE ReplicateThrows(s)
      BY <1>2, <3>2 DEF ReplicateThrows
    <3> QED BY <3>1, <3>2
  <2> HIDE DEF w, snapshot
  <2>3. ASSUME NEW c \in Characters, InShard(s, c)'
        PROVE  w[c] \in InWorld \/ snapshot[c] # "none"
    BY <2>1, <2>2, <2>3, ReplicaFacts DEF InShard
  <2> QED BY <1>3, <2>3 DEF InShard, w, snapshot
<1>8. \A t \in Shards, c \in Characters :
        t # s => (InShard(t, c)' => InShard(t, c))
  BY <1>2 DEF ReceiveReplicate, ReplicateThrows, InShard
<1>9. LiveWhereTracked'
  BY <1>1, <1>7, <1>8 DEF IInv, LiveWhereTracked, ReplicationIsToken
<1>10. \A t \in Shards :
         /\ ~Carries(toCampaign'[t], "Recalled")
         /\ Carries(toCampaign'[t], "Replicated") => Carries(toCampaign[t], "Replicated") \/ t = s
  <2> SUFFICES ASSUME NEW t \in Shards
               PROVE  /\ ~Carries(toCampaign'[t], "Recalled")
                      /\ Carries(toCampaign'[t], "Replicated") =>
                           Carries(toCampaign[t], "Replicated") \/ t = s
    OBVIOUS
  <2>1. \/ toCampaign'[t] = toCampaign[t]
        \/ t = s /\ toCampaign'[t] = Append(toCampaign[t], Replicated)
    BY <1>2 DEF ReceiveReplicate, ReplicateThrows, Reply
  <2>2. Replicated \in ToCampaignPacket /\ Replicated.type = "Replicated"
    BY ValueTypes, PacketsDiffer
  <2>3. \A x : Carries(Append(toCampaign[t], Replicated), x) <=>
                 Carries(toCampaign[t], x) \/ Replicated.type = x
    BY <1>2, <2>2, AppendFacts
  <2> QED BY <1>6, <2>1, <2>2, <2>3
<1>11. \A t \in Shards, c \in Characters :
         ~UnderWay(toShard'[t], Spawn(c)) /\ ~UnderWay(toCampaign'[t], Recalled(c))
  <2> TAKE t \in Shards, c \in Characters
  <2>1. UnderWay(toShard'[t], Spawn(c)) => Carries(toShard'[t], Spawn(c).type)
    BY UnderWayCarries
  <2>2. UnderWay(toCampaign'[t], Recalled(c)) => Carries(toCampaign'[t], Recalled(c).type)
    BY UnderWayCarries
  <2> QED BY <1>6, <1>10, <2>1, <2>2, PacketsDiffer
<1>12. SpawnIsToken' /\ RecallIsToken'
  BY <1>11 DEF SpawnIsToken, RecallIsToken, AtMostOnce, UnderWay
<1>13. NobodyPlaysBeforeInit'
  <2>1. statePaused'
    BY <1>1, <1>6
  <2>2. \A t \in Shards : paused'[t]
    BY <1>1, <1>6
  <2> QED BY <1>6, <1>10, <2>1, <2>2 DEF NobodyPlaysBeforeInit
<1>14. ReplicationIsToken'
  <2>1. \A t \in Shards :
          /\ Carries(toShard'[t], "ShardSnapshot") => t # s /\ Carries(toShard[t], "ShardSnapshot")
          /\ AtMostOneOf(toShard'[t], "ShardSnapshot")
          /\ \A c \in Characters : Delivers(toShard'[t], c) => Delivers(toShard[t], c)
    BY <1>3, <1>4, <1>5 DEF IInv, ReplicationIsToken
  <2> QED BY <1>1, <1>8, <1>10, <2>1 DEF IInv, ReplicationIsToken
<1>15. StartsEmpty' /\ SavedIsConsistent'
  BY <1>1, <1>5 DEF StartsEmpty, IInv, SavedIsConsistent
<1> QED BY <1>9, <1>12, <1>13, <1>14, <1>15 DEF IInv

(* Every step keeps the invariant.                                         *)
LEMMA StepInv ==
  ASSUME IInv, [Next]_vars
  PROVE  IInv'
<1>1. TypeOK'
  BY TypeStep DEF IInv
<1>2. CASE Restart
  BY <1>1, <1>2, RestartStep
<1>3. CASE CampaignServerStep
  BY <1>1, <1>3, LocalStep, LoadStep, PublishStep, AttemptStep DEF CampaignServerStep
<1>4. ASSUME NEW s \in Shards, ReceiveFromShard(s) PROVE IInv'
  BY <1>1, <1>4, RecalledStep, QuietNetworkStep, ReplicatedStep DEF ReceiveFromShard
<1>5. ASSUME NEW s \in Shards, ShardStep(s) PROVE IInv'
  BY <1>1, <1>5, SpawnStep, QuietNetworkStep, StateStep, ReplicateStep, RecallStep,
     EntityLost DEF ShardStep
<1>6. ASSUME NEW s \in Shards, Disconnect(s) \/ Reconnect(s) PROVE IInv'
  BY <1>1, <1>6, QuietNetworkStep
<1>7. ASSUME NEW s \in Shards, NEW c \in Characters, Deploy(c, s) PROVE IInv'
  BY <1>1, <1>7, DeployStep
<1>8. CASE UNCHANGED vars
  BY <1>8 DEF vars, campaignVars, saveVars, shardVars, netVars, boundVars, IInv, TypeOK,
     LiveWhereTracked, SpawnIsToken, RecallIsToken, NobodyPlaysBeforeInit, StartsEmpty,
     ReplicationIsToken, SavedIsConsistent, PreInit, InShard
<1> QED BY <1>2, <1>3, <1>4, <1>5, <1>6, <1>7, <1>8 DEF Next

(* The invariant holds in every state of every behaviour.                 *)
THEOREM InductiveInvariant == Spec => []IInv
<1>1. IInv /\ [Next]_vars => IInv'
  BY StepInv
<1> QED BY InitInv, <1>1, PTL DEF Spec

(* A character lives in the world of one shard at most, its tracker's.     *)
THEOREM NoSecondCopy == Spec => []LiveWhereTracked
<1>1. IInv => LiveWhereTracked
  BY DEF IInv
<1> QED BY InductiveInvariant, <1>1, PTL

(* A shard is never asked to spawn a character that is in its world.       *)
THEOREM SpawnNeverThrows == Spec => []SpawnFindsNoEntity
<1>1. IInv => SpawnFindsNoEntity
  BY DEF IInv, SpawnIsToken, SpawnFindsNoEntity
<1> QED BY InductiveInvariant, <1>1, PTL

(* A tracker is cleared only by a notice from the shard it names.          *)
THEOREM OwnRecallOnly == Spec => RecallClearsOwnDeployment
<1> DEFINE Step == \A s \in Shards, c \in Characters :
                     /\ tracker[c] = s
                     /\ tracker'[c] # s
                     /\ phase' # "starting"
                     => /\ tracker'[c] = NoShard
                        /\ toCampaign[s] # <<>>
                        /\ Head(toCampaign[s]) = Recalled(c)
<1> USE DEF boundVars, campaignVars, saveVars, shardVars, netVars
<1>1. ASSUME IInv, [Next]_vars PROVE Step
  <2> SUFFICES ASSUME NEW s \in Shards, NEW c \in Characters,
                      tracker[c] = s, tracker'[c] # s, phase' # "starting"
               PROVE  /\ tracker'[c] = NoShard
                      /\ toCampaign[s] # <<>>
                      /\ Head(toCampaign[s]) = Recalled(c)
    OBVIOUS
  <2>1. tracker \in [Characters -> Shards \union {NoShard}]
    BY <1>1 DEF IInv, TypeOK, Placement
  <2>2. tracker' # tracker
    OBVIOUS
  <2>3. ASSUME NEW t \in Shards, ReceiveRecalled(t)
        PROVE  /\ tracker'[c] = NoShard
               /\ toCampaign[s] # <<>>
               /\ Head(toCampaign[s]) = Recalled(c)
    <3> DEFINE d == Head(toCampaign[t]).char
    <3>1. /\ toCampaign[t] # <<>>
          /\ Head(toCampaign[t]).type = "Recalled"
          /\ tracker' = [tracker EXCEPT ![d] = NoShard]
      BY <2>3 DEF ReceiveRecalled, FromShard
    <3>2. d \in Characters /\ Head(toCampaign[t]) = Recalled(d)
      BY <1>1, <3>1, HeadTypes DEF IInv
    <3> HIDE DEF d
    <3>3. d = c /\ tracker'[c] = NoShard
      BY <2>1, <3>1, <3>2
    <3>4. UnderWay(toCampaign[t], Recalled(d))
      <4>1. toCampaign[t] \in Seq(ToCampaignPacket)
        BY <1>1 DEF IInv, TypeOK
      <4>2. UnderWay(toCampaign[t], Head(toCampaign[t]))
        BY <3>1, <4>1, TailFacts
      <4> QED BY <3>2, <4>2
    <3>5. t = s
      BY <1>1, <3>2, <3>3, <3>4 DEF IInv, RecallIsToken
    <3> QED BY <3>1, <3>2, <3>3, <3>5
  <2>4. ASSUME NEW t \in Shards, NEW d \in Characters, Deploy(d, t)
        PROVE  FALSE
    <3>1. tracker[d] = NoShard /\ tracker' = [tracker EXCEPT ![d] = t]
      BY <2>4 DEF Deploy, MayDeploy
    <3>2. d = c
      BY <2>1, <3>1
    <3> QED BY <3>1, <3>2, ShardsAssumption
  <2>5. CASE LoadSnapshot
    <3>1. tracker = NotDeployed
      BY <1>1, <2>5 DEF LoadSnapshot, IInv, StartsEmpty
    <3> QED BY <3>1, ShardsAssumption DEF NotDeployed
  <2>6. CASE Restart
    BY <2>6 DEF Restart, FreshCluster
  <2>7. \A t \in Shards, d \in Characters :
          ~(\/ ReceiveShardSnapshot(t) \/ ReceiveReplicated(t)
            \/ Disconnect(t) \/ Reconnect(t)
            \/ Recall(t, d) \/ Die(t, d) \/ Collect(t, d))
    BY <2>2 DEF ReceiveShardSnapshot, ReceiveReplicated, Disconnect, Reconnect, Recall, Die,
                Collect
  <2>8. \A t \in Shards :
          ~(\/ ReceiveSpawn(t) \/ ReceiveSnapshotRequest(t) \/ ReceiveState(t)
            \/ ReceiveReplicate(t) \/ ReplicateThrows(t)
            \/ ReceiveShardSnapshot(t) \/ ReceiveReplicated(t) \/ Disconnect(t) \/ Reconnect(t))
    BY <2>2 DEF ReceiveSpawn, ReceiveSnapshotRequest, ReceiveState, ReceiveReplicate,
                ReplicateThrows, ReceiveShardSnapshot, ReceiveReplicated, Disconnect, Reconnect
  <2>9. CampaignServerStep => LoadSnapshot
    BY <2>2 DEF CampaignServerStep, StartNewCampaign, LoadTornSnapshot, FinishLoading,
                LoadTimeout, Unpause, PublishState, EndSession, FinishAttempt, CollectTimeout,
                Retry, GiveUp, WriteSnapshot, CrashWhileWriting
  <2>10. Next
    BY <1>1, <2>2 DEF vars
  <2> QED BY <2>3, <2>4, <2>5, <2>6, <2>7, <2>8, <2>9, <2>10
          DEF Next, ReceiveFromShard, ShardStep
<1> QED BY <1>1, InductiveInvariant, PTL DEF Spec, RecallClearsOwnDeployment

-----------------------------------------------------------------------------
(***************************************************************************)
(* Snapshot requests and answers.                                          *)
(***************************************************************************)

(* Nothing happens to a channel, it loses its first packet, it breaks, or a*)
(* packet of another type is sent: no packet of type t joins it.           *)
NoMoreOf(r, q, t) ==
  /\ Carries(r, t) => Carries(q, t)
  /\ AtMostOneOf(q, t) => AtMostOneOf(r, t)

LEMMA NoMoreOfFacts ==
  ASSUME NEW S, NEW q \in Seq(S), NEW r, NEW t,
         \/ r = q
         \/ r = <<>>
         \/ q # <<>> /\ r = Tail(q)
         \/ \E m \in S : m.type # t /\ r = Append(q, m)
  PROVE  NoMoreOf(r, q, t)
<1>1. CASE r = q
  BY <1>1 DEF NoMoreOf
<1>2. CASE r = <<>>
  BY <1>2, EmptyFacts DEF NoMoreOf
<1>3. CASE q # <<>> /\ r = Tail(q)
  BY <1>3, TailFacts DEF NoMoreOf
<1>4. CASE \E m \in S : m.type # t /\ r = Append(q, m)
  <2>1. PICK m \in S : m.type # t /\ r = Append(q, m)
    BY <1>4
  <2> QED BY <2>1, AppendFacts DEF NoMoreOf
<1> QED BY <1>1, <1>2, <1>3, <1>4

(* The requests and answers of shard s stay matched while none is added and*)
(* those that may be awaited still may.                                    *)
LEMMA StaysMatched ==
  ASSUME NEW s \in Shards, AnswerMatchesRequest(s),
         NoMoreOf(toShard'[s], toShard[s], "SnapshotRequest"),
         NoMoreOf(toCampaign'[s], toCampaign[s], "ShardSnapshot"),
         Awaited(s) => Awaited(s)'
  PROVE  AnswerMatchesRequest(s)'
BY DEF AnswerMatchesRequest, NoMoreOf

(* An attempt starts when no request and no answer is under way.           *)
LEMMA BeginMatched ==
  ASSUME TypeOK, AnswersMatchRequests, BeginAttempt, toCampaign' = toCampaign,
         phase \in {"running", "retrying"}, NEW s \in Shards
  PROVE  AnswerMatchesRequest(s)'
<1>1. /\ ~Carries(toShard[s], "SnapshotRequest")
      /\ ~Carries(toCampaign[s], "ShardSnapshot")
  BY DEF AnswersMatchRequests, AnswerMatchesRequest, Awaited
<1>2. AtMostOneOf(toShard[s], "SnapshotRequest") /\ AtMostOneOf(toCampaign[s], "ShardSnapshot")
  BY DEF AnswersMatchRequests, AnswerMatchesRequest
<1>3. /\ toShard[s] \in Seq(ToShardPacket)
      /\ SnapshotRequest \in ToShardPacket
      /\ SnapshotRequest.type = "SnapshotRequest"
  BY ValueTypes, PacketsDiffer DEF TypeOK
<1>4. toShard'[s] = toShard[s] \/ toShard'[s] = Append(toShard[s], SnapshotRequest)
  BY DEF BeginAttempt, Broadcast
<1>5. AtMostOneOf(toShard'[s], "SnapshotRequest")
  <2>1. AtMostOneOf(Append(toShard[s], SnapshotRequest), "SnapshotRequest")
    BY <1>1, <1>2, <1>3, AppendFacts
  <2> QED BY <1>2, <1>4, <2>1
<1>6. Awaited(s)'
  BY DEF BeginAttempt, Awaited
<1> QED BY <1>1, <1>2, <1>5, <1>6 DEF AnswerMatchesRequest

(* A shard answers: the request leaves one channel, the answer enters the  *)
(* other.                                                                  *)
LEMMA AnswerMatched ==
  ASSUME TypeOK, AnswersMatchRequests, NEW s \in Shards, ReceiveSnapshotRequest(s),
         NEW t \in Shards
  PROVE  AnswerMatchesRequest(t)'
<1> USE DEF boundVars, campaignVars, saveVars, shardVars, netVars
<1> DEFINE m == ShardSnapshot(ToSnapshot(entities[s]))
<1>1. /\ toShard[s] # <<>>
      /\ Head(toShard[s]).type = "SnapshotRequest"
      /\ toShard' = [toShard EXCEPT ![s] = Tail(@)]
      /\ toCampaign' = Reply(s, m)
      /\ phase' = phase /\ answered' = answered
  BY DEF ReceiveSnapshotRequest, FromCampaign
<1>2. /\ toShard \in [Shards -> Seq(ToShardPacket)]
      /\ toCampaign \in [Shards -> Seq(ToCampaignPacket)]
  BY DEF TypeOK
<1>3. m \in ToCampaignPacket /\ m.type = "ShardSnapshot"
  BY ValueTypes, PacketsDiffer DEF TypeOK
<1> HIDE DEF m
<1>4. Awaited(t) <=> Awaited(t)'
  BY <1>1 DEF Awaited
<1>5. CASE t # s
  <2>1. toShard'[t] = toShard[t] /\ toCampaign'[t] = toCampaign[t]
    BY <1>1, <1>2, <1>5 DEF Reply
  <2>2. /\ NoMoreOf(toShard'[t], toShard[t], "SnapshotRequest")
        /\ NoMoreOf(toCampaign'[t], toCampaign[t], "ShardSnapshot")
    BY <2>1 DEF NoMoreOf
  <2> QED BY <1>4, <2>2, StaysMatched DEF AnswersMatchRequests
<1>6. CASE t = s
  <2>1. /\ Carries(toShard[s], "SnapshotRequest")
        /\ AtMostOneOf(toShard[s], "SnapshotRequest") =>
             /\ ~Carries(Tail(toShard[s]), "SnapshotRequest")
             /\ AtMostOneOf(Tail(toShard[s]), "SnapshotRequest")
    BY <1>1, <1>2, TailFacts
  <2>2. /\ AtMostOneOf(toShard[s], "SnapshotRequest")
        /\ AtMostOneOf(toCampaign[s], "ShardSnapshot")
        /\ Awaited(s)
        /\ ~Carries(toCampaign[s], "ShardSnapshot")
    BY <2>1 DEF AnswersMatchRequests, AnswerMatchesRequest
  <2>3. toShard'[s] = Tail(toShard[s])
    BY <1>1, <1>2
  <2>4. toCampaign'[s] = toCampaign[s] \/ toCampaign'[s] = Append(toCampaign[s], m)
    BY <1>1, <1>2 DEF Reply
  <2>5. AtMostOneOf(toCampaign'[s], "ShardSnapshot")
    <3>1. AtMostOneOf(Append(toCampaign[s], m), "ShardSnapshot")
      BY <1>2, <1>3, <2>2, AppendFacts
    <3> QED BY <2>2, <2>4, <3>1
  <2>6. AnswerMatchesRequest(s)'
    BY <1>4, <1>6, <2>1, <2>2, <2>3, <2>5 DEF AnswerMatchesRequest
  <2> QED BY <1>6, <2>6
<1> QED BY <1>5, <1>6

(* The campaign server takes an answer: it is no longer awaited, and none  *)
(* is under way.                                                           *)
LEMMA AnswerTaken ==
  ASSUME TypeOK, AnswersMatchRequests, NEW s \in Shards, ReceiveShardSnapshot(s),
         NEW t \in Shards
  PROVE  AnswerMatchesRequest(t)'
<1> USE DEF boundVars, campaignVars, saveVars, shardVars, netVars
<1>1. /\ toCampaign[s] # <<>>
      /\ Head(toCampaign[s]).type = "ShardSnapshot"
      /\ toCampaign' = [toCampaign EXCEPT ![s] = Tail(@)]
      /\ toShard' = toShard
      /\ phase' = phase
      /\ answered' = answered \/ answered' = answered \union {s}
  BY DEF ReceiveShardSnapshot, FromShard
<1>2. toCampaign \in [Shards -> Seq(ToCampaignPacket)]
  BY DEF TypeOK
<1>3. CASE t # s
  <2>1. toCampaign'[t] = toCampaign[t]
    BY <1>1, <1>2, <1>3
  <2>2. /\ NoMoreOf(toShard'[t], toShard[t], "SnapshotRequest")
        /\ NoMoreOf(toCampaign'[t], toCampaign[t], "ShardSnapshot")
    BY <1>1, <2>1 DEF NoMoreOf
  <2>3. Awaited(t) => Awaited(t)'
    BY <1>1, <1>3 DEF Awaited
  <2> QED BY <2>2, <2>3, StaysMatched DEF AnswersMatchRequests
<1>4. CASE t = s
  <2>1. /\ Carries(toCampaign[s], "ShardSnapshot")
        /\ AtMostOneOf(toCampaign[s], "ShardSnapshot") =>
             /\ ~Carries(Tail(toCampaign[s]), "ShardSnapshot")
             /\ AtMostOneOf(Tail(toCampaign[s]), "ShardSnapshot")
    BY <1>1, <1>2, TailFacts
  <2>2. /\ AtMostOneOf(toCampaign[s], "ShardSnapshot")
        /\ AtMostOneOf(toShard[s], "SnapshotRequest")
        /\ ~Carries(toShard[s], "SnapshotRequest")
    BY <2>1 DEF AnswersMatchRequests, AnswerMatchesRequest
  <2>3. toCampaign'[s] = Tail(toCampaign[s]) /\ toShard'[s] = toShard[s]
    BY <1>1, <1>2
  <2>4. AnswerMatchesRequest(s)'
    BY <2>1, <2>2, <2>3 DEF AnswerMatchesRequest
  <2> QED BY <1>4, <2>4
<1> QED BY <1>3, <1>4

(* Every step keeps requests and answers matched.                          *)
LEMMA MatchStep ==
  ASSUME TypeOK, AnswersMatchRequests, [Next]_vars
  PROVE  AnswersMatchRequests'
<1> USE DEF boundVars, campaignVars, saveVars, shardVars, netVars
<1>1. /\ toShard \in [Shards -> Seq(ToShardPacket)]
      /\ toCampaign \in [Shards -> Seq(ToCampaignPacket)]
  BY DEF TypeOK
<1> DEFINE Quiet(t) == /\ NoMoreOf(toShard'[t], toShard[t], "SnapshotRequest")
                       /\ NoMoreOf(toCampaign'[t], toCampaign[t], "ShardSnapshot")
                       /\ Awaited(t) => Awaited(t)'
<1>2. ASSUME \A t \in Shards : Quiet(t) PROVE AnswersMatchRequests'
  BY <1>2, StaysMatched DEF AnswersMatchRequests
<1>3. ASSUME \A t \in Shards :
               /\ \/ toShard'[t] = toShard[t]
                  \/ toShard'[t] = <<>>
                  \/ toShard[t] # <<>> /\ toShard'[t] = Tail(toShard[t])
                  \/ \E m \in ToShardPacket :
                       m.type # "SnapshotRequest" /\ toShard'[t] = Append(toShard[t], m)
               /\ \/ toCampaign'[t] = toCampaign[t]
                  \/ toCampaign'[t] = <<>>
                  \/ toCampaign[t] # <<>> /\ toCampaign'[t] = Tail(toCampaign[t])
                  \/ \E m \in ToCampaignPacket :
                       m.type # "ShardSnapshot" /\ toCampaign'[t] = Append(toCampaign[t], m)
               /\ Awaited(t) => Awaited(t)'
      PROVE  AnswersMatchRequests'
  <2>1. ASSUME NEW t \in Shards PROVE Quiet(t)
    <3>1. toShard[t] \in Seq(ToShardPacket) /\ toCampaign[t] \in Seq(ToCampaignPacket)
      BY <1>1
    <3>2. NoMoreOf(toShard'[t], toShard[t], "SnapshotRequest")
      BY <1>3, <3>1, NoMoreOfFacts
    <3>3. NoMoreOf(toCampaign'[t], toCampaign[t], "ShardSnapshot")
      BY <1>3, <3>1, NoMoreOfFacts
    <3> QED BY <1>3, <3>2, <3>3
  <2> QED BY <1>2, <2>1
<1> HIDE DEF Quiet
<1>4. CASE Restart
  <2>1. \A t \in Shards : toShard'[t] = <<>> /\ toCampaign'[t] = <<>>
    BY <1>4 DEF Restart, FreshCluster
  <2> QED BY <2>1, EmptyFacts DEF AnswersMatchRequests, AnswerMatchesRequest
<1>5. CASE \/ StartNewCampaign \/ LoadTornSnapshot \/ FinishLoading \/ LoadTimeout
           \/ Unpause \/ FinishAttempt \/ CollectTimeout \/ GiveUp
           \/ WriteSnapshot \/ CrashWhileWriting
  <2>1. toShard' = toShard /\ toCampaign' = toCampaign
    BY <1>5 DEF StartNewCampaign, LoadTornSnapshot, FinishLoading, LoadTimeout, Unpause,
                FinishAttempt, CollectTimeout, GiveUp, WriteSnapshot, CrashWhileWriting
  <2>2. \A t \in Shards : Awaited(t) => Awaited(t)'
    BY <1>5 DEF StartNewCampaign, LoadTornSnapshot, FinishLoading, LoadTimeout, Unpause,
                FinishAttempt, CollectTimeout, GiveUp, WriteSnapshot, CrashWhileWriting,
                AllAnswered, Awaited
  <2> QED BY <1>3, <2>1, <2>2
<1>6. CASE LoadSnapshot
  <2>1. ASSUME NEW t \in Shards
        PROVE  \/ toShard'[t] = toShard[t]
               \/ \E m \in ToShardPacket :
                    m.type # "SnapshotRequest" /\ toShard'[t] = Append(toShard[t], m)
    <3> DEFINE m == ShardSnapshot(disk.worlds[t])
    <3>1. m \in ToShardPacket /\ m.type # "SnapshotRequest"
      BY ValueTypes, PacketsDiffer DEF TypeOK, File
    <3>2. toShard'[t] = toShard[t] \/ toShard'[t] = Append(toShard[t], m)
      BY <1>6 DEF LoadSnapshot, SendWorlds
    <3> HIDE DEF m
    <3> QED BY <3>1, <3>2
  <2>2. toCampaign' = toCampaign /\ phase = "starting"
    BY <1>6 DEF LoadSnapshot
  <2>3. \A t \in Shards : ~Awaited(t)
    BY <2>2 DEF Awaited
  <2> QED BY <1>3, <2>1, <2>2, <2>3
<1>7. CASE PublishState
  <2>1. /\ State(statePaused) \in ToShardPacket
        /\ State(statePaused).type # "SnapshotRequest"
    BY ValueTypes, PacketsDiffer DEF TypeOK
  <2>2. \A t \in Shards : \/ toShard'[t] = toShard[t]
                          \/ toShard'[t] = Append(toShard[t], State(statePaused))
    BY <1>7 DEF PublishState, SendState
  <2>3. toCampaign' = toCampaign /\ \A t \in Shards : Awaited(t) <=> Awaited(t)'
    BY <1>7 DEF PublishState, Awaited
  <2> QED BY <1>3, <2>1, <2>2, <2>3
<1>8. CASE EndSession \/ Retry
  <2>1. /\ BeginAttempt
        /\ toCampaign' = toCampaign
        /\ phase \in {"running", "retrying"}
    BY <1>8 DEF EndSession, Retry
  <2> QED BY <2>1, BeginMatched DEF AnswersMatchRequests
<1>9. ASSUME NEW s \in Shards, ReceiveShardSnapshot(s) PROVE AnswersMatchRequests'
  BY <1>9, AnswerTaken DEF AnswersMatchRequests
<1>10. ASSUME NEW s \in Shards, ReceiveRecalled(s) \/ ReceiveReplicated(s)
       PROVE  AnswersMatchRequests'
  <2>1. /\ toCampaign[s] # <<>>
        /\ toCampaign' = [toCampaign EXCEPT ![s] = Tail(@)]
        /\ UNCHANGED <<toShard, phase, answered>>
    BY <1>10 DEF ReceiveRecalled, ReceiveReplicated, FromShard
  <2>2. \A t \in Shards : \/ toCampaign'[t] = toCampaign[t]
                          \/ toCampaign[t] # <<>> /\ toCampaign'[t] = Tail(toCampaign[t])
    BY <1>1, <2>1
  <2>3. \A t \in Shards : Awaited(t) <=> Awaited(t)'
    BY <2>1 DEF Awaited
  <2> QED BY <1>3, <2>1, <2>2, <2>3
<1>11. ASSUME NEW s \in Shards, ReceiveSnapshotRequest(s) PROVE AnswersMatchRequests'
  BY <1>11, AnswerMatched DEF AnswersMatchRequests
<1>12. ASSUME NEW s \in Shards,
              \/ ReceiveSpawn(s) \/ ReceiveState(s) \/ ReceiveReplicate(s)
              \/ ReplicateThrows(s)
       PROVE  AnswersMatchRequests'
  <2>1. /\ toShard[s] # <<>>
        /\ toShard' = [toShard EXCEPT ![s] = Tail(@)]
        /\ toCampaign' = toCampaign \/ toCampaign' = Reply(s, Replicated)
        /\ UNCHANGED <<phase, answered>>
    BY <1>12 DEF ReceiveSpawn, ReceiveState, ReceiveReplicate, ReplicateThrows, FromCampaign
  <2>2. \A t \in Shards : \/ toShard'[t] = toShard[t]
                          \/ toShard[t] # <<>> /\ toShard'[t] = Tail(toShard[t])
    BY <1>1, <2>1
  <2>3. \A t \in Shards : Awaited(t) <=> Awaited(t)'
    BY <2>1 DEF Awaited
  <2>4. Replicated \in ToCampaignPacket /\ Replicated.type # "ShardSnapshot"
    BY ValueTypes, PacketsDiffer
  <2>5. \A t \in Shards : \/ toCampaign'[t] = toCampaign[t]
                          \/ toCampaign'[t] = Append(toCampaign[t], Replicated)
    BY <1>1, <2>1 DEF Reply
  <2> QED BY <1>3, <2>2, <2>3, <2>4, <2>5
<1>13. ASSUME NEW s \in Shards, NEW c \in Characters,
              Recall(s, c) \/ Die(s, c) \/ Collect(s, c)
       PROVE  AnswersMatchRequests'
  <2>1. /\ toCampaign' = toCampaign \/ toCampaign' = Reply(s, Recalled(c))
        /\ UNCHANGED <<toShard, phase, answered>>
    BY <1>13 DEF Recall, Die, Collect
  <2>2. Recalled(c) \in ToCampaignPacket /\ Recalled(c).type # "ShardSnapshot"
    BY ValueTypes, PacketsDiffer
  <2>3. \A t \in Shards : \/ toCampaign'[t] = toCampaign[t]
                          \/ toCampaign'[t] = Append(toCampaign[t], Recalled(c))
    BY <1>1, <2>1 DEF Reply
  <2>4. \A t \in Shards : Awaited(t) <=> Awaited(t)'
    BY <2>1 DEF Awaited
  <2> QED BY <1>3, <2>1, <2>2, <2>3, <2>4
<1>14. ASSUME NEW s \in Shards, Disconnect(s) \/ Reconnect(s)
       PROVE  AnswersMatchRequests'
  <2>1. \A t \in Shards :
          /\ toShard'[t] = toShard[t] \/ toShard'[t] = <<>>
          /\ toCampaign'[t] = toCampaign[t] \/ toCampaign'[t] = <<>>
    BY <1>1, <1>14 DEF Disconnect, Reconnect
  <2>2. \A t \in Shards : Awaited(t) <=> Awaited(t)'
    BY <1>14 DEF Disconnect, Reconnect, Awaited
  <2> QED BY <1>3, <2>1, <2>2
<1>15. ASSUME NEW s \in Shards, NEW c \in Characters, Deploy(c, s)
       PROVE  AnswersMatchRequests'
  <2>1. Spawn(c) \in ToShardPacket /\ Spawn(c).type # "SnapshotRequest"
    BY ValueTypes, PacketsDiffer
  <2>2. \A t \in Shards : \/ toShard'[t] = toShard[t]
                          \/ toShard'[t] = Append(toShard[t], Spawn(c))
    BY <1>1, <1>15 DEF Deploy, SendTo
  <2>3. toCampaign' = toCampaign /\ \A t \in Shards : Awaited(t) <=> Awaited(t)'
    BY <1>15 DEF Deploy, Awaited
  <2> QED BY <1>3, <2>1, <2>2, <2>3
<1>16. CASE UNCHANGED vars
  BY <1>16 DEF vars, AnswersMatchRequests, AnswerMatchesRequest, Awaited
<1>17. CampaignServerStep => AnswersMatchRequests'
  BY <1>5, <1>6, <1>7, <1>8 DEF CampaignServerStep
<1>18. \A s \in Shards : ReceiveFromShard(s) \/ ShardStep(s) => AnswersMatchRequests'
  BY <1>9, <1>10, <1>11, <1>12, <1>13 DEF ReceiveFromShard, ShardStep
<1> QED BY <1>4, <1>14, <1>15, <1>16, <1>17, <1>18 DEF Next

(* No attempt to save takes the answer to an earlier one for its own.      *)
THEOREM AnswersAreCurrent == Spec => []AnswersMatchRequests
<1>1. Init => AnswersMatchRequests
  <2>1. ASSUME Init PROVE \A s \in Shards : toShard[s] = <<>> /\ toCampaign[s] = <<>>
    BY <2>1 DEF Init
  <2> QED BY <2>1, EmptyFacts DEF AnswersMatchRequests, AnswerMatchesRequest
<1>2. TypeOK /\ AnswersMatchRequests /\ [Next]_vars => AnswersMatchRequests'
  BY MatchStep
<1> QED BY <1>1, <1>2, TypeCorrect, PTL DEF Spec

-----------------------------------------------------------------------------
(***************************************************************************)
(* Resuming a session.                                                     *)
(***************************************************************************)

(* What is under way stays the file's when a channel only loses packets, or*)
(* gains one that is no snapshot or the file's.                            *)
LEMMA CarriesOnlyFacts ==
  ASSUME NEW S, NEW q \in Seq(S), NEW w
  PROVE  /\ CarriesOnly(<<>>, w)
         /\ CarriesOnly(q, w) /\ q # <<>> => CarriesOnly(Tail(q), w)
         /\ CarriesOnly(q, w) /\ q # <<>> /\ Head(q).type = "ShardSnapshot"
              => Head(q).world = w
         /\ \A m \in S : CarriesOnly(q, w) /\ (m.type = "ShardSnapshot" => m.world = w)
              => CarriesOnly(Append(q, m), w)
         /\ ~Carries(q, "ShardSnapshot") => CarriesOnly(q, w)
<1>1. CarriesOnly(<<>>, w)
  BY DEF CarriesOnly
<1>2. ASSUME q # <<>>
      PROVE  /\ CarriesOnly(q, w) => CarriesOnly(Tail(q), w)
             /\ CarriesOnly(q, w) /\ Head(q).type = "ShardSnapshot" => Head(q).world = w
  <2> DEFINE r == Tail(q)
  <2>1. /\ Len(q) \in Nat \ {0}
        /\ Len(r) = Len(q) - 1
        /\ \A i \in 1..Len(r) : r[i] = q[i + 1] /\ i + 1 \in 1..Len(q)
        /\ Head(q) = q[1]
    BY <1>2
  <2> HIDE DEF r
  <2>2. CarriesOnly(q, w) => CarriesOnly(r, w)
    BY <2>1 DEF CarriesOnly
  <2>3. CarriesOnly(q, w) /\ Head(q).type = "ShardSnapshot" => Head(q).world = w
    BY <2>1 DEF CarriesOnly
  <2> QED BY <2>2, <2>3 DEF r
<1>3. ASSUME NEW m \in S, CarriesOnly(q, w), m.type = "ShardSnapshot" => m.world = w
      PROVE  CarriesOnly(Append(q, m), w)
  <2> DEFINE a == Append(q, m)
  <2>1. /\ Len(a) = Len(q) + 1
        /\ Len(q) \in Nat
        /\ \A i \in 1..Len(q) : a[i] = q[i]
        /\ a[Len(q) + 1] = m
    OBVIOUS
  <2> HIDE DEF a
  <2>2. CarriesOnly(a, w)
    BY <1>3, <2>1 DEF CarriesOnly
  <2> QED BY <2>2 DEF a
<1>4. ~Carries(q, "ShardSnapshot") => CarriesOnly(q, w)
  BY DEF Carries, CarriesOnly
<1> QED BY <1>1, <1>2, <1>3, <1>4

(* The same, for all that the steps after the start do to a channel.       *)
LEMMA KeepsFile ==
  ASSUME NEW S, NEW q \in Seq(S), NEW r, NEW w, CarriesOnly(q, w),
         \/ r = q
         \/ r = <<>>
         \/ q # <<>> /\ r = Tail(q)
         \/ \E m \in S : m.type # "ShardSnapshot" /\ r = Append(q, m)
  PROVE  CarriesOnly(r, w)
<1>1. CASE r = q
  BY <1>1
<1>2. CASE r = <<>>
  BY <1>2 DEF CarriesOnly
<1>3. CASE q # <<>> /\ r = Tail(q)
  <2>1. CarriesOnly(Tail(q), w)
    BY <1>3, CarriesOnlyFacts
  <2> QED BY <1>3, <2>1
<1>4. CASE \E m \in S : m.type # "ShardSnapshot" /\ r = Append(q, m)
  <2>1. PICK m \in S : m.type # "ShardSnapshot" /\ r = Append(q, m)
    BY <1>4
  <2>2. CarriesOnly(Append(q, m), w)
    BY <2>1, CarriesOnlyFacts
  <2> QED BY <2>1, <2>2
<1> QED BY <1>1, <1>2, <1>3, <1>4

(* A step within the phase of loading that leaves the file, the trackers   *)
(* and who is in which world alone, acknowledges no snapshot and puts none *)
(* but the file's under way.                                               *)
LEMMA StillLoading ==
  ASSUME LoadsTheFile,
         phase' = "loading" =>
           /\ phase = "loading"
           /\ disk' = disk
           /\ tracker' = tracker
           /\ \A s \in Shards :
                /\ CarriesOnly(toShard[s], disk.worlds[s])
                     => CarriesOnly(toShard'[s], disk.worlds[s])
                /\ s \in loaded' \/ Carries(toCampaign'[s], "Replicated") =>
                     \/ IsReplica(s)'
                     \/ /\ s \in loaded \/ Carries(toCampaign[s], "Replicated")
                        /\ \A c \in Characters : InShard(s, c)' <=> InShard(s, c)
  PROVE  LoadsTheFile'
<1> SUFFICES ASSUME phase' = "loading"
             PROVE  /\ disk'.state = "whole"
                    /\ tracker' = disk'.tracker
                    /\ \A s \in Shards :
                         /\ CarriesOnly(toShard'[s], disk'.worlds[s])
                         /\ s \in loaded' \/ Carries(toCampaign'[s], "Replicated")
                              => IsReplica(s)'
  BY DEF LoadsTheFile
<1>1. /\ disk.state = "whole"
      /\ tracker = disk.tracker
      /\ \A s \in Shards :
           /\ CarriesOnly(toShard[s], disk.worlds[s])
           /\ s \in loaded \/ Carries(toCampaign[s], "Replicated") => IsReplica(s)
  BY DEF LoadsTheFile
<1>2. disk' = disk /\ tracker' = tracker
  OBVIOUS
<1>3. ASSUME NEW s \in Shards PROVE CarriesOnly(toShard'[s], disk'.worlds[s])
  BY <1>1, <1>2
<1>4. ASSUME NEW s \in Shards, s \in loaded' \/ Carries(toCampaign'[s], "Replicated")
      PROVE  IsReplica(s)'
  <2>1. CASE /\ s \in loaded \/ Carries(toCampaign[s], "Replicated")
             /\ \A c \in Characters : InShard(s, c)' <=> InShard(s, c)
    BY <1>1, <1>2, <2>1 DEF IsReplica
  <2> QED BY <1>4, <2>1
<1> QED BY <1>1, <1>2, <1>3, <1>4

(* Loading starts: nothing but the file is under way.                      *)
LEMMA StartsLoading ==
  ASSUME IInv, LoadSnapshot
  PROVE  LoadsTheFile'
<1> USE DEF boundVars, campaignVars, saveVars, shardVars, netVars
<1>1. /\ disk.state = "whole"
      /\ disk' = disk
      /\ tracker' = disk.tracker
      /\ loaded' = loaded /\ toCampaign' = toCampaign
      /\ toShard' = SendWorlds(disk.worlds)
      /\ phase = "starting"
  BY DEF LoadSnapshot
<1>2. /\ loaded = {}
      /\ \A s \in Shards : /\ ~Carries(toShard[s], "ShardSnapshot")
                           /\ ~Carries(toCampaign[s], "Replicated")
  BY <1>1 DEF IInv, StartsEmpty
<1>3. ASSUME NEW s \in Shards PROVE CarriesOnly(toShard'[s], disk.worlds[s])
  <2> DEFINE w == disk.worlds[s]
  <2>1. /\ toShard[s] \in Seq(ToShardPacket)
        /\ ShardSnapshot(w) \in ToShardPacket
        /\ ShardSnapshot(w).world = w
    BY ValueTypes, PacketsDiffer DEF IInv, TypeOK, File
  <2>2. toShard'[s] = toShard[s] \/ toShard'[s] = Append(toShard[s], ShardSnapshot(w))
    BY <1>1 DEF SendWorlds
  <2> HIDE DEF w
  <2>3. CarriesOnly(toShard[s], w)
    BY <1>2, <2>1, CarriesOnlyFacts
  <2>4. CarriesOnly(Append(toShard[s], ShardSnapshot(w)), w)
    BY <2>1, <2>3, CarriesOnlyFacts
  <2>5. CarriesOnly(toShard'[s], w)
    BY <2>2, <2>3, <2>4
  <2> QED BY <2>5 DEF w
<1> QED BY <1>1, <1>2, <1>3 DEF LoadsTheFile

(* A shard takes the file's snapshot into an empty world, and its world is *)
(* the file's; one that throws acknowledges nothing.                       *)
LEMMA ReplicatesTheFile ==
  ASSUME IInv, LoadsTheFile, NEW s \in Shards, ReceiveReplicate(s) \/ ReplicateThrows(s)
  PROVE  LoadsTheFile'
<1> USE DEF boundVars, campaignVars, saveVars, shardVars, netVars
<1>1. /\ toShard[s] # <<>>
      /\ toShard' = [toShard EXCEPT ![s] = Tail(@)]
      /\ Head(toShard[s]).type = "ShardSnapshot"
      /\ UNCHANGED <<phase, tracker, loaded, disk>>
  BY DEF ReceiveReplicate, ReplicateThrows, FromCampaign
<1>2. /\ entities \in [Shards -> World]
      /\ toShard \in [Shards -> Seq(ToShardPacket)]
      /\ toCampaign \in [Shards -> Seq(ToCampaignPacket)]
  BY DEF IInv, TypeOK
<1>3. Carries(toShard[s], "ShardSnapshot")
  BY <1>1, <1>2, TailFacts
<1>4. /\ s \notin loaded
      /\ ~Carries(toCampaign[s], "Replicated")
      /\ \A c \in Characters : ~InShard(s, c)
  BY <1>3 DEF IInv, ReplicationIsToken
<1>5. ASSUME NEW t \in Shards, CarriesOnly(toShard[t], disk.worlds[t])
      PROVE  CarriesOnly(toShard'[t], disk.worlds[t])
  <2>1. \/ toShard'[t] = toShard[t]
        \/ toShard[t] # <<>> /\ toShard'[t] = Tail(toShard[t])
    BY <1>1, <1>2
  <2>2. toShard[t] \in Seq(ToShardPacket)
    BY <1>2
  <2> QED BY <1>5, <2>1, <2>2, KeepsFile
<1>6. ASSUME NEW t \in Shards, t # s
      PROVE  /\ toCampaign'[t] = toCampaign[t]
             /\ \A c \in Characters : InShard(t, c)' <=> InShard(t, c)
  BY <1>2, <1>6 DEF ReceiveReplicate, ReplicateThrows, Reply, InShard
<1>7. CASE ReplicateThrows(s)
  <2>1. toCampaign' = toCampaign
    BY <1>7 DEF ReplicateThrows
  <2> QED BY <1>1, <1>4, <1>5, <1>6, <2>1, StillLoading
<1>8. CASE ReceiveReplicate(s)
  <2>1. ASSUME phase = "loading" PROVE IsReplica(s)'
    <3>1. Head(toShard[s]).world = disk.worlds[s]
      <4>1. CarriesOnly(toShard[s], disk.worlds[s])
        BY <2>1 DEF LoadsTheFile
      <4>2. toShard[s] \in Seq(ToShardPacket)
        BY <1>2
      <4> QED BY <1>1, <4>1, <4>2, CarriesOnlyFacts
    <3>2. entities'[s] = Replica(entities[s], disk.worlds[s])
      BY <1>2, <1>8, <3>1 DEF ReceiveReplicate
    <3>3. \A c \in Characters : entities[s][c] \notin InWorld
      BY <1>4 DEF InShard
    <3>4. \A c \in Characters : entities'[s][c] \in InWorld <=> disk.worlds[s][c] = "live"
      BY <3>2, <3>3 DEF Replica, InWorld
    <3> QED BY <1>1, <3>4 DEF IsReplica, InShard
  <2> QED BY <1>1, <1>5, <1>6, <2>1, StillLoading
<1> QED BY <1>7, <1>8

(* Every step keeps what is being loaded the file's.                       *)
LEMMA LoadsStep ==
  ASSUME IInv, LoadsTheFile, [Next]_vars
  PROVE  LoadsTheFile'
<1> USE DEF boundVars, campaignVars, saveVars, shardVars, netVars
<1>1. /\ toShard \in [Shards -> Seq(ToShardPacket)]
      /\ toCampaign \in [Shards -> Seq(ToCampaignPacket)]
      /\ entities \in [Shards -> World]
  BY DEF IInv, TypeOK
<1>2. CASE Restart
  BY <1>2 DEF Restart, FreshCluster, LoadsTheFile
<1>3. CASE \/ StartNewCampaign \/ LoadTornSnapshot \/ FinishLoading \/ LoadTimeout
           \/ Unpause \/ FinishAttempt \/ CollectTimeout \/ GiveUp
           \/ WriteSnapshot \/ CrashWhileWriting \/ EndSession \/ Retry
  <2>1. phase' # "loading"
    BY <1>3 DEF StartNewCampaign, LoadTornSnapshot, FinishLoading, LoadTimeout, Unpause,
                FinishAttempt, CollectTimeout, GiveUp, WriteSnapshot, CrashWhileWriting,
                EndSession, Retry, BeginAttempt
  <2> QED BY <2>1 DEF LoadsTheFile
<1>4. CASE PublishState
  <2>1. State(statePaused) \in ToShardPacket /\ State(statePaused).type # "ShardSnapshot"
    BY ValueTypes, PacketsDiffer DEF IInv, TypeOK
  <2>2. \A t \in Shards : \/ toShard'[t] = toShard[t]
                          \/ toShard'[t] = Append(toShard[t], State(statePaused))
    BY <1>4 DEF PublishState, SendState
  <2>3. ASSUME NEW t \in Shards, CarriesOnly(toShard[t], disk.worlds[t])
        PROVE  CarriesOnly(toShard'[t], disk.worlds[t])
    <3>1. toShard[t] \in Seq(ToShardPacket)
      BY <1>1
    <3> QED BY <2>1, <2>2, <2>3, <3>1, KeepsFile
  <2>4. UNCHANGED <<phase, disk, tracker, loaded, toCampaign, entities>>
    BY <1>4 DEF PublishState
  <2> QED BY <2>3, <2>4, StillLoading DEF InShard
<1>5. ASSUME NEW s \in Shards, ReceiveFromShard(s) PROVE LoadsTheFile'
  <2>1. /\ toCampaign[s] # <<>>
        /\ toCampaign' = [toCampaign EXCEPT ![s] = Tail(@)]
        /\ UNCHANGED <<phase, disk, toShard, entities>>
    BY <1>5 DEF ReceiveFromShard, ReceiveRecalled, ReceiveShardSnapshot, ReceiveReplicated,
                FromShard
  <2>2. /\ \A t \in Shards : Carries(toCampaign'[t], "Replicated")
                               => Carries(toCampaign[t], "Replicated")
        /\ Carries(toCampaign[s], Head(toCampaign[s]).type)
    BY <1>1, <2>1, TailFacts
  <2>3. ASSUME phase = "loading" PROVE tracker' = tracker
    <3>1. ~Carries(toCampaign[s], "Recalled")
      BY <2>3 DEF IInv, NobodyPlaysBeforeInit, PreInit
    <3>2. ~ReceiveRecalled(s)
      BY <2>2, <3>1 DEF ReceiveRecalled, FromShard
    <3> QED BY <1>5, <3>2 DEF ReceiveFromShard, ReceiveShardSnapshot, ReceiveReplicated
  <2>4. \A t \in Shards : t \in loaded' =>
          t \in loaded \/ Carries(toCampaign[t], "Replicated")
    BY <1>5, <2>2 DEF ReceiveFromShard, ReceiveRecalled, ReceiveShardSnapshot,
                      ReceiveReplicated, FromShard
  <2> QED BY <2>1, <2>2, <2>3, <2>4, StillLoading DEF InShard
<1>6. ASSUME NEW s \in Shards, ReceiveSpawn(s) \/ ReceiveState(s) \/ ReceiveSnapshotRequest(s)
      PROVE  LoadsTheFile'
  <2> DEFINE m == ShardSnapshot(ToSnapshot(entities[s]))
  <2>1. /\ toShard[s] # <<>>
        /\ toShard' = [toShard EXCEPT ![s] = Tail(@)]
        /\ UNCHANGED <<phase, disk, tracker, loaded>>
        /\ toCampaign' = toCampaign \/ toCampaign' = Reply(s, m)
    BY <1>6 DEF ReceiveSpawn, ReceiveState, ReceiveSnapshotRequest, FromCampaign
  <2>2. m \in ToCampaignPacket /\ m.type = "ShardSnapshot"
    BY <1>1, ValueTypes, PacketsDiffer
  <2> HIDE DEF m
  <2>3. ASSUME NEW t \in Shards, Carries(toCampaign'[t], "Replicated")
        PROVE  Carries(toCampaign[t], "Replicated")
    <3>1. \/ toCampaign'[t] = toCampaign[t]
          \/ toCampaign'[t] = Append(toCampaign[t], m)
      BY <1>1, <2>1 DEF Reply
    <3>2. toCampaign[t] \in Seq(ToCampaignPacket)
      BY <1>1
    <3>3. NoMoreOf(toCampaign'[t], toCampaign[t], "Replicated")
      BY <2>2, <3>1, <3>2, NoMoreOfFacts
    <3> QED BY <2>3, <3>3 DEF NoMoreOf
  <2>4. ASSUME NEW t \in Shards, CarriesOnly(toShard[t], disk.worlds[t])
        PROVE  CarriesOnly(toShard'[t], disk.worlds[t])
    <3>1. \/ toShard'[t] = toShard[t]
          \/ toShard[t] # <<>> /\ toShard'[t] = Tail(toShard[t])
      BY <1>1, <2>1
    <3>2. toShard[t] \in Seq(ToShardPacket)
      BY <1>1
    <3> QED BY <2>4, <3>1, <3>2, KeepsFile
  <2>5. ASSUME phase = "loading" PROVE entities' = entities
    <3>1. ~Carries(toShard[s], "Spawn")
      BY <2>5 DEF IInv, NobodyPlaysBeforeInit, PreInit
    <3>2. Carries(toShard[s], Head(toShard[s]).type)
      BY <1>1, <2>1, TailFacts
    <3>3. ~ReceiveSpawn(s)
      BY <3>1, <3>2 DEF ReceiveSpawn, FromCampaign
    <3> QED BY <1>6, <3>3 DEF ReceiveState, ReceiveSnapshotRequest
  <2> QED BY <2>1, <2>3, <2>4, <2>5, StillLoading DEF InShard
<1>7. ASSUME NEW s \in Shards, NEW c \in Characters,
             Recall(s, c) \/ Die(s, c) \/ Collect(s, c)
      PROVE  LoadsTheFile'
  <2>1. /\ UNCHANGED <<phase, disk, tracker, loaded, toShard>>
        /\ phase = "loading" => paused[s]
    BY <1>7 DEF Recall, Die, Collect, IInv, NobodyPlaysBeforeInit, PreInit
  <2>2. ASSUME phase = "loading"
        PROVE  /\ toCampaign' = toCampaign
               /\ \A t \in Shards, d \in Characters : InShard(t, d)' <=> InShard(t, d)
    <3>1. Collect(s, c)
      BY <1>7, <2>1, <2>2 DEF Recall, Die
    <3> QED BY <1>1, <3>1 DEF Collect, InShard, InWorld, World
  <2> QED BY <2>1, <2>2, StillLoading
<1>8. ASSUME NEW s \in Shards, Disconnect(s) \/ Reconnect(s) PROVE LoadsTheFile'
  <2>1. /\ UNCHANGED <<phase, disk, tracker, loaded, entities>>
        /\ \A t \in Shards :
             /\ toShard'[t] = toShard[t] \/ toShard'[t] = <<>>
             /\ toCampaign'[t] = toCampaign[t] \/ toCampaign'[t] = <<>>
    BY <1>1, <1>8 DEF Disconnect, Reconnect
  <2>2. ASSUME NEW t \in Shards, CarriesOnly(toShard[t], disk.worlds[t])
        PROVE  CarriesOnly(toShard'[t], disk.worlds[t])
    <3>1. toShard[t] \in Seq(ToShardPacket)
      BY <1>1
    <3> QED BY <2>1, <2>2, <3>1, KeepsFile
  <2>3. \A t \in Shards : Carries(toCampaign'[t], "Replicated")
                            => Carries(toCampaign[t], "Replicated")
    BY <2>1, EmptyFacts
  <2> QED BY <2>1, <2>2, <2>3, StillLoading DEF InShard
<1>9. ASSUME NEW s \in Shards, NEW c \in Characters, Deploy(c, s) PROVE LoadsTheFile'
  <2>1. phase' # "loading"
    BY <1>9 DEF Deploy, MayDeploy, Initialized
  <2> QED BY <2>1 DEF LoadsTheFile
<1>10. CASE UNCHANGED vars
  BY <1>10 DEF vars, LoadsTheFile, IsReplica, InShard
<1>11. CampaignServerStep => LoadsTheFile'
  BY <1>3, <1>4, StartsLoading DEF CampaignServerStep
<1>12. \A s \in Shards : ShardStep(s) => LoadsTheFile'
  BY <1>6, <1>7, ReplicatesTheFile DEF ShardStep
<1> QED BY <1>2, <1>5, <1>8, <1>9, <1>10, <1>11, <1>12 DEF Next

(* A session starts from exactly what the last save wrote.                 *)
THEOREM SessionsResumeTheFile == Spec => ResumeIsExact
<1> DEFINE Step == phase = "loading" /\ phase' = "ready" =>
                     /\ tracker = disk.tracker
                     /\ \A s \in Shards, c \in Characters :
                          InShard(s, c) <=> disk.worlds[s][c] = "live"
                     /\ \A c \in Characters :
                          tracker[c] # NoShard => disk.worlds[tracker[c]][c] # "none"
<1> USE DEF boundVars, campaignVars, saveVars, shardVars, netVars
<1>1. ASSUME IInv, LoadsTheFile, [Next]_vars PROVE Step
  <2> SUFFICES ASSUME phase = "loading", phase' = "ready"
               PROVE  /\ tracker = disk.tracker
                      /\ \A s \in Shards, c \in Characters :
                           InShard(s, c) <=> disk.worlds[s][c] = "live"
                      /\ \A c \in Characters :
                           tracker[c] # NoShard => disk.worlds[tracker[c]][c] # "none"
    OBVIOUS
  <2>1. loaded = Shards
    <3>1. \A s \in Shards : ~ReceiveFromShard(s) /\ ~Disconnect(s) /\ ~Reconnect(s)
      BY DEF ReceiveFromShard, ReceiveRecalled, ReceiveShardSnapshot, ReceiveReplicated,
             Disconnect, Reconnect
    <3>2. \A s \in Shards : ~ShardStep(s)
      BY DEF ShardStep, ReceiveSpawn, ReceiveSnapshotRequest, ReceiveState,
             ReceiveReplicate, ReplicateThrows, Recall, Die, Collect
    <3>3. \A s \in Shards, c \in Characters : ~Deploy(c, s)
      BY DEF Deploy
    <3>4. ~Restart /\ ~UNCHANGED vars
      BY DEF Restart, FreshCluster, vars
    <3>5. CampaignServerStep
      BY <1>1, <3>1, <3>2, <3>3, <3>4 DEF Next
    <3>6. FinishLoading
      BY <3>5 DEF CampaignServerStep, StartNewCampaign, LoadTornSnapshot, LoadSnapshot,
                  LoadTimeout, Unpause, PublishState, EndSession, FinishAttempt,
                  CollectTimeout, Retry, GiveUp, WriteSnapshot, CrashWhileWriting
    <3> QED BY <3>6 DEF FinishLoading, AllLoaded
  <2>2. /\ disk.state = "whole"
        /\ tracker = disk.tracker
        /\ \A s \in Shards : IsReplica(s)
    BY <1>1, <2>1 DEF LoadsTheFile
  <2>3. DeployedArePresent(disk.tracker, disk.worlds)
    BY <1>1, <2>2 DEF IInv, SavedIsConsistent, IsConsistent
  <2>4. \A c \in Characters :
          tracker[c] # NoShard => disk.worlds[tracker[c]][c] # "none"
    BY <2>2, <2>3 DEF DeployedArePresent
  <2> QED BY <2>2, <2>4 DEF IsReplica
<1>2. Init => LoadsTheFile
  BY DEF Init, LoadsTheFile
<1>3. IInv /\ LoadsTheFile /\ [Next]_vars => LoadsTheFile'
  BY LoadsStep
<1>4. Spec => []LoadsTheFile
  BY <1>2, <1>3, InductiveInvariant, PTL DEF Spec
<1> HIDE DEF Step
<1>5. Spec => [][Step]_vars
  BY <1>1, <1>4, InductiveInvariant, PTL DEF Spec
<1> QED BY <1>5 DEF Step, ResumeIsExact

=============================================================================
