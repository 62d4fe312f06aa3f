----------------- MODULE CampaignPersistenceRefinementProofs -----------------
(***************************************************************************)
(* CampaignPersistence implements CharacterDeployment, for every set of    *)
(* shards and characters.                                                  *)
(***************************************************************************)
EXTENDS CampaignPersistenceRefinement, CampaignPersistenceProofs

(* A character's place is the shard whose world it is in, and then its     *)
(* tracker's shard.                                                        *)
PlaceIsWhereLive ==
  \A c \in Characters :
    /\ \A s \in Shards : InShard(s, c) => Place[c] = s /\ tracker[c] = s
    /\ (\A s \in Shards : ~InShard(s, c)) => Place[c] = NoShard

(* A character's place is the shard whose world it is in, if there is one: by*)
(* the invariant there is one at most.                                     *)
LEMMA PlaceFacts == IInv => PlaceIsWhereLive
<1> SUFFICES ASSUME IInv, NEW c \in Characters
             PROVE  /\ \A s \in Shards : InShard(s, c) => Place[c] = s /\ tracker[c] = s
                    /\ (\A s \in Shards : ~InShard(s, c)) => Place[c] = NoShard
  BY DEF PlaceIsWhereLive
<1>1. ASSUME NEW s \in Shards, InShard(s, c)
      PROVE  Place[c] = s /\ tracker[c] = s
  <2>1. tracker[c] = s /\ \A t \in Shards : InShard(t, c) => t = s
    BY <1>1 DEF IInv, LiveWhereTracked
  <2>2. (CHOOSE t \in Shards : InShard(t, c)) = s
    BY <1>1, <2>1
  <2> QED BY <1>1, <2>1, <2>2 DEF Place
<1>2. ASSUME \A s \in Shards : ~InShard(s, c) PROVE Place[c] = NoShard
  BY <1>2 DEF Place
<1> QED BY <1>1, <1>2

(* A step that changes neither trackers nor who is in which world is a     *)
(* stutter.                                                                *)
LEMMA SamePlaces ==
  ASSUME tracker' = tracker,
         \A s \in Shards, c \in Characters : InShard(s, c)' <=> InShard(s, c),
         PlaceIsWhereLive, PlaceIsWhereLive'
  PROVE  UNCHANGED Deployment!vars
<1>1. \A c \in Characters : Place'[c] = Place[c]
  BY DEF PlaceIsWhereLive
<1>2. Place' = Place
  BY <1>1 DEF Place
<1> QED BY <1>2 DEF Deployment!vars

(* An empty cluster is one where nobody is deployed.                       *)
LEMMA RefinementInit == Init => Deployment!Init
<1> SUFFICES ASSUME Init PROVE Deployment!Init
  OBVIOUS
<1>1. \A s \in Shards, c \in Characters : ~InShard(s, c)
  BY DEF Init, EmptyWorld, InShard, InWorld
<1>2. Place = [c \in Characters |-> NoShard]
  BY <1>1 DEF Place
<1> QED BY <1>2 DEF Deployment!Init, Deployment!Nowhere, Init, NotDeployed

(* Every step of the cluster is a step of the abstract specification, or   *)
(* changes none of its state.                                              *)
LEMMA RefinementStep ==
  ASSUME IInv, IInv', PlaceIsWhereLive, PlaceIsWhereLive', [Next]_vars
  PROVE  [Deployment!Next]_(Deployment!vars)
<1> USE DEF boundVars, campaignVars, saveVars, shardVars, netVars
<1>1. /\ tracker \in Placement
      /\ entities \in [Shards -> World]
      /\ Place = [c \in Characters |-> Place[c]]
      /\ Place' = [c \in Characters |-> Place'[c]]
  BY DEF IInv, TypeOK, Place
<1>2. ASSUME UNCHANGED <<tracker, entities>> PROVE UNCHANGED Deployment!vars
  BY <1>2, SamePlaces DEF InShard
<1>3. CASE Restart
  <2>1. tracker' = NotDeployed
    BY <1>3 DEF Restart, FreshCluster
  <2>2. \A s \in Shards, c \in Characters : ~InShard(s, c)'
    BY <1>3 DEF Restart, FreshCluster, EmptyWorld, InShard, InWorld
  <2>3. Place' = [c \in Characters |-> NoShard]
    BY <1>1, <2>2 DEF PlaceIsWhereLive
  <2> QED BY <2>1, <2>3
          DEF Deployment!Next, Deployment!Restart, Deployment!Nowhere, NotDeployed
<1>4. CASE LoadSnapshot
  <2>1. /\ tracker = NotDeployed
        /\ tracker' = disk.tracker
        /\ entities' = entities
        /\ disk.tracker \in Placement
    BY <1>4 DEF LoadSnapshot, IInv, StartsEmpty, TypeOK, File
  <2>2. \A s \in Shards, c \in Characters : ~InShard(s, c) /\ ~InShard(s, c)'
    BY <1>4, <2>1 DEF LoadSnapshot, IInv, StartsEmpty, InShard
  <2>3. Place' = Place
    <3>1. \A c \in Characters : Place'[c] = Place[c]
      BY <2>2 DEF PlaceIsWhereLive
    <3> QED BY <3>1 DEF Place
  <2> QED BY <2>1, <2>3
          DEF Deployment!Next, Deployment!Resume, Deployment!Nowhere, NotDeployed, Placement
<1>5. ASSUME NEW c \in Characters, NEW s \in Shards, Deploy(c, s)
      PROVE  Deployment!Next
  <2>1. /\ tracker[c] = NoShard
        /\ tracker' = [tracker EXCEPT ![c] = s]
        /\ entities' = entities
    BY <1>5 DEF Deploy, MayDeploy
  <2>2. Place' = Place
    BY <2>1 DEF Place, InShard
  <2> QED BY <2>1, <2>2 DEF Deployment!Next, Deployment!Claim
<1>6. ASSUME NEW s \in Shards, ReceiveRecalled(s)
      PROVE  Deployment!Next
  <2> DEFINE c == Head(toCampaign[s]).char
  <2>1. /\ toCampaign[s] # <<>>
        /\ Head(toCampaign[s]).type = "Recalled"
        /\ tracker' = [tracker EXCEPT ![c] = NoShard]
        /\ entities' = entities
    BY <1>6 DEF ReceiveRecalled, FromShard
  <2>2. c \in Characters /\ Head(toCampaign[s]) = Recalled(c)
    BY <2>1, HeadTypes DEF IInv
  <2>3. UnderWay(toCampaign[s], Head(toCampaign[s]))
    <3>1. toCampaign[s] \in Seq(ToCampaignPacket)
      BY DEF IInv, TypeOK
    <3> QED BY <2>1, <3>1, TailFacts
  <2>4. tracker[c] = s /\ ~InShard(s, c)
    BY <2>2, <2>3 DEF IInv, RecallIsToken
  <2> HIDE DEF c
  <2>5. Place[c] = NoShard
    BY <2>2, <2>4 DEF PlaceIsWhereLive, IInv, LiveWhereTracked
  <2>6. Place' = Place
    BY <2>1 DEF Place, InShard
  <2> QED BY <2>1, <2>2, <2>4, <2>5, <2>6, ShardsAssumption
          DEF Deployment!Next, Deployment!Release
<1>7. ASSUME NEW s \in Shards, NEW c \in Characters,
             tracker' = tracker, InShard(s, c), entities' = [entities EXCEPT ![s][c] = "removed"]
      PROVE  Deployment!Next
  <2>1. /\ ~InShard(s, c)'
        /\ \A t \in Shards, d \in Characters :
             t # s \/ d # c => (InShard(t, d)' <=> InShard(t, d))
    BY <1>1, <1>7 DEF InShard, InWorld, World
  <2>2. Place[c] = s /\ Place'[c] = NoShard
    BY <1>7, <2>1 DEF PlaceIsWhereLive
  <2>3. \A d \in Characters : d # c => Place'[d] = Place[d]
    BY <2>1 DEF PlaceIsWhereLive
  <2>4. Place' = [Place EXCEPT ![c] = NoShard]
    BY <1>1, <2>2, <2>3
  <2> QED BY <1>7, <2>2, <2>4, ShardsAssumption DEF Deployment!Next, Deployment!Leave
<1>8. ASSUME NEW s \in Shards, tracker' = tracker,
             \A t \in Shards, c \in Characters : InShard(t, c) => InShard(t, c)',
             \A t \in Shards, c \in Characters :
               InShard(t, c)' => InShard(t, c) \/ (\A u \in Shards : ~InShard(u, c))
      PROVE  Deployment!Next
  <2> DEFINE C == {c \in Characters : Place'[c] # Place[c]}
  <2>1. ASSUME NEW c \in C
        PROVE  Place[c] = NoShard /\ Place'[c] = tracker[c] /\ tracker[c] # NoShard
    <3>1. CASE \E t \in Shards : InShard(t, c)
      BY <1>8, <3>1 DEF PlaceIsWhereLive
    <3>2. CASE \A t \in Shards : ~InShard(t, c)
      <4>1. PICK t \in Shards : InShard(t, c)'
        BY <3>2 DEF PlaceIsWhereLive
      <4>2. Place'[c] = t /\ tracker'[c] = t
        BY <4>1 DEF PlaceIsWhereLive
      <4> QED BY <1>8, <3>2, <4>2, ShardsAssumption DEF PlaceIsWhereLive
    <3> QED BY <3>1, <3>2
  <2>2. Place' = [c \in Characters |-> IF c \in C THEN tracker[c] ELSE Place[c]]
    BY <1>1, <2>1
  <2>3. C \in SUBSET Characters
    OBVIOUS
  <2> HIDE DEF C
  <2> QED BY <1>8, <2>1, <2>2, <2>3 DEF Deployment!Next, Deployment!Enter
<1>9. ASSUME NEW s \in Shards, ReceiveSpawn(s)
      PROVE  Deployment!Next
  <2> DEFINE c == Head(toShard[s]).char
  <2>1. /\ toShard[s] # <<>>
        /\ Head(toShard[s]).type = "Spawn"
        /\ entities' = [entities EXCEPT ![s][c] = AfterSpawn(@)]
        /\ tracker' = tracker
    BY <1>9 DEF ReceiveSpawn, FromCampaign
  <2>2. c \in Characters /\ Head(toShard[s]) = Spawn(c)
    BY <2>1, HeadTypes DEF IInv
  <2>3. UnderWay(toShard[s], Head(toShard[s]))
    <3>1. toShard[s] \in Seq(ToShardPacket)
      BY DEF IInv, TypeOK
    <3> QED BY <2>1, <3>1, TailFacts
  <2>4. tracker[c] = s /\ ~InShard(s, c)
    BY <2>2, <2>3 DEF IInv, SpawnIsToken
  <2> HIDE DEF c
  <2>5. \A u \in Shards : ~InShard(u, c)
    BY <2>2, <2>4 DEF IInv, LiveWhereTracked
  <2>6. \A t \in Shards, d \in Characters :
          t # s \/ d # c => entities'[t][d] = entities[t][d]
    BY <1>1, <2>1, <2>2 DEF World
  <2>7. \A t \in Shards, d \in Characters :
          t # s \/ d # c => (InShard(t, d)' <=> InShard(t, d))
    BY <2>6 DEF InShard
  <2> QED BY <1>8, <2>1, <2>5, <2>7
<1>10. ASSUME NEW s \in Shards, ReceiveReplicate(s) \/ ReplicateThrows(s)
       PROVE  Deployment!Next
  <2>1. /\ toShard[s] # <<>>
        /\ Head(toShard[s]).type = "ShardSnapshot"
        /\ tracker' = tracker
        /\ \A t \in Shards, c \in Characters : t # s => entities'[t][c] = entities[t][c]
    BY <1>1, <1>10 DEF ReceiveReplicate, ReplicateThrows, FromCampaign
  <2>2. Carries(toShard[s], "ShardSnapshot")
    <3>1. toShard[s] \in Seq(ToShardPacket)
      BY DEF IInv, TypeOK
    <3> QED BY <2>1, <3>1, TailFacts
  <2>3. \A c \in Characters : ~InShard(s, c)
    BY <2>2 DEF IInv, ReplicationIsToken
  <2>4. \A t \in Shards, c \in Characters : t # s => (InShard(t, c)' <=> InShard(t, c))
    BY <2>1 DEF InShard
  <2>5. ASSUME NEW c \in Characters, InShard(s, c)', NEW u \in Shards
        PROVE  ~InShard(u, c)
    <3>1. tracker[c] = s
      BY <2>1, <2>5 DEF IInv, LiveWhereTracked
    <3> QED BY <2>3, <3>1 DEF IInv, LiveWhereTracked
  <2> QED BY <1>8, <2>1, <2>3, <2>4, <2>5
<1>11. ASSUME NEW s \in Shards, NEW c \in Characters, Collect(s, c)
       PROVE  UNCHANGED Deployment!vars
  <2>1. \A t \in Shards, d \in Characters :
          \/ entities'[t][d] = entities[t][d]
          \/ entities[t][d] = "removed" /\ entities'[t][d] = "none"
    BY <1>1, <1>11 DEF Collect, World
  <2>2. \A t \in Shards, d \in Characters : InShard(t, d)' <=> InShard(t, d)
    BY <2>1 DEF InShard, InWorld
  <2>3. tracker' = tracker
    BY <1>11 DEF Collect
  <2> QED BY <2>2, <2>3, SamePlaces
<1>12. ASSUME NEW s \in Shards, NEW c \in Characters, Recall(s, c) \/ Die(s, c)
       PROVE  Deployment!Next
  BY <1>7, <1>12 DEF Recall, Die, InShard
<1>13. CASE CampaignServerStep
  <2>1. CampaignServerStep => LoadSnapshot \/ UNCHANGED <<tracker, entities>>
    BY DEF CampaignServerStep, StartNewCampaign, LoadTornSnapshot, FinishLoading,
           LoadTimeout, Unpause, PublishState, EndSession, FinishAttempt, CollectTimeout,
           Retry, GiveUp, WriteSnapshot, CrashWhileWriting
  <2> QED BY <1>2, <1>4, <1>13, <2>1
<1>14. ASSUME NEW s \in Shards,
              \/ ReceiveShardSnapshot(s) \/ ReceiveReplicated(s)
              \/ ReceiveSnapshotRequest(s) \/ ReceiveState(s)
              \/ Disconnect(s) \/ Reconnect(s)
       PROVE  UNCHANGED Deployment!vars
  BY <1>2, <1>14 DEF ReceiveShardSnapshot, ReceiveReplicated, ReceiveSnapshotRequest,
                     ReceiveState, Disconnect, Reconnect
<1>15. CASE UNCHANGED vars
  BY <1>2, <1>15 DEF vars
<1> QED BY <1>3, <1>5, <1>6, <1>9, <1>10, <1>11, <1>12, <1>13, <1>14, <1>15
        DEF Next, ReceiveFromShard, ShardStep

(* Every behaviour of the cluster is, seen through the trackers and the    *)
(* worlds, one of the abstract life cycle of deployments.                  *)
THEOREM DeploymentRefinement == Spec => ImplementsDeployment
<1>1. IInv => PlaceIsWhereLive
  BY PlaceFacts
<1>2. IInv /\ IInv' /\ PlaceIsWhereLive /\ PlaceIsWhereLive' /\ [Next]_vars
        => [Deployment!Next]_(Deployment!vars)
  BY RefinementStep
<1> QED BY RefinementInit, <1>1, <1>2, InductiveInvariant, PTL
        DEF Spec, ImplementsDeployment, Deployment!Spec

=============================================================================
