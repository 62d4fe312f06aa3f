------------------------ MODULE CampaignPersistence ------------------------
(***************************************************************************)
(* The campaign server, its shard servers and the persistence snapshot     *)
(* that carries a campaign from one session to the next.                   *)
(*                                                                         *)
(* The campaign server keeps one tracker per player character (the shard   *)
(* it is deployed on, or none).  Each shard server keeps the entities of   *)
(* its world.  The two are tied together only by packets on one web socket *)
(* per shard: a spawn request travels down, a recall notice travels up, and*)
(* so do the request for a shard's snapshot and its answer.  At the end of *)
(* a session the campaign server copies its trackers, asks every shard for *)
(* its entities, checks that the two fit together, and writes the result to*)
(* a file; the next session starts by replicating that file.               *)
(*                                                                         *)
(* One session of the model is one run of CampaignServerMain.InitAsync and *)
(* of the shard servers started with it.  A restart restarts the whole     *)
(* cluster, at any moment (the end of a session or a crash).               *)
(***************************************************************************)
EXTENDS Naturals, Sequences, FiniteSets

CONSTANTS
  Shards,          \* ids of the shard servers (CampaignOptions.ShardIds)
  Characters,      \* ids of the player characters
  NoShard,         \* PlayerCharacterTracker.Shard == null
  MaxAttempts,     \* CampaignSnapshotManager.InconsistencyRetryMaxCount
  MaxSessions,     \* bound: sessions played
  MaxDeploys,      \* bound: characters deployed, over all sessions
  MaxDeaths,       \* bound: characters killed, over all sessions
  MaxDisconnects   \* bound: web socket connections lost, over all sessions

ASSUME ShardsAssumption == NoShard \notin Shards
ASSUME BoundsAssumption ==
  /\ MaxAttempts \in Nat \ {0}
  /\ MaxSessions \in Nat
  /\ MaxDeploys \in Nat
  /\ MaxDeaths \in Nat
  /\ MaxDisconnects \in Nat

VARIABLES
  (* the campaign server *)
  phase,           \* where InitAsync stands
  tracker,         \* PlayerCharacterTrackerRepository: shard of each character
  statePaused,     \* SynchronizedCampaignStateRepository.Value.IsPaused
  stateChanged,    \* its _isChanged flag
  stateRequesters, \* its _valueRequesterIds (the shards among them)
  loaded,          \* shards whose _shardSnapshotReplicatedTcs is completed
  attempt,         \* i + 1 of CreateSnapshotAsync's loop, 0 outside it
  cut,             \* the trackers copied when the attempt started
  answered,        \* shards whose _shardSnapshotTcs is completed
  answers,         \* the shard snapshots they were completed with
  (* the shard servers *)
  entities,        \* EntityManager: status of each character's entity
  paused,          \* SceneTree.Paused
  (* the web sockets between them *)
  connected,       \* shards whose web socket is open
  toShard,         \* packets under way to each shard, in order
  toCampaign,      \* packets under way from each shard, in order
  (* the snapshot file, and the counters that bound the model *)
  disk, sessions, deploys, deaths, disconnects

campaignVars == <<tracker, statePaused, stateChanged, stateRequesters>>
saveVars == <<attempt, cut, answered, answers>>
shardVars == <<entities, paused>>
netVars == <<connected, toShard, toCampaign>>
boundVars == <<sessions, deploys, deaths, disconnects>>
vars == <<phase, campaignVars, loaded, saveVars, shardVars, netVars, disk, boundVars>>

-----------------------------------------------------------------------------
(***************************************************************************)
(* Values.                                                                 *)
(***************************************************************************)

(* What a shard's EntityManager holds of a character:                      *)
(*   none       nothing, or a weak reference whose target was collected    *)
(*   live       an entity in _entities with one Removed subscription       *)
(*   respawned  an entity in _entities that was respawned, and so carries  *)
(*              one Removed subscription per Add                           *)
(*   removed    an entity in _removedEntities that is still reachable      *)
Status == {"none", "live", "respawned", "removed"}
InWorld == {"live", "respawned"}

World == [Characters -> Status]
EmptyWorld == [c \in Characters |-> "none"]

(* EntityManager.CreateEntitySnapshots: what a snapshot tells of a world.  *)
WorldSnapshot == [Characters -> {"none", "live", "removed"}]
\* Faulty variant: a snapshot that tells a respawned entity from a new one.
RawSnapshot(world) == world
ToSnapshot(world) ==
  [c \in Characters |-> IF world[c] = "respawned" THEN "live" ELSE world[c]]

Placement == [Characters -> Shards \union {NoShard}]
NotDeployed == [c \in Characters |-> NoShard]

Phase == {"starting",    \* waiting for the shards, nothing loaded yet
          "loading",     \* ReplicateSnapshotAsync awaits the shards
          "initFailed",  \* InitAsync threw before IsInitialized
          "ready",       \* initialized, paused for the first 15 seconds
          "running",     \* unpaused
          "collecting",  \* GetShardSnapshotsAsync awaits the shards
          "retrying",    \* an attempt was inconsistent, the retry delay runs
          "writing",     \* a consistent snapshot is being written
          "ended",       \* the session ended and was saved
          "saveFailed",  \* CreateSnapshotAsync threw
          "crashed"}     \* the campaign server died while writing

Initialized == phase \in {"ready", "running", "collecting", "retrying",
                          "writing", "ended", "saveFailed"}

(* SpawnCharacterPacket, ShardSnapshotRequestPacket, ShardSnapshotPacket,  *)
(* SynchronizedCampaignStatePacket, CharacterRecalledPacket and            *)
(* ShardSnapshotReplicatedPacket.                                          *)
Spawn(c) == [type |-> "Spawn", char |-> c]
SnapshotRequest == [type |-> "SnapshotRequest"]
ShardSnapshot(w) == [type |-> "ShardSnapshot", world |-> w]
State(p) == [type |-> "State", isPaused |-> p]
Recalled(c) == [type |-> "Recalled", char |-> c]
Replicated == [type |-> "Replicated"]

ToShardPacket ==
  {Spawn(c) : c \in Characters} \union {SnapshotRequest}
    \union {ShardSnapshot(w) : w \in WorldSnapshot} \union {State(p) : p \in BOOLEAN}
ToCampaignPacket ==
  {Recalled(c) : c \in Characters} \union {ShardSnapshot(w) : w \in WorldSnapshot}
    \union {Replicated}

(* The snapshot file: absent, torn by a crash while it was written, or     *)
(* whole, with a CampaignSnapshot in it.                                   *)
File == [state : {"absent", "torn", "whole"},
         tracker : Placement,
         worlds : [Shards -> WorldSnapshot]]
EmptyFile(state) == [state |-> state, tracker |-> NotDeployed,
                     worlds |-> [s \in Shards |-> EmptyWorld]]

TypeOK ==
  /\ phase \in Phase
  /\ tracker \in Placement
  /\ statePaused \in BOOLEAN
  /\ stateChanged \in BOOLEAN
  /\ stateRequesters \in SUBSET Shards
  /\ loaded \in SUBSET Shards
  /\ attempt \in Nat
  /\ cut \in Placement
  /\ answered \in SUBSET Shards
  /\ answers \in [Shards -> WorldSnapshot]
  /\ entities \in [Shards -> World]
  /\ paused \in [Shards -> BOOLEAN]
  /\ connected \in SUBSET Shards
  /\ toShard \in [Shards -> Seq(ToShardPacket)]
  /\ toCampaign \in [Shards -> Seq(ToCampaignPacket)]
  /\ disk \in File
  /\ sessions \in Nat
  /\ deploys \in Nat
  /\ deaths \in Nat
  /\ disconnects \in Nat

-----------------------------------------------------------------------------
(***************************************************************************)
(* Sending.  The campaign server drops a packet for a shard that is not    *)
(* connected without a word; on a shard PutPacket fails instead.           *)
(***************************************************************************)
SendTo(s, m) ==
  [toShard EXCEPT ![s] = IF s \in connected THEN Append(@, m) ELSE @]

Broadcast(m) ==
  [s \in Shards |-> IF s \in connected THEN Append(toShard[s], m) ELSE toShard[s]]

SendState(receivers) ==
  [s \in Shards |-> IF s \in connected \intersect receivers
                    THEN Append(toShard[s], State(statePaused)) ELSE toShard[s]]

SendWorlds(worlds) ==
  [s \in Shards |-> IF s \in connected
                    THEN Append(toShard[s], ShardSnapshot(worlds[s])) ELSE toShard[s]]

Reply(s, m) ==
  [toCampaign EXCEPT ![s] = IF s \in connected THEN Append(@, m) ELSE @]

(***************************************************************************)
(* The start of a session: every process starts from nothing.              *)
(***************************************************************************)
FreshCluster ==
  /\ phase' = "starting"
  /\ tracker' = NotDeployed
  /\ statePaused' = TRUE
  /\ stateChanged' = FALSE
  /\ stateRequesters' = Shards
  /\ loaded' = {}
  /\ attempt' = 0
  /\ cut' = NotDeployed
  /\ answered' = {}
  /\ answers' = [s \in Shards |-> EmptyWorld]
  /\ entities' = [s \in Shards |-> EmptyWorld]
  /\ paused' = [s \in Shards |-> TRUE]
  /\ connected' = Shards
  /\ toShard' = [s \in Shards |-> <<>>]
  /\ toCampaign' = [s \in Shards |-> <<>>]

Init ==
  /\ phase = "starting"
  /\ tracker = NotDeployed
  /\ statePaused = TRUE
  /\ stateChanged = FALSE
  /\ stateRequesters = Shards
  /\ loaded = {}
  /\ attempt = 0
  /\ cut = NotDeployed
  /\ answered = {}
  /\ answers = [s \in Shards |-> EmptyWorld]
  /\ entities = [s \in Shards |-> EmptyWorld]
  /\ paused = [s \in Shards |-> TRUE]
  /\ connected = Shards
  /\ toShard = [s \in Shards |-> <<>>]
  /\ toCampaign = [s \in Shards |-> <<>>]
  /\ disk = EmptyFile("absent")
  /\ sessions = 0
  /\ deploys = 0
  /\ deaths = 0
  /\ disconnects = 0

(* The whole cluster stops, or crashes, and is started again.              *)
Restart ==
  /\ sessions < MaxSessions
  /\ sessions' = sessions + 1
  /\ FreshCluster
  /\ UNCHANGED <<disk, deploys, deaths, disconnects>>

-----------------------------------------------------------------------------
(***************************************************************************)
(* Initialization of the campaign server: TryLoadSnapshotAsync and         *)
(* ReplicateSnapshotAsync.  The barrier on the shards' local init that     *)
(* follows changes none of the state modelled here.                        *)
(***************************************************************************)
StartNewCampaign ==
  /\ phase = "starting"
  /\ disk.state = "absent"
  /\ phase' = "ready"
  /\ UNCHANGED <<campaignVars, loaded, saveVars, shardVars, netVars, disk, boundVars>>

(* Deserialize throws on a file that was torn.                             *)
LoadTornSnapshot ==
  /\ phase = "starting"
  /\ disk.state = "torn"
  /\ phase' = "initFailed"
  /\ UNCHANGED <<campaignVars, loaded, saveVars, shardVars, netVars, disk, boundVars>>

LoadSnapshot ==
  /\ phase = "starting"
  /\ disk.state = "whole"
  /\ phase' = "loading"
  /\ tracker' = disk.tracker
  /\ toShard' = SendWorlds(disk.worlds)
  /\ UNCHANGED <<statePaused, stateChanged, stateRequesters, loaded, saveVars,
                 shardVars, connected, toCampaign, disk, boundVars>>

\* Faulty variant: proceed once any shard has answered (WhenAny for WhenAll).
AnyLoaded == loaded # {}
AllLoaded == loaded = Shards

FinishLoading ==
  /\ phase = "loading"
  /\ AllLoaded
  /\ phase' = "ready"
  /\ loaded' = {}
  /\ UNCHANGED <<campaignVars, saveVars, shardVars, netVars, disk, boundVars>>

\* Faulty variant: wait for the shards without a timeout.
NoLoadTimeout == FALSE
LoadTimeout ==
  /\ phase = "loading"
  /\ loaded # Shards
  /\ phase' = "initFailed"
  /\ loaded' = {}
  /\ UNCHANGED <<campaignVars, saveVars, shardVars, netVars, disk, boundVars>>

-----------------------------------------------------------------------------
(***************************************************************************)
(* The session: unpausing, publishing the paused flag, deploying.          *)
(***************************************************************************)
Unpause ==
  /\ phase = "ready"
  /\ phase' = "running"
  /\ statePaused' = FALSE
  /\ stateChanged' = TRUE
  /\ UNCHANGED <<tracker, stateRequesters, loaded, saveVars, shardVars, netVars,
                 disk, boundVars>>

(* SynchronizedCampaignStateRepository.Tick, run by the physics process.   *)
PublishState ==
  /\ stateChanged \/ stateRequesters # {}
  /\ toShard' = SendState(IF stateChanged THEN Shards ELSE stateRequesters)
  /\ stateChanged' = FALSE
  /\ stateRequesters' = {}
  /\ UNCHANGED <<phase, tracker, statePaused, loaded, saveVars, shardVars, connected,
                 toCampaign, disk, boundVars>>

\* Faulty variant: deploy without looking at the tracker.
MayDeployAgain(c) == Initialized
MayDeploy(c) == Initialized /\ tracker[c] = NoShard

(* CampaignServerSpawnCharacterPacketHandler: a player deploys c on s.     *)
Deploy(c, s) ==
  /\ deploys < MaxDeploys
  /\ MayDeploy(c)
  /\ tracker' = [tracker EXCEPT ![c] = s]
  /\ toShard' = SendTo(s, Spawn(c))
  /\ deploys' = deploys + 1
  /\ UNCHANGED <<phase, statePaused, stateChanged, stateRequesters, loaded, saveVars,
                 shardVars, connected, toCampaign, disk, sessions, deaths, disconnects>>

-----------------------------------------------------------------------------
(***************************************************************************)
(* The campaign server handles the first packet from shard s.              *)
(***************************************************************************)
FromShard(s, type) ==
  /\ toCampaign[s] # <<>>
  /\ Head(toCampaign[s]).type = type
  /\ toCampaign' = [toCampaign EXCEPT ![s] = Tail(@)]

(* CharacterRecalledPacketHandler clears the tracker whatever it holds.    *)
ReceiveRecalled(s) ==
  /\ FromShard(s, "Recalled")
  /\ tracker' = [tracker EXCEPT ![Head(toCampaign[s]).char] = NoShard]
  /\ UNCHANGED <<phase, statePaused, stateChanged, stateRequesters, loaded, saveVars,
                 shardVars, connected, toShard, disk, boundVars>>

(* ReceiveShardSnapshotPacket: an answer that was not requested, or came   *)
(* twice, is thrown away with an exception.                                *)
ReceiveShardSnapshot(s) ==
  /\ FromShard(s, "ShardSnapshot")
  /\ IF phase = "collecting" /\ s \notin answered
     THEN /\ answered' = answered \union {s}
          /\ answers' = [answers EXCEPT ![s] = Head(toCampaign[s]).world]
     ELSE UNCHANGED <<answered, answers>>
  /\ UNCHANGED <<phase, campaignVars, loaded, attempt, cut, shardVars, connected,
                 toShard, disk, boundVars>>

(* ReceiveShardSnapshotReplicatedPacket.                                   *)
ReceiveReplicated(s) ==
  /\ FromShard(s, "Replicated")
  /\ loaded' = IF phase = "loading" THEN loaded \union {s} ELSE loaded
  /\ UNCHANGED <<phase, campaignVars, saveVars, shardVars, connected, toShard,
                 disk, boundVars>>

-----------------------------------------------------------------------------
(***************************************************************************)
(* Saving the session: CampaignSnapshotManager.CreateSnapshotAsync.        *)
(***************************************************************************)

\* Faulty variant: an attempt that is not counted.
SameAttempt == attempt
NextAttempt == attempt + 1

(* An attempt copies the trackers, then asks every shard at once.          *)
BeginAttempt ==
  /\ phase' = "collecting"
  /\ attempt' = NextAttempt
  /\ cut' = tracker
  /\ answered' = {}
  /\ answers' = [s \in Shards |-> EmptyWorld]
  /\ toShard' = Broadcast(SnapshotRequest)

(* The session is over: Pause, then the first attempt, with no await       *)
(* between them.                                                           *)
EndSession ==
  /\ phase = "running"
  /\ statePaused' = TRUE
  /\ stateChanged' = TRUE
  /\ BeginAttempt
  /\ UNCHANGED <<tracker, stateRequesters, loaded, shardVars, connected, toCampaign,
                 disk, boundVars>>

(* CampaignSnapshotCrossServerConsistencyValidator: deployed characters    *)
(* are on their shard, and what a shard holds is deployed there.  That the *)
(* snapshots are those of the shards, its first check, holds by how an     *)
(* attempt is put together.                                                *)
DeployedArePresent(placement, worlds) ==
  \A c \in Characters :
    placement[c] # NoShard => worlds[placement[c]][c] # "none"
PresentAreDeployed(placement, worlds) ==
  \A s \in Shards, c \in Characters : worlds[s][c] # "none" => placement[c] = s

\* Faulty variant: one half of the validator alone.
ConsistentOtherWay(placement, worlds) == PresentAreDeployed(placement, worlds)
IsConsistent(placement, worlds) ==
  /\ DeployedArePresent(placement, worlds)
  /\ PresentAreDeployed(placement, worlds)

\* Faulty variant: an attempt is complete once any shard has answered.
AnyAnswered == answered # {}
AllAnswered == answered = Shards

FinishAttempt ==
  /\ phase = "collecting"
  /\ AllAnswered
  /\ phase' = IF IsConsistent(cut, answers) THEN "writing" ELSE "retrying"
  /\ UNCHANGED <<campaignVars, loaded, saveVars, shardVars, netVars, disk, boundVars>>

CollectTimeout ==
  /\ phase = "collecting"
  /\ answered # Shards
  /\ phase' = "saveFailed"
  /\ UNCHANGED <<campaignVars, loaded, saveVars, shardVars, netVars, disk, boundVars>>

(* The retry delay is over.                                                *)
Retry ==
  /\ phase = "retrying"
  /\ attempt < MaxAttempts
  /\ BeginAttempt
  /\ UNCHANGED <<campaignVars, loaded, shardVars, connected, toCampaign, disk, boundVars>>

GiveUp ==
  /\ phase = "retrying"
  /\ attempt = MaxAttempts
  /\ phase' = "saveFailed"
  /\ UNCHANGED <<campaignVars, loaded, saveVars, shardVars, netVars, disk, boundVars>>

(* File.WriteAllBytes truncates the file and then fills it: a process that *)
(* dies in between leaves a torn file.                                     *)
WriteSnapshot ==
  /\ phase = "writing"
  /\ disk' = [state |-> "whole", tracker |-> cut, worlds |-> answers]
  /\ phase' = "ended"
  /\ UNCHANGED <<campaignVars, loaded, saveVars, shardVars, netVars, boundVars>>

CrashWhileWriting ==
  /\ phase = "writing"
  /\ disk' = EmptyFile("torn")
  /\ phase' = "crashed"
  /\ UNCHANGED <<campaignVars, loaded, saveVars, shardVars, netVars, boundVars>>

-----------------------------------------------------------------------------
(***************************************************************************)
(* A shard server handles the first packet from the campaign server.       *)
(***************************************************************************)
FromCampaign(s, type) ==
  /\ toShard[s] # <<>>
  /\ Head(toShard[s]).type = type
  /\ toShard' = [toShard EXCEPT ![s] = Tail(@)]

(* EntityManager.SpawnPlayerCharacter: a removed entity that is still      *)
(* reachable is respawned; one that is in the world makes it throw.        *)
AfterSpawn(status) ==
  IF status = "none" THEN "live"
  ELSE IF status = "removed" THEN "respawned" ELSE status

ReceiveSpawn(s) ==
  /\ FromCampaign(s, "Spawn")
  /\ LET c == Head(toShard[s]).char
     IN  entities' = [entities EXCEPT ![s][c] = AfterSpawn(@)]
  /\ UNCHANGED <<phase, campaignVars, loaded, saveVars, paused, connected, toCampaign,
                 disk, boundVars>>

(* ShardPersistenceSnapshotManager.CreateSnapshot.                         *)
ReceiveSnapshotRequest(s) ==
  /\ FromCampaign(s, "SnapshotRequest")
  /\ toCampaign' = Reply(s, ShardSnapshot(ToSnapshot(entities[s])))
  /\ UNCHANGED <<phase, campaignVars, loaded, saveVars, shardVars, connected, disk,
                 boundVars>>

(* SceneTreePauser.Update.                                                 *)
ReceiveState(s) ==
  /\ FromCampaign(s, "State")
  /\ paused' = [paused EXCEPT ![s] = Head(toShard[s]).isPaused]
  /\ UNCHANGED <<phase, campaignVars, loaded, saveVars, entities, connected, toCampaign,
                 disk, boundVars>>

(* EntityManager.ReplicateEntitySnapshots: everything in the snapshot is   *)
(* spawned, everything else removed, then each entity takes its snapshot.  *)
Replica(world, snapshot) ==
  [c \in Characters |->
    IF snapshot[c] = "live"
    THEN IF world[c] \in InWorld THEN world[c] ELSE "live"
    ELSE IF snapshot[c] = "removed" \/ world[c] \in InWorld THEN "removed" ELSE world[c]]

ReceiveReplicate(s) ==
  /\ FromCampaign(s, "ShardSnapshot")
  /\ entities' = [entities EXCEPT ![s] = Replica(@, Head(toShard[s]).world)]
  /\ toCampaign' = Reply(s, Replicated)
  /\ UNCHANGED <<phase, campaignVars, loaded, saveVars, paused, connected, disk,
                 boundVars>>

(* The same, thrown out of by an entity that refers to one of the entities *)
(* removed before it: the removed entities after it stay in the world, and *)
(* the campaign server is told nothing.                                    *)
ReplicateThrows(s) ==
  /\ FromCampaign(s, "ShardSnapshot")
  /\ LET snapshot == Head(toShard[s]).world
         removed == {c \in Characters : snapshot[c] = "removed"}
     IN  \E late \in SUBSET removed \ {removed} :
           entities' = [entities EXCEPT ![s] =
             Replica(@, [c \in Characters |-> IF c \in late THEN "live"
                                              ELSE snapshot[c]])]
  /\ UNCHANGED <<phase, campaignVars, loaded, saveVars, paused, connected, toCampaign,
                 disk, boundVars>>

-----------------------------------------------------------------------------
(***************************************************************************)
(* A shard's simulation, which runs only while the scene tree is unpaused. *)
(***************************************************************************)

(* RecallAbility.TakeEffect: Remove, then the notice.  Remove runs every   *)
(* subscription of Removed; the second one of a respawned entity throws    *)
(* (EntityNodeManager has forgotten the node), and so does PutPacket when  *)
(* the web socket is down: in both cases no notice is sent.                *)
Recall(s, c) ==
  /\ ~paused[s]
  /\ entities[s][c] \in InWorld
  /\ entities' = [entities EXCEPT ![s][c] = "removed"]
  /\ toCampaign' = IF entities[s][c] = "respawned" THEN toCampaign
                   ELSE Reply(s, Recalled(c))
  /\ UNCHANGED <<phase, campaignVars, loaded, saveVars, paused, connected, toShard,
                 disk, boundVars>>

(* Unit.Die: nobody tells the campaign server.                             *)
Die(s, c) ==
  /\ deaths < MaxDeaths
  /\ ~paused[s]
  /\ entities[s][c] \in InWorld
  /\ entities' = [entities EXCEPT ![s][c] = "removed"]
  /\ deaths' = deaths + 1
  /\ UNCHANGED <<phase, campaignVars, loaded, saveVars, paused, netVars, disk, sessions,
                 deploys, disconnects>>

(* The last reference to a removed entity went away, and it was collected. *)
Collect(s, c) ==
  /\ entities[s][c] = "removed"
  /\ entities' = [entities EXCEPT ![s][c] = "none"]
  /\ UNCHANGED <<phase, campaignVars, loaded, saveVars, paused, netVars, disk, boundVars>>

(* A web socket breaks, with what is under way in it; the shard connects   *)
(* again by itself, and is then due the campaign state.                    *)
Disconnect(s) ==
  /\ disconnects < MaxDisconnects
  /\ s \in connected
  /\ connected' = connected \ {s}
  /\ toShard' = [toShard EXCEPT ![s] = <<>>]
  /\ toCampaign' = [toCampaign EXCEPT ![s] = <<>>]
  /\ disconnects' = disconnects + 1
  /\ UNCHANGED <<phase, campaignVars, loaded, saveVars, shardVars, disk, sessions,
                 deploys, deaths>>

Reconnect(s) ==
  /\ s \notin connected
  /\ connected' = connected \union {s}
  /\ stateRequesters' = stateRequesters \union {s}
  /\ UNCHANGED <<phase, tracker, statePaused, stateChanged, loaded, saveVars, shardVars,
                 toShard, toCampaign, disk, boundVars>>

-----------------------------------------------------------------------------
CampaignServerStep ==
  \/ StartNewCampaign \/ LoadTornSnapshot \/ LoadSnapshot
  \/ FinishLoading \/ LoadTimeout
  \/ Unpause \/ PublishState \/ EndSession
  \/ FinishAttempt \/ CollectTimeout \/ Retry \/ GiveUp
  \/ WriteSnapshot \/ CrashWhileWriting

ReceiveFromShard(s) ==
  ReceiveRecalled(s) \/ ReceiveShardSnapshot(s) \/ ReceiveReplicated(s)

ShardStep(s) ==
  \/ ReceiveSpawn(s) \/ ReceiveSnapshotRequest(s) \/ ReceiveState(s)
  \/ ReceiveReplicate(s) \/ ReplicateThrows(s)
  \/ \E c \in Characters : Recall(s, c) \/ Die(s, c) \/ Collect(s, c)

Next ==
  \/ Restart
  \/ CampaignServerStep
  \/ \E s \in Shards :
       \/ ReceiveFromShard(s)
       \/ ShardStep(s)
       \/ Disconnect(s)
       \/ Reconnect(s)
       \/ \E c \in Characters : Deploy(c, s)

Spec == Init /\ [][Next]_vars

(* Timers fire and continuations run: the campaign server's own steps are  *)
(* fair.  Nothing is assumed of the shards, the players or the network.    *)
Fairness ==
  /\ WF_vars(StartNewCampaign) /\ WF_vars(LoadTornSnapshot) /\ WF_vars(LoadSnapshot)
  /\ WF_vars(FinishLoading) /\ WF_vars(LoadTimeout)
  /\ WF_vars(Unpause) /\ WF_vars(EndSession)
  /\ WF_vars(FinishAttempt) /\ WF_vars(CollectTimeout)
  /\ WF_vars(Retry) /\ WF_vars(GiveUp) /\ WF_vars(WriteSnapshot)

FairSpec == Spec /\ Fairness

-----------------------------------------------------------------------------
(***************************************************************************)
(* What must hold.                                                         *)
(***************************************************************************)
UnderWay(channel, m) == \E i \in 1..Len(channel) : channel[i] = m
Carries(channel, type) == \E i \in 1..Len(channel) : channel[i].type = type
AtMostOneOf(channel, type) ==
  \A i, j \in 1..Len(channel) : channel[i].type = type /\ channel[j].type = type => i = j
InShard(s, c) == entities[s][c] \in InWorld

(* A character lives in the world of one shard at most, the one its        *)
(* tracker names: neither a redeployment that overtakes a recall, nor a    *)
(* lost packet, nor a session resumed from a snapshot that was cut while   *)
(* the character moved, makes a second copy of it                          *)
(* (CampaignServerSpawnCharacterPacketHandler, CharacterRecalledPacket-    *)
(* Handler, RecallAbility, CampaignSnapshotCrossServerConsistencyValidator)*)
LiveWhereTracked ==
  \A s \in Shards, c \in Characters : InShard(s, c) => tracker[c] = s

(* A shard is never asked to spawn a character that is in its world, so    *)
(* SpawnPlayerCharacter never throws "Entity with this id already exists". *)
SpawnFindsNoEntity ==
  \A s \in Shards, c \in Characters : UnderWay(toShard[s], Spawn(c)) => ~InShard(s, c)

(* A tracker is cleared only by a notice from the shard it names: no old   *)
(* notice ever undoes a later deployment (CharacterRecalledPacketHandler   *)
(* looks neither at the sender nor at the tracker's shard).                *)
RecallClearsOwnDeployment ==
  [][\A s \in Shards, c \in Characters :
       /\ tracker[c] = s
       /\ tracker'[c] # s
       /\ phase' # "starting"
       => /\ tracker'[c] = NoShard
          /\ toCampaign[s] # <<>>
          /\ Head(toCampaign[s]) = Recalled(c)]_vars

(* The snapshot requests and answers under way belong to the attempt that  *)
(* is collecting: at most one for a shard, none for a shard that has       *)
(* answered, and none at all outside an attempt, unless the save failed    *)
(* (CampaignSnapshotManager._shardSnapshotTcs).  So no attempt takes the   *)
(* answer to an earlier one for its own, and ReceiveShardSnapshotPacket    *)
(* never throws while the session can still be saved.                      *)
Awaited(s) == (phase = "collecting" /\ s \notin answered) \/ phase = "saveFailed"
AnswerMatchesRequest(s) ==
  /\ AtMostOneOf(toShard[s], "SnapshotRequest")
  /\ AtMostOneOf(toCampaign[s], "ShardSnapshot")
  /\ ~(Carries(toShard[s], "SnapshotRequest") /\ Carries(toCampaign[s], "ShardSnapshot"))
  /\ Carries(toShard[s], "SnapshotRequest") => Awaited(s)
  /\ Carries(toCampaign[s], "ShardSnapshot") => Awaited(s)
AnswersMatchRequests == \A s \in Shards : AnswerMatchesRequest(s)

(* A session starts from exactly what the last save wrote: when loading    *)
(* is done every shard's world holds the characters the file holds in it,  *)
(* and every deployed character is one of them                             *)
(* (CampaignSnapshotManager.ReplicateSnapshotAsync, Docs/Overview.md).     *)
ResumeIsExact ==
  [][phase = "loading" /\ phase' = "ready" =>
       /\ tracker = disk.tracker
       /\ \A s \in Shards, c \in Characters :
            InShard(s, c) <=> disk.worlds[s][c] = "live"
       /\ \A c \in Characters :
            tracker[c] # NoShard => disk.worlds[tracker[c]][c] # "none"]_vars

(* Starting ends: the session runs or its initialization failed, however   *)
(* the shards behave (ReplicateSnapshotAsync's timeout).                   *)
LoadSettles == phase = "starting" ~> phase \in {"running", "initFailed"}

(* Saving ends: the session is saved or saving failed, however the shards  *)
(* behave (CreateSnapshotAsync's timeout and bounded retries).             *)
SaveSettles ==
  phase = "collecting" ~> phase \in {"ended", "saveFailed", "crashed", "starting"}

(***************************************************************************)
(* What the code's comments promise and its steps do not keep.             *)
(***************************************************************************)

(* A deployed character is in its shard's world, or a packet that will     *)
(* put it there or take it off is under way: "stuck in transit" lasts only *)
(* as long as a packet does (Gameplay/SpawnCharacterPacketHandler).        *)
NotStuckInTransit ==
  Initialized =>
    \A c \in Characters : tracker[c] # NoShard =>
      \/ InShard(tracker[c], c)
      \/ UnderWay(toShard[tracker[c]], Spawn(c))
      \/ UnderWay(toCampaign[tracker[c]], Recalled(c))

(* With nothing under way, the servers agree and a snapshot taken now      *)
(* passes validation, removed entities and all (EntityManager's comment on *)
(* _removedEntities).                                                      *)
QuiescentCutIsConsistent ==
  /\ Initialized
  /\ \A s \in Shards : toShard[s] = <<>> /\ toCampaign[s] = <<>>
  => IsConsistent(tracker, [s \in Shards |-> ToSnapshot(entities[s])])

(* The game is paused before the snapshot is taken (Docs/Overview.md).     *)
SnapshotTakenPaused ==
  [][\A s \in Shards : ReceiveSnapshotRequest(s) => paused[s]]_vars

=============================================================================
