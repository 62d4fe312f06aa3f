----------------------- MODULE CampaignPersistenceInv -----------------------
(***************************************************************************)
(* An inductive invariant of CampaignPersistence.                          *)
(*                                                                         *)
(* LiveWhereTracked alone is not inductive: a spawn request under way will *)
(* put a character into a world, a recall notice under way will clear its  *)
(* tracker, and a snapshot under way will do both for a whole shard.  The  *)
(* invariant says that a deployment is a token: the tracker's shard is the *)
(* only place where any of its traces can be (the request under way, the   *)
(* entity in the world, the notice under way), and at most one of them     *)
(* exists at a time.                                                       *)
(***************************************************************************)
EXTENDS CampaignPersistence

AtMostOnce(channel, m) ==
  \A i, j \in 1..Len(channel) : channel[i] = m /\ channel[j] = m => i = j

(* A snapshot under way holds character c, in its world or removed from it.*)
Delivers(channel, c) ==
  \E i \in 1..Len(channel) :
    channel[i].type = "ShardSnapshot" /\ channel[i].world[c] # "none"

(* The phases before InitAsync sets IsInitialized.                         *)
PreInit == phase \in {"starting", "loading", "initFailed"}

(* A spawn request under way is the only trace of its deployment.          *)
SpawnIsToken ==
  \A s \in Shards, c \in Characters :
    /\ AtMostOnce(toShard[s], Spawn(c))
    /\ UnderWay(toShard[s], Spawn(c)) => tracker[c] = s /\ ~InShard(s, c)

(* A recall notice under way is the last trace of its deployment.          *)
RecallIsToken ==
  \A s \in Shards, c \in Characters :
    /\ AtMostOnce(toCampaign[s], Recalled(c))
    /\ UnderWay(toCampaign[s], Recalled(c)) =>
         /\ tracker[c] = s
         /\ ~InShard(s, c)
         /\ ~UnderWay(toShard[s], Spawn(c))

(* Until the campaign server is initialized nobody plays: no deployment or *)
(* recall is under way, and every shard is paused and stays so.            *)
NobodyPlaysBeforeInit ==
  PreInit =>
    /\ statePaused
    /\ \A s \in Shards :
         /\ paused[s]
         /\ ~UnderWay(toShard[s], State(FALSE))
         /\ ~Carries(toShard[s], "Spawn")
         /\ ~Carries(toCampaign[s], "Recalled")

(* A session starts from empty worlds and empty trackers.                  *)
StartsEmpty ==
  phase = "starting" =>
    /\ tracker = NotDeployed
    /\ loaded = {}
    /\ \A s \in Shards :
         /\ \A c \in Characters : ~InShard(s, c)
         /\ ~Carries(toShard[s], "ShardSnapshot")
         /\ ~Carries(toCampaign[s], "Replicated")

(* A snapshot under way to a shard is the one being loaded, is not yet     *)
(* acknowledged, finds an empty world, and holds only characters deployed  *)
(* on that shard.                                                          *)
ReplicationIsToken ==
  \A s \in Shards :
    /\ AtMostOneOf(toShard[s], "ShardSnapshot")
    /\ Carries(toShard[s], "ShardSnapshot") =>
         /\ phase \in {"loading", "initFailed"}
         /\ s \notin loaded
         /\ ~Carries(toCampaign[s], "Replicated")
         /\ \A c \in Characters : ~InShard(s, c)
    /\ \A c \in Characters : Delivers(toShard[s], c) => tracker[c] = s

(* What is on the disk, or about to be, passed the validator.              *)
SavedIsConsistent ==
  /\ disk.state = "whole" => IsConsistent(disk.tracker, disk.worlds)
  /\ phase = "writing" => IsConsistent(cut, answers)

(* What is being loaded is the file: the trackers are the file's, so is    *)
(* every snapshot under way, and a shard that acknowledged its snapshot has*)
(* in its world the characters the file has there.  It is not a part of    *)
(* IInv: it is kept by every step from a state in which IInv holds.        *)
CarriesOnly(channel, world) ==
  \A i \in 1..Len(channel) :
    channel[i].type = "ShardSnapshot" => channel[i].world = world
IsReplica(s) == \A c \in Characters : InShard(s, c) <=> disk.worlds[s][c] = "live"
LoadsTheFile ==
  phase = "loading" =>
    /\ disk.state = "whole"
    /\ tracker = disk.tracker
    /\ \A s \in Shards :
         /\ CarriesOnly(toShard[s], disk.worlds[s])
         /\ s \in loaded \/ Carries(toCampaign[s], "Replicated") => IsReplica(s)

IInv ==
  /\ TypeOK
  /\ LiveWhereTracked
  /\ SpawnIsToken
  /\ RecallIsToken
  /\ NobodyPlaysBeforeInit
  /\ StartsEmpty
  /\ ReplicationIsToken
  /\ SavedIsConsistent

=============================================================================
