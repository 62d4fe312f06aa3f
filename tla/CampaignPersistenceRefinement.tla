-------------------- MODULE CampaignPersistenceRefinement --------------------
(***************************************************************************)
(* CampaignPersistence implements CharacterDeployment: a character's owner *)
(* is its tracker, its place the shard whose world it is in.               *)
(***************************************************************************)
EXTENDS CampaignPersistenceInv

Place ==
  [c \in Characters |->
    IF \E s \in Shards : InShard(s, c) THEN CHOOSE s \in Shards : InShard(s, c)
    ELSE NoShard]

Deployment == INSTANCE CharacterDeployment WITH owner <- tracker, place <- Place

(* Through lost packets, crashes, retried saves and resumed sessions, every*)
(* character is deployed, enters, leaves and is given up in that order, on *)
(* one shard at a time (PlayerCharacterTracker and the entities of the     *)
(* shards, SpawnCharacter and CharacterRecalled packet handlers, Campaign- *)
(* SnapshotManager.ReplicateSnapshotAsync).                                *)
ImplementsDeployment == Deployment!Spec
=============================================================================
