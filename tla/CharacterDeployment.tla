------------------------ MODULE CharacterDeployment ------------------------
(***************************************************************************)
(* What a cluster promises of a player character, without packets,         *)
(* snapshots or failures: the campaign server records an owner, the shard  *)
(* the character is deployed on, and the character is in the world of its  *)
(* owner or in none.  A deployment is claimed before the character enters, *)
(* and given up only after it left.                                        *)
(***************************************************************************)
CONSTANTS Shards, Characters, NoShard

VARIABLES
  owner,   \* the shard each character is deployed on, or NoShard
  place    \* the shard whose world it is in, or NoShard

vars == <<owner, place>>

Nowhere == [c \in Characters |-> NoShard]

Init == owner = Nowhere /\ place = Nowhere

(* A player deploys a character that is not deployed.                      *)
Claim(c, s) ==
  /\ owner[c] = NoShard
  /\ owner' = [owner EXCEPT ![c] = s]
  /\ UNCHANGED place

(* Deployed characters enter the worlds of their owners: one at a time in  *)
(* play, all those of a shard at once when a session is resumed.           *)
Enter(C) ==
  /\ \A c \in C : owner[c] # NoShard /\ place[c] = NoShard
  /\ place' = [c \in Characters |-> IF c \in C THEN owner[c] ELSE place[c]]
  /\ UNCHANGED owner

(* A character is recalled or dies.                                        *)
Leave(c) ==
  /\ place[c] # NoShard
  /\ place' = [place EXCEPT ![c] = NoShard]
  /\ UNCHANGED owner

(* The end of a deployment is recorded.                                    *)
Release(c) ==
  /\ owner[c] # NoShard
  /\ place[c] = NoShard
  /\ owner' = [owner EXCEPT ![c] = NoShard]
  /\ UNCHANGED place

(* A new session starts, with nobody deployed.                             *)
Restart == owner' = Nowhere /\ place' = Nowhere

(* A session is resumed: the deployments of an earlier one are taken over. *)
Resume(saved) ==
  /\ owner = Nowhere
  /\ owner' = saved
  /\ UNCHANGED place

Next ==
  \/ Restart
  \/ \E saved \in [Characters -> Shards \union {NoShard}] : Resume(saved)
  \/ \E C \in SUBSET Characters : Enter(C)
  \/ \E c \in Characters :
       Leave(c) \/ Release(c) \/ \E s \in Shards : Claim(c, s)

Spec == Init /\ [][Next]_vars
=============================================================================
