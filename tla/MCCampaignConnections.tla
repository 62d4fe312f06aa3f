----------------------- MODULE MCCampaignConnections -----------------------
(***************************************************************************)
(* Small clusters for CampaignConnections.                                 *)
(***************************************************************************)
EXTENDS CampaignConnections, TLC

(* Shards are interchangeable, and so are clients.                         *)
Symmetry == Permutations(Shards) \union Permutations(Clients)
=============================================================================
