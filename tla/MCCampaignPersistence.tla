----------------------- MODULE MCCampaignPersistence -----------------------
(***************************************************************************)
(* Small clusters for CampaignPersistence.                                 *)
(***************************************************************************)
EXTENDS CampaignPersistenceRefinement, TLC

(* Shards and characters are interchangeable.                              *)
Symmetry == Permutations(Shards) \union Permutations(Characters)
=============================================================================
