---------------------------- MODULE MCCampaignRun ----------------------------
(* Instances of CampaignRun: two processes, two chunks in each store.      *)
EXTENDS CampaignRun, TLC

CONSTANTS p1, p2
AnyProcess == Permutations(Procs)
=============================================================================
