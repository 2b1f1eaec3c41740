-------------------------- MODULE MCCampaignDispatch --------------------------
(* Small instances of CampaignDispatch for TLC. *)
EXTENDS CampaignDispatch, TLC

CONSTANTS w1, w2, r1, r2

Symmetry == Permutations(Workers) \union Permutations(Recipients)
===============================================================================
