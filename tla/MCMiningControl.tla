------------------------- MODULE MCMiningControl -------------------------
(***************************************************************************)
(* One HTTP thread and the governor, two starts; see mining_stacked.cfg.    *)
(***************************************************************************)
EXTENDS MiningControl
==========================================================================
