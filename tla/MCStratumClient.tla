------------------------- MODULE MCStratumClient -------------------------
(***************************************************************************)
(* A pool that takes two connections and announces two jobs, of which the  *)
(* second does or does not parse; see stratum_client.cfg.                   *)
(***************************************************************************)
EXTENDS StratumClient

MCBadJobs == {{}, {2}}
==========================================================================
