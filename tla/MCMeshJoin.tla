----------------------------- MODULE MCMeshJoin -----------------------------
(* Three nodes: the least number of which two can stay apart from the leader. *)
(* Two are started on loopback urls or on LAN urls, and one may be pointed at *)
(* another's Redis, one that comes later in the order of ids too; faults      *)
(* happen where they are all on LAN urls.                                     *)
EXTENDS MeshJoin, TLC

MCRanks     == 1 .. 3
MCMaxFaults == (<<1, 0, 2>> :> 0) @@ (<<0, 2, 2>> :> 0) @@ (<<2, 0, 2>> :> 0)
               @@ (<<3, 2, 3>> :> 0) @@ (<<1, 2, 2>> :> 1)
MCSettings  == DOMAIN MCMaxFaults
=============================================================================
