--------------------------- MODULE MCMeshDelivery ---------------------------
(* MeshDelivery on small instances. *)
EXTENDS MeshDelivery, TLC

CONSTANTS MeshGateways   \* gateways reached over the mesh; the others over TCP

MCEgressOf == [g \in Gateways |-> g \in MeshGateways]
MCTransportOf == [g \in Gateways |-> IF g \in MeshGateways THEN "mesh" ELSE "tcp"]

=============================================================================
