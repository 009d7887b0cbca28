--------------------------- MODULE MCControlPlane ---------------------------
(* A small control plane: two entities and an adapter that declares one of    *)
(* the two actions.                                                           *)
EXTENDS ControlPlane, TLC

MCActionsOf == [a \in Adapters |-> {"switch"}]
NoExtension == {}
EntitySymmetry == Permutations(Entities)
=============================================================================
