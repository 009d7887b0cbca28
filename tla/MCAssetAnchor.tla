--------------------------- MODULE MCAssetAnchor ---------------------------
(* AssetAnchor on small instances: one artifact or one epoch root. *)
EXTENDS AssetAnchor, TLC

MCDepth == [a \in Assets |-> IF a \in Manifested THEN 2 ELSE 1]

\* Callers run the same code.
CallerSymmetry == Permutations(Callers)

=============================================================================
