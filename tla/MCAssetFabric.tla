--------------------------- MODULE MCAssetFabric ---------------------------
(* Two threads of one node and one of another, whose clock is switched off.  *)
EXTENDS AssetFabric, TLC

CONSTANTS n1, n2, http1, listener1, http2

MCNodeOf == http1 :> n1 @@ listener1 :> n1 @@ http2 :> n2
=============================================================================
