-------------------------- MODULE MCPieceChallenge --------------------------
(* Three nodes and this one: one of them shares its site, the topology does   *)
(* not know another.  Two verified holders in two sites are asked for.        *)
EXTENDS PieceChallenge

CONSTANTS self, n1, n2, n3

MCNameOrder == <<n1, n2, n3, self>>
At(s, r) == [site |-> s, power |-> s, network |-> s, rack |-> r]
MCSited == self :> At("A", "A1") @@ n1 :> At("A", "A2") @@ n2 :> At("B", "B1") @@ n3 :> At("B", "B1")
MCPublishers == {{n1, n2}}
MCPolicy == [site |-> 2, power |-> 1, network |-> 1, rack |-> 1, holders |-> 2, shards |-> 3]
=============================================================================
