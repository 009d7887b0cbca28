----------------------------- MODULE RepairPlan -----------------------------
(***************************************************************************)
(* The planning of repairs and of shard placements                          *)
(* (mods/asset_fabric/repair.py, topology.py): functions of who is verified *)
(* to hold an asset, of the candidates, and of the failure domains known.   *)
(* The topology is a function from the nodes it knows to their site, power, *)
(* network and rack.                                                        *)
(***************************************************************************)
EXTENDS Naturals, FiniteSets, Sequences, SequencesExt

CONSTANTS
    Nodes,
    NameOrder,  \* the nodes in the order of their names
    Policy      \* RedundancyPolicy: the floors, and the number of shards

Domains == {"site", "power", "network", "rack"}
Weight  == [site |-> 4, power |-> 3, network |-> 3, rack |-> 2]
Unknown == "unknown"

ASSUME PlanAssumption ==
    /\ IsFiniteSet(Nodes) /\ Nodes = ToSet(NameOrder) /\ NameOrder \in Seq(Nodes)
    /\ Policy.holders \in Nat /\ Policy.shards \in Nat

Rank(n) == CHOOSE i \in DOMAIN NameOrder : NameOrder[i] = n

(* TopologyRegistry.domain_values: a node not known is in domain "unknown"  *)
DomainOf(topo, n, d) == IF n \in DOMAIN topo THEN topo[n][d] ELSE Unknown
DomainValues(topo, d, ns) == {DomainOf(topo, n, d) : n \in ns}

(* RepairPlanner.availability: what the policy asks and the holders lack    *)
Deficits(topo, verified) ==
    {d \in Domains : Cardinality(DomainValues(topo, d, verified)) < Policy[d]}
        \union (IF Cardinality(verified) < Policy.holders THEN {"holders"} ELSE {})

(* What new domains are worth.                                              *)
Worth(new) ==
    LET part(d) == IF d \in new THEN Weight[d] ELSE 0
    IN  part("site") + part("power") + part("network") + part("rack")

(* The new domains a node would bring; a node not known brings a head.      *)
RepairGain(topo, verified, n) ==
    IF n \notin DOMAIN topo THEN 1
    ELSE Worth({d \in Domains : topo[n][d] \notin DomainValues(topo, d, verified)})

(* plan_repair: as many as are lacking, or two when only diversity lacks,   *)
(* the best first and ties by name                                          *)
RepairTargets(topo, verified, candidates) ==
    LET open == candidates \ verified
        gain[n \in open] == RepairGain(topo, verified, n)
        before(m, n) == gain[m] > gain[n] \/ (gain[m] = gain[n] /\ Rank(m) < Rank(n))
        need == IF Cardinality(verified) < Policy.holders
                THEN Policy.holders - Cardinality(verified)
                ELSE IF Deficits(topo, verified) # {} THEN 2 ELSE 0
    IN  {n \in open : Cardinality({m \in open : before(m, n)}) < need}

(* plan_rs_placement: shard by shard a candidate that brings most of the     *)
(* domains the chosen ones lack (of equals the first listed, and the listing *)
(* has no order); one shard for a node, and none for the shards left over.   *)
PlacementGain(topo, chosen, n) ==
    IF n \notin DOMAIN topo THEN 1
    ELSE 1 + Worth({d \in Domains : \A m \in chosen \intersect DOMAIN topo :
                                        topo[m][d] # topo[n][d]})

\* Mutant of BestCandidates: any candidate will do.
BestCandidatesMutant(topo, chosen, rest) == rest

BestCandidates(topo, chosen, rest) ==
    {n \in rest : \A m \in rest :
        PlacementGain(topo, chosen, n) >= PlacementGain(topo, chosen, m)}

\* The placements of one shard more.
Extended(topo, candidates, placements) ==
    UNION {LET rest == candidates \ ToSet(p)
           IN  IF rest = {} THEN {p}
               ELSE {Append(p, n) : n \in BestCandidates(topo, ToSet(p), rest)}
           : p \in placements}

Placements(topo, candidates) ==
    LET place[k \in 0..Policy.shards] ==
          IF k = 0 THEN {<<>>} ELSE Extended(topo, candidates, place[k - 1])
    IN  place[Policy.shards]
=============================================================================
