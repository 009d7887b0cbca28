----------------------------- MODULE RouteTable -----------------------------
(***************************************************************************)
(* comms/routing/route.py: RouteManager over the gateway registry.         *)
(*                                                                         *)
(* A route is a destination and its next hop: the destination itself (the  *)
(* route mesh:<node>) or a gateway (gw:<gateway>:<node>).  Destinations    *)
(* are nodes and services, the only ones the mesh delivers to.  Backoffs,  *)
(* expiries and the hysteresis hold are the time they have left.           *)
(***************************************************************************)
EXTENDS GatewayRegistry

CONSTANTS
    Nodes,         \* destinations: nodes and services of the mesh
    RouteTTL,      \* default_ttl of a route (120 s)
    HoldTime,      \* hysteresis_hold (5 s)
    MaxBackoff     \* longest backoff of a failing route or peer (32 s)

ASSUME RouteAssumption ==
    /\ Nodes # {} /\ Nodes \cap Gateways = {}
    /\ RouteTTL \in Nat \ {0}
    /\ HoldTime \in Nat
    /\ MaxBackoff \in Nat \ {0}

VARIABLES
    routes,      \* _routes
    lastRoute,   \* _last_selected: the route last chosen for a destination,
                 \* while the hold lasts; it is not read after that
    hold,        \* time left until the choice is open again
    resting,     \* history: what is left of the backoff of each failed route
    overtaken    \* history: routes whose last failure was reported while another
                 \* thread was storing them anew

routeVars == <<routes, lastRoute, hold, resting, overtaken>>

RoutesTo(d) == {<<d, h>> : h \in {d} \cup Gateways}
RouteIds == UNION {RoutesTo(d) : d \in Nodes}
NextHop(r) == r[2]

\* trusted stands for trust_ok and authorized, which are always equal: no
\* advertisement is without a transport.
Route == [transport : {"mesh", "tcp", "absent"}, trusted : BOOLEAN, left : Nat,
          failures : Nat, cooldown : Nat]
NoRoute == [transport |-> "absent", trusted |-> FALSE, left |-> 0,
            failures |-> 0, cooldown |-> 0]

RouteInit ==
    /\ routes = [r \in RouteIds |-> NoRoute]
    /\ lastRoute = [d \in Nodes |-> {}]
    /\ hold = [d \in Nodes |-> 0]
    /\ resting = [r \in RouteIds |-> 0]
    /\ overtaken = {}

Least(a, b) == IF a < b THEN a ELSE b

\* Mutant: a route discovered again starts without its cooldown.
StoredMutant(old, new) == [new EXCEPT !.failures = old.failures]

\* _store: a route discovered again takes over the failures and the cooldown
\* of the route that it will replace.
Stored(old, new) == [new EXCEPT !.failures = old.failures, !.cooldown = old.cooldown]

MeshRoute == [NoRoute EXCEPT !.transport = "mesh", !.trusted = TRUE, !.left = RouteTTL]

\* Mutant: a gateway's route lives for the default time to live.
GatewayRouteMutant(g, ad) ==
    [NoRoute EXCEPT !.transport = TransportOf[g], !.trusted = (ad.auth = "secret"),
                    !.left = RouteTTL]

\* A gateway's route expires with its advertisement, and is trusted when that
\* says of itself that it was authenticated.
GatewayRoute(g, ad) ==
    [NoRoute EXCEPT !.transport = TransportOf[g], !.trusted = (ad.auth = "secret"),
                    !.left = Least(ad.left, RouteTTL)]

\* discover_routes makes the node's own route when the node is found in the
\* mesh registry, and one through every gateway listed.  Other routes stay.
Found == [id : RouteIds, route : Route]
OwnRoute(d) == [id |-> <<d, d>>, route |-> MeshRoute]
ThroughGateways(d, table) ==
    {[id |-> <<d, g>>, route |-> GatewayRoute(g, table[g])] : g \in Listed(table)}

\* The first half of _store: what is kept of the old route is copied.
Copied(table, f) == [f EXCEPT !.route = Stored(table[f.id], f.route)]

\* An advertisement that has expired by the time its turn comes is left out.
Live(found) == {f \in found : f.route.left > 0}

\* Egress is not allowed by any policy of the service: a gateway that is not
\* reached over the mesh is a candidate only when it offers none.
EgressAllowed(table, r) ==
    NextHop(r) \in Gateways /\ EgressOf[NextHop(r)] => table[r].transport = "mesh"

Candidates(table, d) ==
    {r \in RoutesTo(d) : /\ table[r].left > 0 /\ table[r].trusted
                         /\ table[r].cooldown = 0 /\ EgressAllowed(table, r)}

\* The sort of select_route: mesh routes first, then fewer failures, then the
\* latest sign of health.  A node's own route, discovered healthy just now,
\* beats a gateway's there; which of two gateways was seen last is left open.
Before(table, r, s) ==
    \/ table[r].transport = "mesh" /\ table[s].transport # "mesh"
    \/ /\ table[r].transport = table[s].transport
       /\ \/ table[r].failures < table[s].failures
          \/ /\ table[r].failures = table[s].failures
             /\ NextHop(r) = r[1] /\ NextHop(s) # s[1]
Preferred(table, cands) == {r \in cands : \A s \in cands : ~Before(table, s, r)}

\* Hysteresis: while the hold lasts, the last choice stands if it still can.
Choices(table, d) ==
    LET cands == Candidates(table, d)
        held  == IF hold[d] > 0 THEN lastRoute[d] \cap cands ELSE {}
    IN  IF held # {} THEN held ELSE Preferred(table, cands)

\* select_route chooses r.  A choice renews the hold unless the hold made it.
Chosen(table, d, r) ==
    LET byHold == hold[d] > 0 /\ lastRoute[d] \cap Candidates(table, d) # {}
    IN  /\ lastRoute' = [lastRoute EXCEPT ![d] = {r}]
        /\ hold' = IF byHold THEN hold ELSE [hold EXCEPT ![d] = HoldTime]

Doubling == <<2, 4, 8, 16, 32>>
Backoff(n) == Least(MaxBackoff, Doubling[Least(n, 5)])

\* report_route_failure
RouteFailed(table, r) ==
    IF table[r].transport = "absent" THEN table
    ELSE [table EXCEPT ![r].failures = @ + 1,
                       ![r].cooldown = Backoff(table[r].failures + 1)]
Rested(table, r) ==
    [resting EXCEPT ![r] = RouteFailed(table, r)[r].cooldown]

\* report_route_success
RouteSucceeded(table, r) ==
    IF table[r].transport = "absent" THEN table
    ELSE [table EXCEPT ![r].failures = IF @ > 0 THEN @ - 1 ELSE 0, ![r].cooldown = 0]

\* refresh_routes: expired routes are forgotten, and their failures with them.
Expired(table, r) == table[r].transport # "absent" /\ table[r].left = 0
Surviving(table) == [r \in RouteIds |-> IF Expired(table, r) THEN NoRoute ELSE table[r]]

OlderRoute(route, t) == [route EXCEPT !.left = Less(@, t), !.cooldown = Less(@, t)]
RoutesAge(t) ==
    /\ routes' = [r \in RouteIds |-> OlderRoute(routes[r], t)]
    /\ hold' = [d \in Nodes |-> Less(hold[d], t)]
    /\ lastRoute' = [d \in Nodes |-> IF hold[d] > t THEN lastRoute[d] ELSE {}]
    /\ resting' = [r \in RouteIds |-> Less(resting[r], t)]
    /\ overtaken' = {r \in overtaken : resting'[r] > 0}

\* On a node that has the mesh secret, a gateway's route is usable only on the
\* strength of a signed advertisement that was accepted from it and lives at
\* least as long (discover_routes: "Authenticated + fresh advertisement required
\* for gateway routes").  A node without the secret takes the advertisement's
\* word for it.
RoutesRestOnAds ==
    MeshSecret => \A d \in Nodes, g \in Gateways :
        routes[<<d, g>>].trusted => routes[<<d, g>>].left <= backed[g]

=============================================================================
