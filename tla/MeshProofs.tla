----------------------------- MODULE MeshProofs -----------------------------
(***************************************************************************)
(* Theorems about the mesh, for any gateways, nodes, threads, backoffs,    *)
(* settings and bounds.  Of MeshDelivery: what the registry lists only gets *)
(* newer, a node with the secret uses a gateway no longer than signed      *)
(* advertisements let it, a failed route rests, except in the one race,    *)
(* and what a sender is told was delivered arrived.  Of MeshJoin: no node  *)
(* moves to a Redis that only nodes behind it were started on.             *)
(***************************************************************************)
EXTENDS MeshDelivery, MeshJoin, WellFoundedInduction, TLAPS

-----------------------------------------------------------------------------
(* The registry *)

Ads == [sequence : Nat, auth : {"secret", "none"}, signed : BOOLEAN, left : Nat]

RegistryType ==
    /\ ads \in [Gateways -> Ads]
    /\ floor \in [Gateways -> Int]
    /\ newest \in [Gateways -> Int]
    /\ backed \in [Gateways -> Nat]

\* The floor has seen everything the registry ever listed.
FloorCovers == \A g \in Gateways : newest[g] <= floor[g]

\* With a secret, what is listed lives no longer than signed advertisements let it.
ListedIsBacked == MeshSecret => \A g \in Gateways : ads[g].left <= backed[g]

RegistryInv == RegistryType /\ FloorCovers /\ ListedIsBacked

LEMMA RegistryInit == GatewayInit => RegistryInv
  BY GatewayAssumption DEF GatewayInit, RegistryInv, RegistryType, FloorCovers,
     ListedIsBacked, NoAd, Ads

\* Time only lowers what is left.
LEMMA LessIsLess ==
    ASSUME NEW a \in Nat, NEW b \in Nat, NEW t \in Nat, a <= b
    PROVE  /\ Less(a, t) \in Nat
           /\ Less(a, t) <= Less(b, t)
           /\ Less(a, t) <= a
  BY DEF Less

\* Trimming takes advertisements away and changes none.
LEMMA TrimmedKeeps ==
    ASSUME NEW table, NEW new \in Trimmed(table), NEW g \in Gateways
    PROVE  new[g] = table[g] \/ new[g] = NoAd
  BY DEF Trimmed

LEMMA IngestKeepsRegistry ==
    ASSUME RegistryInv, NEW g \in Gateways, NEW ad \in Ads, Ingest(g, ad)
    PROVE  RegistryInv'
<1>1. ads' \in [Gateways -> Ads]
  <2> DEFINE table == [ads EXCEPT ![g] = ad]
  <2>1. table \in [Gateways -> Ads]
    BY DEF RegistryInv, RegistryType
  <2>2. ads' \in Trimmed(table)  BY DEF Ingest
  <2>3. NoAd \in Ads  BY DEF NoAd, Ads
  <2>4. PICK kept \in SUBSET Listed(table) :
            ads' = [h \in Gateways |-> IF h \in kept THEN table[h] ELSE NoAd]
    BY <2>2 DEF Trimmed
  <2> HIDE DEF table
  <2> QED  BY <2>1, <2>3, <2>4
<1>2. /\ floor' \in [Gateways -> Int] /\ newest' \in [Gateways -> Int]
      /\ backed' \in [Gateways -> Nat]
  BY DEF Ingest, RegistryInv, RegistryType, Ads
<1>3. FloorCovers'
  BY DEF Ingest, RegistryInv, RegistryType, FloorCovers, SequenceFloor, Ads
<1>4. ASSUME MeshSecret, NEW h \in Gateways
      PROVE  ads'[h].left <= backed'[h]
  <2> DEFINE table == [ads EXCEPT ![g] = ad]
  <2>1. ads' \in Trimmed(table)  BY DEF Ingest
  <2>2. ads'[h] = table[h] \/ ads'[h] = NoAd
    <3> HIDE DEF table
    <3> QED  BY <2>1, TrimmedKeeps
  <2>3. CASE ads'[h] = NoAd
    BY <2>3, <1>2 DEF NoAd
  <2>4. CASE ads'[h] = table[h] /\ h = g
    <3>1. ads'[h] = ad /\ ad.left \in Nat  BY <2>4 DEF RegistryInv, RegistryType, Ads
    <3>2. ad.signed /\ backed[g] \in Nat
      BY <1>4 DEF Ingest, Verified, RegistryInv, RegistryType
    <3>3. backed'[g] = IF ad.signed /\ ad.left > backed[g] THEN ad.left ELSE backed[g]
      BY DEF Ingest, RegistryInv, RegistryType
    <3> QED  BY <3>1, <3>2, <3>3, <2>4
  <2>5. CASE ads'[h] = table[h] /\ h # g
    <3>1. ads'[h] = ads[h]  BY <2>5 DEF RegistryInv, RegistryType
    <3>2. backed'[h] = backed[h]  BY <2>5 DEF Ingest, RegistryInv, RegistryType
    <3> QED  BY <3>1, <3>2, <1>4 DEF RegistryInv, ListedIsBacked
  <2> QED  BY <2>2, <2>3, <2>4, <2>5
<1> QED  BY <1>1, <1>2, <1>3, <1>4 DEF RegistryInv, RegistryType, ListedIsBacked

LEMMA RefreshKeepsRegistry ==
    ASSUME RegistryInv, ads' = Refreshed, UNCHANGED <<floor, newest, backed>>
    PROVE  RegistryInv'
<1>1. \A g \in Gateways : ads'[g] = ads[g] \/ ads'[g] = NoAd  BY DEF Refreshed
<1>2. NoAd \in Ads  BY DEF NoAd, Ads
<1>3. ads' \in [Gateways -> Ads]
  BY <1>2 DEF Refreshed, RegistryInv, RegistryType
<1>4. ListedIsBacked'
  BY <1>1 DEF RegistryInv, RegistryType, ListedIsBacked, NoAd
<1> QED  BY <1>3, <1>4 DEF RegistryInv, RegistryType, FloorCovers

LEMMA AgeKeepsRegistry ==
    ASSUME RegistryInv, NEW t \in Nat, GatewaysAge(t)
    PROVE  RegistryInv'
<1>1. \A ad \in Ads : /\ Older(ad, t) \in Ads
                      /\ Older(ad, t).left = Less(ad.left, t)
  BY LessIsLess DEF Older, Ads
<1>2. ads \in [Gateways -> Ads]  BY DEF RegistryInv, RegistryType
<1>3. NoAd \in Ads  BY DEF NoAd, Ads
<1>4. ads' = [g \in Gateways |-> IF ads[g] = NoAd THEN NoAd ELSE Older(ads[g], t)]
  BY DEF GatewaysAge
<1>5. backed' = [g \in Gateways |-> Less(backed[g], t)]  BY DEF GatewaysAge
<1>6. backed \in [Gateways -> Nat]  BY DEF RegistryInv, RegistryType
<1>7. ads' \in [Gateways -> Ads]
  <2> QED  BY <1>1, <1>2, <1>3, <1>4
<1>8. backed' \in [Gateways -> Nat]  BY <1>5, <1>6, LessIsLess
<1>9. ASSUME MeshSecret, NEW g \in Gateways PROVE ads'[g].left <= backed'[g]
  <2>1. backed'[g] = Less(backed[g], t) /\ backed[g] \in Nat  BY <1>5, <1>6
  <2>2. CASE ads[g] = NoAd
    <3>1. ads'[g] = NoAd /\ NoAd.left = 0  BY <1>4, <2>2 DEF NoAd
    <3> QED  BY <1>8, <3>1
  <2>3. CASE ads[g] # NoAd
    <3>1. ads[g] \in Ads /\ ads'[g] = Older(ads[g], t)  BY <1>2, <1>4, <2>3
    <3>2. ads'[g].left = Less(ads[g].left, t)  BY <1>1, <3>1
    <3>3. ads[g].left <= backed[g]  BY <1>9 DEF RegistryInv, ListedIsBacked
    <3>4. ads[g].left \in Nat  BY <3>1 DEF Ads
    <3> QED  BY <2>1, <3>2, <3>3, <3>4, LessIsLess
  <2> QED  BY <2>2, <2>3
<1>10. floor' = floor /\ newest' = newest  BY DEF GatewaysAge
<1> QED
  BY <1>7, <1>8, <1>9, <1>10 DEF RegistryInv, RegistryType, FloorCovers, ListedIsBacked

-----------------------------------------------------------------------------
(* Routes *)

Tables == [RouteIds -> Route]

\* A route through a gateway that is trusted lives no longer than the history says.
Backs(r, route, backing) ==
    /\ route \in Route
    /\ MeshSecret /\ NextHop(r) \in Gateways /\ route.trusted =>
         route.left <= backing[NextHop(r)]

\* And a route that has failed keeps its cooldown, unless it was overtaken.
Fit(r, route, backing, rests, over) ==
    /\ Backs(r, route, backing)
    /\ rests[r] <= route.cooldown \/ r \in over

FitAll(table, backing, rests, over) ==
    /\ table \in Tables
    /\ \A r \in RouteIds : Fit(r, table[r], backing, rests, over)

LEMMA RoutesToGateways ==
    /\ \A d \in Nodes : \A h \in Gateways \cup {d} : <<d, h>> \in RouteIds /\ NextHop(<<d, h>>) = h
    /\ \A r \in RouteIds : r[1] \in Nodes /\ r = <<r[1], NextHop(r)>>
                           /\ NextHop(r) \in Nodes \cup Gateways
  BY RouteAssumption DEF RouteIds, RoutesTo, NextHop

LEMMA NoRouteType == /\ NoRoute \in Route /\ ~NoRoute.trusted
                     /\ NoRoute.left = 0 /\ NoRoute.cooldown = 0
  BY DEF NoRoute, Route

LEMMA RouteFields ==
    ASSUME NEW route \in Route
    PROVE  /\ route.left \in Nat /\ route.failures \in Nat /\ route.cooldown \in Nat
           /\ route.trusted \in BOOLEAN
  BY DEF Route

LEMMA StoredFrame ==
    ASSUME NEW old \in Route, NEW new \in Route
    PROVE  /\ Stored(old, new) \in Route
           /\ Stored(old, new).trusted = new.trusted
           /\ Stored(old, new).left = new.left
           /\ Stored(old, new).cooldown = old.cooldown
  BY DEF Stored, Route

Through(kind, trust, n) ==
    [NoRoute EXCEPT !.transport = kind, !.trusted = trust, !.left = n]

LEMMA ThroughFrame ==
    ASSUME NEW kind \in {"mesh", "tcp", "absent"}, NEW trust \in BOOLEAN, NEW n \in Nat
    PROVE  /\ Through(kind, trust, n) \in Route
           /\ Through(kind, trust, n).trusted = trust
           /\ Through(kind, trust, n).left = n
  BY NoRouteType DEF Through, Route

LEMMA GatewayRouteFrame ==
    ASSUME NEW g \in Gateways, NEW ad \in Ads
    PROVE  GatewayRoute(g, ad) \in Route /\ GatewayRoute(g, ad).left <= ad.left
<1> DEFINE life == Least(ad.left, RouteTTL)
           said == ad.auth = "secret"
<1>1. life \in Nat /\ life <= ad.left  BY RouteAssumption DEF Least, Ads
<1>2. TransportOf[g] \in {"mesh", "tcp", "absent"}  BY GatewayAssumption
<1>3. GatewayRoute(g, ad) = Through(TransportOf[g], said, life)
  BY DEF GatewayRoute, Through
<1>4. said \in BOOLEAN  OBVIOUS
<1> HIDE DEF life, said
<1>5. GatewayRoute(g, ad) \in Route /\ GatewayRoute(g, ad).left = life
  BY <1>1, <1>2, <1>3, <1>4, ThroughFrame
<1> QED  BY <1>1, <1>5

\* What discover_routes finds is backed before it is stored.
LEMMA OwnRouteBacks ==
    ASSUME NEW d \in Nodes
    PROVE  OwnRoute(d) \in Found /\ Backs(OwnRoute(d).id, OwnRoute(d).route, backed)
<1>1. MeshRoute \in Route  BY RouteAssumption DEF MeshRoute, NoRoute, Route
<1>2. <<d, d>> \in RouteIds /\ NextHop(<<d, d>>) = d  BY RoutesToGateways
<1>3. d \notin Gateways  BY RouteAssumption
<1> QED  BY <1>1, <1>2, <1>3 DEF OwnRoute, Found, Backs

LEMMA GatewaysBack ==
    ASSUME RegistryInv, NEW d \in Nodes, NEW f \in ThroughGateways(d, Refreshed)
    PROVE  f \in Found /\ Backs(f.id, f.route, backed)
<1>1. PICK g \in Listed(Refreshed) :
          f = [id |-> <<d, g>>, route |-> GatewayRoute(g, Refreshed[g])]
  BY DEF ThroughGateways
<1>2. g \in Gateways /\ Refreshed[g] = ads[g]  BY DEF Listed, Refreshed
<1>3. ads[g] \in Ads /\ backed[g] \in Nat /\ ads[g].left \in Nat
  BY <1>2 DEF RegistryInv, RegistryType, Ads
<1>4. MeshSecret => ads[g].left <= backed[g]  BY <1>2 DEF RegistryInv, ListedIsBacked
<1>5. /\ GatewayRoute(g, ads[g]) \in Route
      /\ GatewayRoute(g, ads[g]).left <= ads[g].left
  BY <1>2, <1>3, GatewayRouteFrame
<1>6. f.id = <<d, g>> /\ f.route = GatewayRoute(g, ads[g])  BY <1>1, <1>2
<1>7. <<d, g>> \in RouteIds /\ NextHop(<<d, g>>) = g  BY <1>2, RoutesToGateways
<1>8. f.route.left \in Nat  BY <1>5, <1>6, RouteFields
<1>9. MeshSecret => f.route.left <= backed[g]  BY <1>3, <1>4, <1>5, <1>6, <1>8
<1>10. f \in Found  BY <1>1, <1>2, <1>5, <1>7 DEF Found
<1> QED  BY <1>5, <1>6, <1>7, <1>9, <1>10 DEF Backs

\* The copy of the old route's cooldown makes it fit.
LEMMA CopiedFits ==
    ASSUME NEW table, NEW backing, NEW rests, NEW over, FitAll(table, backing, rests, over),
           NEW f \in Found, Backs(f.id, f.route, backing)
    PROVE  /\ Copied(table, f) \in Found
           /\ Copied(table, f).id = f.id
           /\ Fit(f.id, Copied(table, f).route, backing, rests, over)
<1> DEFINE old == table[f.id]
           new == Stored(old, f.route)
<1>1. f.id \in RouteIds /\ f.route \in Route  BY DEF Found
<1>2. old \in Route /\ Fit(f.id, old, backing, rests, over)  BY <1>1 DEF FitAll, Tables
<1>3. Copied(table, f) = [f EXCEPT !.route = new]  BY DEF Copied
<1> HIDE DEF new
<1>4. \A route \in Route : [f EXCEPT !.route = route] \in Found
                           /\ [f EXCEPT !.route = route].id = f.id
                           /\ [f EXCEPT !.route = route].route = route
  BY DEF Found
<1> HIDE DEF old
<1>5. new \in Route /\ new.trusted = f.route.trusted /\ new.left = f.route.left
      /\ new.cooldown = old.cooldown
  BY <1>1, <1>2, StoredFrame DEF new
<1>6. Fit(f.id, new, backing, rests, over)  BY <1>2, <1>5 DEF Fit, Backs
<1> QED  BY <1>3, <1>4, <1>5, <1>6

\* Reports, one route at a time.
LEMMA BackoffType == ASSUME NEW n \in Nat \ {0} PROVE Backoff(n) \in Nat
<1>1. Least(n, 5) \in 1..5  BY DEF Least
<1>2. Doubling[Least(n, 5)] \in Nat  BY <1>1 DEF Doubling
<1> QED  BY <1>2, RouteAssumption DEF Backoff, Least

Marked(old, n, m) == [old EXCEPT !.failures = n, !.cooldown = m]

LEMMA MarkedFrame ==
    ASSUME NEW old \in Route, NEW n \in Nat, NEW m \in Nat
    PROVE  /\ Marked(old, n, m) \in Route
           /\ Marked(old, n, m).trusted = old.trusted
           /\ Marked(old, n, m).left = old.left
           /\ Marked(old, n, m).cooldown = m
  BY DEF Marked, Route

LEMMA FailedRoute ==
    ASSUME NEW table \in Tables, NEW r \in RouteIds
    PROVE  /\ RouteFailed(table, r) \in Tables
           /\ RouteFailed(table, r)[r].trusted = table[r].trusted
           /\ RouteFailed(table, r)[r].left = table[r].left
           /\ \A s \in RouteIds : s # r => RouteFailed(table, r)[s] = table[s]
<1> DEFINE n == table[r].failures + 1
           m == Backoff(n)
<1>1. table[r] \in Route /\ table[r].failures \in Nat  BY RouteFields DEF Tables
<1>2. n \in Nat \ {0}  BY <1>1
<1>3. m \in Nat  BY <1>2, BackoffType
<1>4. RouteFailed(table, r) = table
      \/ RouteFailed(table, r) = [table EXCEPT ![r] = Marked(table[r], n, m)]
  BY DEF RouteFailed, Marked
<1> HIDE DEF n, m
<1>5. /\ Marked(table[r], n, m) \in Route
      /\ Marked(table[r], n, m).trusted = table[r].trusted
      /\ Marked(table[r], n, m).left = table[r].left
  BY <1>1, <1>2, <1>3, MarkedFrame
<1> QED  BY <1>1, <1>4, <1>5 DEF Tables

LEMMA SucceededRoute ==
    ASSUME NEW table \in Tables, NEW r \in RouteIds
    PROVE  /\ RouteSucceeded(table, r) \in Tables
           /\ RouteSucceeded(table, r)[r].trusted = table[r].trusted
           /\ RouteSucceeded(table, r)[r].left = table[r].left
           /\ \A s \in RouteIds : s # r => RouteSucceeded(table, r)[s] = table[s]
<1> DEFINE n == IF table[r].failures > 0 THEN table[r].failures - 1 ELSE 0
<1>1. table[r] \in Route /\ table[r].failures \in Nat  BY RouteFields DEF Tables
<1>2. n \in Nat /\ 0 \in Nat  BY <1>1
<1>3. RouteSucceeded(table, r) = table
      \/ RouteSucceeded(table, r) = [table EXCEPT ![r] = Marked(table[r], n, 0)]
  BY DEF RouteSucceeded, Marked
<1> HIDE DEF n
<1>4. /\ Marked(table[r], n, 0) \in Route
      /\ Marked(table[r], n, 0).trusted = table[r].trusted
      /\ Marked(table[r], n, 0).left = table[r].left
  BY <1>1, <1>2, MarkedFrame
<1> QED  BY <1>1, <1>3, <1>4 DEF Tables

\* A failure makes a route rest as long as the table says.
LEMMA FailureFits ==
    ASSUME NEW table, resting \in [RouteIds -> Nat], NEW over, NEW r \in RouteIds,
           FitAll(table, backed, resting, over),
           NEW new, \A s \in RouteIds \ {r} : s \in new <=> s \in over
    PROVE  /\ Rested(table, r) \in [RouteIds -> Nat]
           /\ FitAll(RouteFailed(table, r), backed, Rested(table, r), new)
<1> DEFINE failed == RouteFailed(table, r)
           rests == Rested(table, r)
<1>1. table \in Tables  BY DEF FitAll
<1>2. /\ failed \in Tables /\ failed[r].trusted = table[r].trusted
      /\ failed[r].left = table[r].left
      /\ \A s \in RouteIds : s # r => failed[s] = table[s]
  BY <1>1, FailedRoute
<1>3. failed[r] \in Route /\ failed[r].cooldown \in Nat  BY <1>2, RouteFields DEF Tables
<1>4. rests = [resting EXCEPT ![r] = failed[r].cooldown]  BY DEF Rested
<1> HIDE DEF failed, rests
<1>5. rests \in [RouteIds -> Nat] /\ rests[r] = failed[r].cooldown  BY <1>3, <1>4
<1>6. ASSUME NEW s \in RouteIds PROVE Fit(s, failed[s], backed, rests, new)
  <2>1. Fit(s, table[s], backed, resting, over)  BY DEF FitAll
  <2>2. CASE s = r
    BY <1>2, <1>3, <1>5, <2>1, <2>2 DEF Fit, Backs
  <2>3. CASE s # r
    <3>1. rests[s] = resting[s] /\ (s \in over <=> s \in new) /\ failed[s] = table[s]
      BY <1>2, <1>4, <2>3
    <3> QED  BY <2>1, <3>1 DEF Fit
  <2> QED  BY <2>2, <2>3
<1> QED  BY <1>2, <1>5, <1>6 DEF FitAll, failed, rests

LEMMA SuccessFits ==
    ASSUME NEW table, resting \in [RouteIds -> Nat], NEW over, NEW r \in RouteIds,
           FitAll(table, backed, resting, over)
    PROVE  FitAll(RouteSucceeded(table, r), backed, [resting EXCEPT ![r] = 0], over)
<1> DEFINE done == RouteSucceeded(table, r)
           rests == [resting EXCEPT ![r] = 0]
<1>1. table \in Tables  BY DEF FitAll
<1>2. /\ done \in Tables /\ done[r].trusted = table[r].trusted
      /\ done[r].left = table[r].left
      /\ \A s \in RouteIds : s # r => done[s] = table[s]
  BY <1>1, SucceededRoute
<1>3. done[r] \in Route /\ done[r].cooldown \in Nat  BY <1>2, RouteFields DEF Tables
<1>4. rests[r] = 0 /\ \A s \in RouteIds : s # r => rests[s] = resting[s]  OBVIOUS
<1> HIDE DEF done, rests
<1>5. ASSUME NEW s \in RouteIds PROVE Fit(s, done[s], backed, rests, over)
  <2>1. Fit(s, table[s], backed, resting, over)  BY DEF FitAll
  <2>2. CASE s = r
    <3>1. rests[s] <= done[s].cooldown  BY <1>3, <1>4, <2>2
    <3> QED  BY <1>2, <1>3, <2>1, <2>2, <3>1 DEF Fit, Backs
  <2>3. CASE s # r
    BY <1>2, <1>4, <2>1, <2>3 DEF Fit
  <2> QED  BY <2>2, <2>3
<1> QED  BY <1>2, <1>5 DEF FitAll, done, rests

Dated(old, n, m) == [old EXCEPT !.left = n, !.cooldown = m]

\* Time takes as much from a route as from what backs it and makes it rest.
LEMMA OlderFits ==
    ASSUME RegistryInv, resting \in [RouteIds -> Nat], NEW t \in Nat,
           NEW r \in RouteIds, NEW route,
           Fit(r, route, backed, resting, overtaken)
    PROVE  Fit(r, OlderRoute(route, t), [g \in Gateways |-> Less(backed[g], t)],
               [s \in RouteIds |-> Less(resting[s], t)],
               {s \in overtaken : Less(resting[s], t) > 0})
<1> DEFINE backing == [g \in Gateways |-> Less(backed[g], t)]
           rests == [s \in RouteIds |-> Less(resting[s], t)]
           over == {s \in overtaken : Less(resting[s], t) > 0}
           life == Less(route.left, t)
           cool == Less(route.cooldown, t)
           new == OlderRoute(route, t)
<1>0. \A n \in Nat : Less(n, t) \in Nat /\ Less(n, t) <= n  BY DEF Less
<1>1. route \in Route /\ route.left \in Nat /\ route.cooldown \in Nat
  <2>1. route \in Route  BY DEF Fit, Backs
  <2> QED  BY <2>1, RouteFields
<1>2. life \in Nat /\ cool \in Nat  BY <1>0, <1>1
<1>4. new = Dated(route, life, cool)  BY DEF OlderRoute, Dated
<1>5. new \in Route /\ new.trusted = route.trusted /\ new.left = life /\ new.cooldown = cool
  <2> HIDE DEF life, cool, new
  <2>1. /\ Dated(route, life, cool) \in Route
        /\ Dated(route, life, cool).trusted = route.trusted
        /\ Dated(route, life, cool).left = life
        /\ Dated(route, life, cool).cooldown = cool
    BY <1>1, <1>2 DEF Dated, Route
  <2> QED  BY <1>4, <2>1
<1> HIDE DEF new
<1>6. ASSUME MeshSecret, NextHop(r) \in Gateways, new.trusted
      PROVE  new.left <= backing[NextHop(r)]
  <2>1. route.left <= backed[NextHop(r)]  BY <1>5, <1>6 DEF Fit, Backs
  <2>2. backed[NextHop(r)] \in Nat  BY <1>6 DEF RegistryInv, RegistryType
  <2>3. backing[NextHop(r)] = Less(backed[NextHop(r)], t)  BY <1>6
  <2>4. Less(route.left, t) <= Less(backed[NextHop(r)], t)  BY <1>1, <2>1, <2>2, LessIsLess
  <2> QED  BY <1>5, <2>3, <2>4
<1>7. rests[r] <= new.cooldown \/ r \in over
  <2>1. resting[r] \in Nat /\ rests[r] = Less(resting[r], t) /\ Less(resting[r], t) \in Nat
    BY <1>0
  <2>2. CASE resting[r] <= route.cooldown
    <3>1. Less(resting[r], t) <= Less(route.cooldown, t)  BY <1>1, <2>1, <2>2, LessIsLess
    <3> QED  BY <1>5, <2>1, <3>1
  <2>3. CASE r \in overtaken /\ Less(resting[r], t) > 0
    BY <2>3
  <2>4. CASE Less(resting[r], t) = 0
    BY <1>2, <1>5, <2>1, <2>4
  <2>5. resting[r] <= route.cooldown \/ r \in overtaken  BY DEF Fit
  <2>6. Less(resting[r], t) > 0 \/ Less(resting[r], t) = 0  BY <2>1
  <2> QED  BY <2>2, <2>3, <2>4, <2>5, <2>6
<1>8. Fit(r, new, backing, rests, over)
  <2> HIDE DEF backing, rests, over
  <2> QED  BY <1>5, <1>6, <1>7 DEF Fit, Backs
<1> QED  BY <1>8 DEF new

\* Routes that are forgotten rest no more.
LEMMA LoweredFits ==
    ASSUME NEW r \in RouteIds, NEW route, NEW backing, NEW rests, NEW lower, NEW over,
           Fit(r, route, backing, rests, over), rests[r] \in Nat, lower[r] \in {0, rests[r]}
    PROVE  Fit(r, route, backing, lower, over)
<1>1. route \in Route  BY DEF Fit, Backs
<1>2. route.cooldown \in Nat  BY <1>1, RouteFields
<1> QED  BY <1>2 DEF Fit

LEMMA SurvivingFits ==
    ASSUME NEW table, NEW rests \in [RouteIds -> Nat], NEW over,
           FitAll(table, backed, rests, over), NEW lower,
           lower = [s \in RouteIds |-> IF Expired(table, s) THEN 0 ELSE rests[s]]
    PROVE  FitAll(Surviving(table), backed, lower, over)
<1>1. table \in Tables /\ Surviving(table) \in Tables
  BY NoRouteType DEF FitAll, Tables, Surviving
<1>2. ASSUME NEW r \in RouteIds PROVE Fit(r, Surviving(table)[r], backed, lower, over)
  <2>1. CASE Expired(table, r)
    <3>1. Surviving(table)[r] = NoRoute /\ lower[r] = 0  BY <2>1 DEF Surviving
    <3> QED  BY <3>1, NoRouteType DEF Fit, Backs
  <2>2. CASE ~Expired(table, r)
    <3>1. Surviving(table)[r] = table[r] /\ lower[r] = rests[r]  BY <2>2 DEF Surviving
    <3> QED  BY <3>1 DEF FitAll, Fit
  <2> QED  BY <2>1, <2>2
<1> QED  BY <1>1, <1>2 DEF FitAll

-----------------------------------------------------------------------------
(* Routes on their way into the table, and callers *)

FoundFits(fnd, backing, rests, over) ==
    /\ fnd \in [Callers -> Finding]
    /\ \A c \in Callers :
         /\ \A f \in fnd[c].storing : Fit(f.id, f.route, backing, rests, over)
         /\ \A f \in fnd[c].todo : Backs(f.id, f.route, backing)

\* What a caller is in the middle of: whom it talks to, through which routes.
Doing == [op : {"idle", "send", "probe", "reprobe"}, to : Nodes, left : Int,
          tried : SUBSET RouteIds, via : SUBSET RouteIds, number : Nat]
CallInv == call \in [Callers -> Doing] /\ sent \in [Callers -> Nat]

\* A caller that waits for mesh_send stores no route.
Waits == \A c \in Callers : call[c].via # {} => finding[c].storing = {}

\* The inductive invariant.
TableInv == /\ resting \in [RouteIds -> Nat]
            /\ FitAll(routes, backed, resting, overtaken)
            /\ FoundFits(finding, backed, resting, overtaken)
IInv == RegistryInv /\ TableInv /\ CallInv /\ Waits

LEMMA NotFindingFits ==
    ASSUME NEW fnd \in [Callers -> Finding], NEW backing, NEW rests, NEW over,
           FoundFits(fnd, backing, rests, over), NEW c \in Callers
    PROVE  FoundFits([fnd EXCEPT ![c] = NotFinding], backing, rests, over)
<1>1. NotFinding \in Finding /\ NotFinding.storing = {} /\ NotFinding.todo = {}
  BY DEF NotFinding, Finding
<1> QED  BY <1>1 DEF FoundFits

LEMMA ReplacedFits ==
    ASSUME TableInv, NEW c \in Callers
    PROVE  FitAll(Replaced(c), backed, resting, overtaken)
<1> DEFINE has(r) == \E f \in finding[c].storing : f.id = r
           one(r) == CHOOSE f \in finding[c].storing : f.id = r
<1>1. Replaced(c) = [r \in RouteIds |-> IF has(r) THEN one(r).route ELSE routes[r]]
  BY DEF Replaced
<1>2. ASSUME NEW r \in RouteIds, has(r)
      PROVE  Fit(r, one(r).route, backed, resting, overtaken)
  <2>1. one(r) \in finding[c].storing /\ one(r).id = r  BY <1>2
  <2> HIDE DEF one
  <2> QED  BY <2>1 DEF TableInv, FoundFits
<1> HIDE DEF has, one
<1>3. ASSUME NEW r \in RouteIds
      PROVE  Fit(r, Replaced(c)[r], backed, resting, overtaken)
  <2>1. Fit(r, routes[r], backed, resting, overtaken)  BY DEF TableInv, FitAll
  <2> QED  BY <1>1, <1>2, <2>1
<1>4. \A r \in RouteIds : Replaced(c)[r] \in Route  BY <1>3 DEF Fit, Backs
<1>5. Replaced(c) = [r \in RouteIds |-> Replaced(c)[r]]  BY <1>1
<1>6. Replaced(c) \in Tables  BY <1>4, <1>5 DEF Tables
<1> QED  BY <1>3, <1>6 DEF FitAll

\* A caller that has a choice to make stores the next route.
LEMMA GoesOnFits ==
    ASSUME TableInv, NEW c \in Callers, NEW table,
           FitAll(table, backed, resting, overtaken),
           NEW found \in SUBSET Found, \A f \in found : Backs(f.id, f.route, backed),
           GoesOn(c, table, found)
    PROVE  /\ FoundFits(finding', backed, resting, overtaken)
           /\ \A b \in Callers \ {c} : finding'[b] = finding[b]
<1>0. finding \in [Callers -> Finding]  BY DEF TableInv, FoundFits
<1>1. PICK storing \in SUBSET Found, todo \in SUBSET Found :
          /\ finding' = [finding EXCEPT ![c] = [stage |-> "gateways", storing |-> storing,
                                                todo |-> todo]]
          /\ \A f \in storing : Fit(f.id, f.route, backed, resting, overtaken)
          /\ \A f \in todo : Backs(f.id, f.route, backed)
  <2>1. CASE Live(found) = {}
    BY <2>1 DEF GoesOn
  <2>2. CASE Live(found) # {}
    <3>1. PICK f \in Live(found) :
              finding' = [finding EXCEPT ![c] = [stage |-> "gateways",
                             storing |-> {Copied(table, f)}, todo |-> found \ {f}]]
      BY <2>2 DEF GoesOn
    <3>2. f \in found  BY DEF Live
    <3>3. f \in Found /\ Backs(f.id, f.route, backed)  BY <3>2
    <3>4. /\ Copied(table, f) \in Found /\ Copied(table, f).id = f.id
          /\ Fit(f.id, Copied(table, f).route, backed, resting, overtaken)
      BY <3>3, CopiedFits
    <3>5. \A e \in found \ {f} : Backs(e.id, e.route, backed)  OBVIOUS
    <3>6. /\ {Copied(table, f)} \in SUBSET Found /\ found \ {f} \in SUBSET Found
          /\ \A e \in {Copied(table, f)} : Fit(e.id, e.route, backed, resting, overtaken)
      BY <3>4
    <3> QED  BY <3>1, <3>5, <3>6
  <2> QED  BY <2>1, <2>2
<1> DEFINE new == [stage |-> "gateways", storing |-> storing, todo |-> todo]
<1>2. new \in Finding /\ new.storing = storing /\ new.todo = todo  BY DEF Finding
<1> HIDE DEF new
<1>3. finding' = [finding EXCEPT ![c] = new]  BY <1>1 DEF new
<1>4. finding' \in [Callers -> Finding] /\ finding'[c] = new
      /\ \A b \in Callers \ {c} : finding'[b] = finding[b]
  BY <1>0, <1>2, <1>3
<1>5. ASSUME NEW b \in Callers
      PROVE  /\ \A f \in finding'[b].storing : Fit(f.id, f.route, backed, resting, overtaken)
             /\ \A f \in finding'[b].todo : Backs(f.id, f.route, backed)
  <2>1. CASE b = c  BY <1>1, <1>2, <1>4, <2>1
  <2>2. CASE b # c  BY <1>4, <2>2 DEF TableInv, FoundFits
  <2> QED  BY <2>1, <2>2
<1> QED  BY <1>4, <1>5 DEF FoundFits

\* A failure that is reported: whoever stores that route has overtaken it.
LEMMA ReportedFits ==
    ASSUME TableInv, NEW c \in Callers, NEW table, NEW r \in RouteIds,
           FitAll(table, backed, resting, overtaken),
           NEW fnd \in [Callers -> Finding], FoundFits(fnd, backed, resting, overtaken),
           fnd[c].storing = {}, \A b \in Callers \ {c} : fnd[b] = finding[b]
    PROVE  /\ Rested(table, r) \in [RouteIds -> Nat]
           /\ FitAll(RouteFailed(table, r), backed, Rested(table, r), Overtaken(c, r))
           /\ FoundFits(fnd, backed, Rested(table, r), Overtaken(c, r))
<1> DEFINE rests == Rested(table, r)
           over == Overtaken(c, r)
<1>1. \A s \in RouteIds \ {r} : s \in over <=> s \in overtaken  BY DEF Overtaken
<1>2. /\ rests \in [RouteIds -> Nat]
      /\ FitAll(RouteFailed(table, r), backed, rests, over)
  <2> HIDE DEF over
  <2>1. resting \in [RouteIds -> Nat]  BY DEF TableInv
  <2> QED  BY <1>1, <2>1, FailureFits
<1>3. \A s \in RouteIds \ {r} : rests[s] = resting[s] /\ (s \in over <=> s \in overtaken)
  BY <1>1 DEF Rested, TableInv
<1>4. ASSUME NEW b \in Callers \ {c}, NEW f \in finding[b].storing, f.id = r PROVE r \in over
  BY <1>4 DEF Overtaken
<1> HIDE DEF rests, over
<1>5. ASSUME NEW b \in Callers, NEW f \in fnd[b].storing
      PROVE  Fit(f.id, f.route, backed, rests, over)
  <2>1. b # c /\ f \in finding[b].storing  OBVIOUS
  <2>2. Fit(f.id, f.route, backed, resting, overtaken)  BY DEF FoundFits
  <2>3. f.id \in RouteIds
    <3>1. fnd[b] \in Finding  OBVIOUS
    <3>2. f \in Found  BY <3>1 DEF Finding
    <3> QED  BY <3>2 DEF Found
  <2>4. CASE f.id = r
    BY <1>4, <2>1, <2>2, <2>4 DEF Fit
  <2>5. CASE f.id # r
    BY <1>3, <2>2, <2>3, <2>5 DEF Fit
  <2> QED  BY <2>4, <2>5
<1>6. FoundFits(fnd, backed, rests, over)  BY <1>5 DEF FoundFits
<1> QED  BY <1>2, <1>6 DEF rests, over

LEMMA LoweredFound ==
    ASSUME NEW fnd, NEW rests \in [RouteIds -> Nat], NEW lower, NEW over,
           FoundFits(fnd, backed, rests, over),
           \A s \in RouteIds : lower[s] \in {0, rests[s]}
    PROVE  FoundFits(fnd, backed, lower, over)
<1>1. ASSUME NEW c \in Callers, NEW f \in fnd[c].storing
      PROVE  Fit(f.id, f.route, backed, lower, over)
  <2>1. fnd[c] \in Finding  BY DEF FoundFits
  <2>2. f \in Found  BY <2>1 DEF Finding
  <2>3. f.id \in RouteIds  BY <2>2 DEF Found
  <2>4. Fit(f.id, f.route, backed, rests, over)  BY DEF FoundFits
  <2> QED  BY <2>3, <2>4, LoweredFits
<1> QED  BY <1>1 DEF FoundFits

-----------------------------------------------------------------------------
(* Calls *)

LEMMA ChoicesAreRoutes ==
    ASSUME NEW table, NEW d \in Nodes
    PROVE  Choices(table, d) \subseteq RouteIds
  BY DEF Choices, Preferred, Candidates, RouteIds, RoutesTo

LEMMA CallerKnows ==
    ASSUME IInv, NEW c \in Callers
    PROVE  /\ call[c].to \in Nodes
           /\ call[c].via \subseteq RouteIds
           /\ \A table : Choices(table, call[c].to) \subseteq RouteIds
<1>1. call[c] \in Doing  BY DEF IInv, CallInv
<1> QED  BY <1>1, ChoicesAreRoutes DEF Doing

LEMMA IdleIsDoing == Idle \in Doing
<1>1. SomeNode \in Nodes  BY RouteAssumption DEF SomeNode
<1> QED  BY <1>1 DEF Idle, Doing

LEMMA BeginIsDoing ==
    ASSUME NEW op \in {"send", "probe"}, NEW d \in Nodes, NEW n \in Nat
    PROVE  Begin(op, d, n) \in Doing
  BY DeliveryAssumption DEF Begin, Doing

\* A caller's call changes, and no other caller's.
Moves(c) == /\ call' \in [Callers -> Doing]
            /\ \A b \in Callers \ {c} : call'[b] = call[b]

LEMMA CallTaken ==
    ASSUME CallInv, NEW c \in Callers, NEW new \in Doing, call' = [call EXCEPT ![c] = new]
    PROVE  Moves(c) /\ call'[c] = new
  BY DEF CallInv, Moves

LEMMA CallBegins ==
    ASSUME CallInv, NEW c \in Callers, NEW op \in {"send", "probe"}, NEW d \in Nodes,
           NEW n \in Nat, call' = [call EXCEPT ![c] = Begin(op, d, n)]
    PROVE  Moves(c) /\ call'[c].via = {}
<1>1. Begin(op, d, n) \in Doing /\ Begin(op, d, n).via = {}  BY BeginIsDoing DEF Begin
<1> QED  BY <1>1, CallTaken

LEMMA CallEnds ==
    ASSUME CallInv, NEW c \in Callers, call' = [call EXCEPT ![c] = Idle]
    PROVE  Moves(c) /\ call'[c].via = {}
<1>1. Idle \in Doing /\ Idle.via = {}  BY IdleIsDoing DEF Idle
<1> QED  BY <1>1, CallTaken

LEMMA CallGoesOn ==
    ASSUME CallInv, NEW c \in Callers, call' = [call EXCEPT ![c].left = @ - 1, ![c].via = {}]
    PROVE  Moves(c) /\ call'[c].via = {}
<1>1. \A old \in Doing, n \in Int :
          [old EXCEPT !.left = n, !.via = {}] \in Doing
          /\ [old EXCEPT !.left = n, !.via = {}].via = {}
  BY DEF Doing
<1>2. call[c] \in Doing /\ call[c].left - 1 \in Int  BY DEF CallInv, Doing
<1>3. call' = [call EXCEPT ![c] = [call[c] EXCEPT !.left = call[c].left - 1, !.via = {}]]
  BY DEF CallInv
<1> QED  BY <1>1, <1>2, <1>3, CallTaken

LEMMA CallTries ==
    ASSUME CallInv, NEW c \in Callers, NEW r \in RouteIds, NEW op \in {"send", "probe"},
           call' = [call EXCEPT ![c].op = op, ![c].tried = @ \cup {r}, ![c].via = {r}]
    PROVE  Moves(c)
<1>1. \A old \in Doing :
          [old EXCEPT !.op = op, !.tried = @ \cup {r}, !.via = {r}] \in Doing
  BY DEF Doing
<1>2. call[c] \in Doing  BY DEF CallInv
<1>3. call' = [call EXCEPT ![c] = [call[c] EXCEPT !.op = op, !.tried = @ \cup {r},
                                                  !.via = {r}]]
  BY DEF CallInv
<1> QED  BY <1>1, <1>2, <1>3, CallTaken

LEMMA CallTransmits ==
    ASSUME CallInv, NEW c \in Callers, NEW r \in RouteIds,
           call' = [call EXCEPT ![c].tried = @ \cup {r}, ![c].via = {r}]
    PROVE  Moves(c)
<1>1. \A old \in Doing : [old EXCEPT !.tried = @ \cup {r}, !.via = {r}] \in Doing
  BY DEF Doing
<1>2. call[c] \in Doing  BY DEF CallInv
<1>3. call' = [call EXCEPT ![c] = [call[c] EXCEPT !.tried = @ \cup {r}, !.via = {r}]]
  BY DEF CallInv
<1> QED  BY <1>1, <1>2, <1>3, CallTaken

LEMMA CallReprobes ==
    ASSUME CallInv, NEW c \in Callers, call[c].via = {},
           call' = [call EXCEPT ![c].op = "reprobe"]
    PROVE  Moves(c) /\ call'[c].via = {}
<1>1. \A old \in Doing : [old EXCEPT !.op = "reprobe"] \in Doing
                         /\ [old EXCEPT !.op = "reprobe"].via = old.via
  BY DEF Doing
<1>2. call[c] \in Doing  BY DEF CallInv
<1>3. call' = [call EXCEPT ![c] = [call[c] EXCEPT !.op = "reprobe"]]  BY DEF CallInv
<1> QED  BY <1>1, <1>2, <1>3, CallTaken

LEMMA NextPassMoves ==
    ASSUME CallInv, NEW c \in Callers, NextPass(c)
    PROVE  Moves(c) /\ call'[c].via = {}
<1>1. CASE call[c].left = 1  BY <1>1, CallEnds DEF NextPass, Ends
<1>2. CASE call[c].left # 1  BY <1>2, CallGoesOn DEF NextPass
<1> QED  BY <1>1, <1>2

\* A caller that moves keeps the rule of waiting, if it stores nothing or waits for
\* nothing afterwards.
LEMMA MovesWait ==
    ASSUME Waits, NEW c \in Callers, \A b \in Callers \ {c} : call'[b] = call[b],
           \A b \in Callers \ {c} : finding'[b] = finding[b],
           call'[c].via = {} \/ finding'[c].storing = {}
    PROVE  Waits'
<1>1. ASSUME NEW b \in Callers, call'[b].via # {} PROVE finding'[b].storing = {}
  BY <1>1 DEF Waits
<1> QED  BY <1>1 DEF Waits

-----------------------------------------------------------------------------
(* Every step *)

LEMMA TableStays ==
    ASSUME TableInv, UNCHANGED <<backed, resting, overtaken>>,
           FitAll(routes', backed, resting, overtaken),
           FoundFits(finding', backed, resting, overtaken)
    PROVE  TableInv'
  BY DEF TableInv

LEMMA InvInit == Init => IInv
<1> SUFFICES ASSUME Init PROVE IInv  OBVIOUS
<1>1. RegistryInv  BY RegistryInit DEF Init
<1>2. resting \in [RouteIds -> Nat]  BY DEF Init, RouteInit
<1>3. FitAll(routes, backed, resting, overtaken)
  BY NoRouteType DEF Init, RouteInit, FitAll, Tables, Fit, Backs
<1>4. NotFinding \in Finding /\ NotFinding.storing = {} /\ NotFinding.todo = {}
  BY DEF NotFinding, Finding
<1>5. FoundFits(finding, backed, resting, overtaken)  BY <1>4 DEF Init, FoundFits
<1>6. CallInv  BY IdleIsDoing DEF Init, CallInv
<1>7. Waits  BY <1>4 DEF Init, Waits
<1> QED  BY <1>1, <1>2, <1>3, <1>5, <1>6, <1>7 DEF IInv, TableInv

\* Nothing that the invariant is about.
LEMMA IdleStep ==
    ASSUME IInv, UNCHANGED <<gatewayVars, routeVars, finding, call, sent>>
    PROVE  IInv'
<1>1. RegistryInv'
  BY DEF IInv, RegistryInv, RegistryType, FloorCovers, ListedIsBacked, gatewayVars
<1>2. TableInv'  BY TableStays DEF IInv, TableInv, gatewayVars, routeVars
<1>3. CallInv' /\ Waits'  BY DEF IInv, CallInv, Waits
<1> QED  BY <1>1, <1>2, <1>3 DEF IInv

LEMMA RegistryStays ==
    ASSUME RegistryInv, UNCHANGED gatewayVars
    PROVE  RegistryInv'
  BY DEF RegistryInv, RegistryType, FloorCovers, ListedIsBacked, gatewayVars

LEMMA StartKeeps ==
    ASSUME IInv, NEW c \in Callers, NEW d \in Nodes, StartSend(c, d) \/ StartProbe(c, d)
    PROVE  IInv'
<1>1. UNCHANGED <<gatewayVars, routeVars, finding>>  BY DEF StartSend, StartProbe
<1>2. sent' \in [Callers -> Nat]  BY DEF IInv, CallInv, StartSend, StartProbe
<1>3. Moves(c) /\ call'[c].via = {}
  <2>1. sent[c] + 1 \in Nat  BY DEF IInv, CallInv
  <2> QED  BY <2>1, CallBegins DEF IInv, StartSend, StartProbe
<1>4. RegistryInv'  BY <1>1, RegistryStays DEF IInv
<1>5. TableInv'  BY <1>1, TableStays DEF IInv, TableInv, gatewayVars, routeVars
<1>6. Waits'  BY <1>1, <1>3, MovesWait DEF IInv, Moves
<1> QED  BY <1>2, <1>3, <1>4, <1>5, <1>6 DEF IInv, CallInv, Moves

\* One step of discover_routes.
LEMMA ListsKeeps ==
    ASSUME IInv, NEW c \in Callers, call[c].via = {},
           NEW table, FitAll(table, backed, resting, overtaken), ListsGateways(c, table),
           UNCHANGED <<floor, newest, backed, resting, overtaken, call, sent>>
    PROVE  IInv'
<1> DEFINE found == ThroughGateways(call[c].to, Refreshed)
<1>1. RegistryInv'  BY RefreshKeepsRegistry DEF IInv, ListsGateways
<1>2. \A f \in found : f \in Found /\ Backs(f.id, f.route, backed)
  BY CallerKnows, GatewaysBack DEF IInv
<1>3. GoesOn(c, table, found) /\ routes' = table  BY DEF ListsGateways
<1> HIDE DEF found
<1>4. /\ FoundFits(finding', backed, resting, overtaken)
      /\ \A b \in Callers \ {c} : finding'[b] = finding[b]
  BY <1>2, <1>3, GoesOnFits DEF IInv
<1>5. TableInv'  BY <1>3, <1>4, TableStays DEF IInv
<1>6. Waits'  BY <1>4, MovesWait DEF IInv
<1> QED  BY <1>1, <1>5, <1>6 DEF IInv, CallInv

LEMMA DiscoverKeeps == ASSUME IInv, NEW c \in Callers, Discover(c) PROVE IInv'
<1>0. /\ call[c].via = {}
      /\ UNCHANGED <<floor, newest, backed, resting, overtaken, call, sent>>
  BY DEF Discover, Choosing
<1>1. CASE ListsGateways(c, routes)  BY <1>0, <1>1, ListsKeeps DEF IInv, TableInv
<1>2. ASSUME finding' = [finding EXCEPT ![c] = [stage |-> "own", todo |-> {},
                            storing |-> {Copied(routes, OwnRoute(call[c].to))}]],
             UNCHANGED <<ads, routes>>
      PROVE  IInv'
  <2> DEFINE new == [stage |-> "own", todo |-> {},
                     storing |-> {Copied(routes, OwnRoute(call[c].to))}]
             f == Copied(routes, OwnRoute(call[c].to))
  <2>1. f \in Found /\ Fit(f.id, f.route, backed, resting, overtaken)
    BY CallerKnows, OwnRouteBacks, CopiedFits DEF IInv, TableInv
  <2>2. new \in Finding /\ new.storing = {f} /\ new.todo = {}  BY <2>1 DEF Finding
  <2>3. finding \in [Callers -> Finding]  BY DEF IInv, TableInv, FoundFits
  <2> HIDE DEF new, f
  <2>4. /\ finding' \in [Callers -> Finding] /\ finding'[c] = new
        /\ \A b \in Callers \ {c} : finding'[b] = finding[b]
    BY <1>2, <2>2, <2>3 DEF new
  <2>5. FoundFits(finding', backed, resting, overtaken)
    <3>1. ASSUME NEW b \in Callers
          PROVE  /\ \A e \in finding'[b].storing : Fit(e.id, e.route, backed, resting, overtaken)
                 /\ \A e \in finding'[b].todo : Backs(e.id, e.route, backed)
      <4>1. CASE b = c  BY <2>1, <2>2, <2>4, <4>1
      <4>2. CASE b # c  BY <2>4, <4>2 DEF IInv, TableInv, FoundFits
      <4> QED  BY <4>1, <4>2
    <3> QED  BY <2>4, <3>1 DEF FoundFits
  <2>6. TableInv'  BY <1>0, <1>2, <2>5, TableStays DEF IInv, TableInv
  <2>7. Waits'  BY <1>0, <2>4, MovesWait DEF IInv
  <2>8. RegistryInv'  BY <1>0, <1>2, RegistryStays DEF IInv, gatewayVars
  <2> QED  BY <1>0, <2>6, <2>7, <2>8 DEF IInv, CallInv
<1> QED  BY <1>1, <1>2 DEF Discover

LEMMA StoreRouteKeeps == ASSUME IInv, NEW c \in Callers, StoreRoute(c) PROVE IInv'
<1>0. /\ call[c].via = {}
      /\ UNCHANGED <<floor, newest, backed, resting, overtaken, call, sent>>
  BY DEF StoreRoute, Choosing
<1>1. FitAll(Replaced(c), backed, resting, overtaken)  BY ReplacedFits DEF IInv
<1>2. CASE ListsGateways(c, Replaced(c))  BY <1>0, <1>1, <1>2, ListsKeeps
<1>3. ASSUME routes' = Replaced(c), GoesOn(c, routes', finding[c].todo), UNCHANGED ads
      PROVE  IInv'
  <2>1. finding[c] \in Finding /\ \A f \in finding[c].todo : Backs(f.id, f.route, backed)
    BY DEF IInv, TableInv, FoundFits
  <2>2. finding[c].todo \in SUBSET Found  BY <2>1 DEF Finding
  <2>3. GoesOn(c, Replaced(c), finding[c].todo)  BY <1>3
  <2>4. /\ FoundFits(finding', backed, resting, overtaken)
        /\ \A b \in Callers \ {c} : finding'[b] = finding[b]
    BY <1>1, <2>1, <2>2, <2>3, GoesOnFits DEF IInv
  <2>5. TableInv'  BY <1>0, <1>1, <1>3, <2>4, TableStays DEF IInv
  <2>6. Waits'  BY <1>0, <2>4, MovesWait DEF IInv
  <2>7. RegistryInv'  BY <1>0, <1>3, RegistryStays DEF IInv, gatewayVars
  <2> QED  BY <1>0, <2>5, <2>6, <2>7 DEF IInv, CallInv
<1> QED  BY <1>2, <1>3 DEF StoreRoute

\* The end of a selection: the last route takes its place, and perhaps a failure
\* is reported on the one chosen.
LEMMA SelectedKeeps ==
    ASSUME IInv, NEW c \in Callers, NEW op, Selecting(c, op), Moves(c),
           \/ routes' = Replaced(c) /\ UNCHANGED <<resting, overtaken>>
           \/ \E r \in RouteIds : routes' = RouteFailed(Replaced(c), r)
                                  /\ Reported(c, Replaced(c), r)
    PROVE  IInv'
<1>0. /\ UNCHANGED <<gatewayVars, sent>>
      /\ finding' = [finding EXCEPT ![c] = NotFinding]
  BY DEF Selecting
<1>1. FitAll(Replaced(c), backed, resting, overtaken)  BY ReplacedFits DEF IInv
<1>2. finding \in [Callers -> Finding] /\ FoundFits(finding, backed, resting, overtaken)
  BY DEF IInv, TableInv, FoundFits
<1>3. FoundFits(finding', backed, resting, overtaken)
  BY <1>0, <1>2, NotFindingFits
<1>4. /\ finding' \in [Callers -> Finding] /\ finding'[c].storing = {}
      /\ \A b \in Callers \ {c} : finding'[b] = finding[b]
  <2>1. NotFinding \in Finding /\ NotFinding.storing = {}  BY DEF NotFinding, Finding
  <2> QED  BY <1>0, <1>2, <2>1
<1>5. backed' = backed  BY <1>0 DEF gatewayVars
<1>6. CASE routes' = Replaced(c) /\ UNCHANGED <<resting, overtaken>>
  <2>1. TableInv'  BY <1>1, <1>3, <1>5, <1>6, TableStays DEF IInv
  <2>2. RegistryInv' /\ Waits'  BY <1>0, <1>4, RegistryStays, MovesWait DEF IInv, Moves
  <2> QED  BY <1>0, <2>1, <2>2 DEF IInv, CallInv, Moves
<1>7. ASSUME NEW r \in RouteIds, routes' = RouteFailed(Replaced(c), r),
             Reported(c, Replaced(c), r)
      PROVE  IInv'
  <2>1. /\ resting' \in [RouteIds -> Nat]
        /\ FitAll(routes', backed, resting', overtaken')
        /\ FoundFits(finding', backed, resting', overtaken')
    BY <1>1, <1>3, <1>4, <1>7, ReportedFits DEF IInv, Reported
  <2>2. TableInv'  BY <1>5, <2>1 DEF TableInv
  <2>3. RegistryInv' /\ Waits'  BY <1>0, <1>4, RegistryStays, MovesWait DEF IInv, Moves
  <2> QED  BY <1>0, <2>2, <2>3 DEF IInv, CallInv, Moves
<1> QED  BY <1>6, <1>7

LEMMA SendSelectionKeeps ==
    ASSUME IInv, NEW c \in Callers,
           \/ NoMeshRoute(c, Replaced(c))
           \/ \E r \in Choices(Replaced(c), call[c].to) :
                \/ Dismiss(c, Replaced(c), r)
                \/ PassOver(c, Replaced(c), r)
                \/ Transmit(c, Replaced(c), r)
    PROVE  IInv'
<1>0. CallInv  BY DEF IInv
<1>1. CASE NoMeshRoute(c, Replaced(c))
  <2>1. Moves(c)  BY <1>0, <1>1, CallEnds DEF NoMeshRoute, Ends
  <2> QED  BY <1>1, <2>1, SelectedKeeps DEF NoMeshRoute
<1>2. ASSUME NEW r \in Choices(Replaced(c), call[c].to), Dismiss(c, Replaced(c), r)
      PROVE  IInv'
  <2>1. r \in RouteIds  BY CallerKnows
  <2>2. Moves(c)  BY <1>0, <1>2, NextPassMoves DEF Dismiss
  <2> QED  BY <1>2, <2>1, <2>2, SelectedKeeps DEF Dismiss, SelectsMesh
<1>3. ASSUME NEW r, PassOver(c, Replaced(c), r) PROVE IInv'
  <2>1. Moves(c)  BY <1>0, <1>3, NextPassMoves DEF PassOver
  <2> QED  BY <1>3, <2>1, SelectedKeeps DEF PassOver, SelectsMesh
<1>4. ASSUME NEW r \in Choices(Replaced(c), call[c].to), Transmit(c, Replaced(c), r)
      PROVE  IInv'
  <2>1. r \in RouteIds  BY CallerKnows
  <2>2. Moves(c)  BY <1>0, <1>4, <2>1, CallTransmits DEF Transmit
  <2> QED  BY <1>4, <2>2, SelectedKeeps DEF Transmit, SelectsMesh
<1> QED  BY <1>1, <1>2, <1>3, <1>4

LEMMA ProbeSelectionKeeps ==
    ASSUME IInv, NEW c \in Callers,
           \/ ProbeNothing(c, Replaced(c))
           \/ \E r \in Choices(Replaced(c), call[c].to) :
                \/ ProbeRoute(c, Replaced(c), r)
                \/ ProbeAgain(c, Replaced(c), r)
                \/ ProbeGivesUp(c, Replaced(c), r)
    PROVE  IInv'
<1>0. CallInv  BY DEF IInv
<1>1. CASE ProbeNothing(c, Replaced(c))
  <2>1. Moves(c)  BY <1>0, <1>1, CallEnds DEF ProbeNothing, ProbeEnds
  <2> QED  BY <1>1, <2>1, SelectedKeeps DEF ProbeNothing
<1>2. ASSUME NEW r \in Choices(Replaced(c), call[c].to), ProbeRoute(c, Replaced(c), r)
      PROVE  IInv'
  <2>1. r \in RouteIds  BY CallerKnows
  <2>2. Moves(c)  BY <1>0, <1>2, <2>1, CallTries DEF ProbeRoute
  <2> QED  BY <1>2, <2>2, SelectedKeeps DEF ProbeRoute, ProbeSelects
<1>3. ASSUME NEW r \in Choices(Replaced(c), call[c].to), ProbeAgain(c, Replaced(c), r)
      PROVE  IInv'
  <2>1. r \in RouteIds  BY CallerKnows
  <2>2. call[c].via = {}  BY <1>3 DEF ProbeAgain, ProbeSelects, Selecting
  <2>3. Moves(c)  BY <1>0, <1>3, <2>2, CallReprobes DEF ProbeAgain
  <2> QED  BY <1>3, <2>1, <2>3, SelectedKeeps DEF ProbeAgain, ProbeSelects
<1>4. ASSUME NEW r, ProbeGivesUp(c, Replaced(c), r) PROVE IInv'
  <2>1. Moves(c)  BY <1>0, <1>4, CallEnds DEF ProbeGivesUp, ProbeEnds
  <2> QED  BY <1>4, <2>1, SelectedKeeps DEF ProbeGivesUp, ProbeSelects
<1> QED  BY <1>1, <1>2, <1>3, <1>4

\* The answer of mesh_send, good or bad.
LEMMA SucceededKeeps ==
    ASSUME IInv, NEW c \in Callers, NEW r \in RouteIds, Moves(c), call'[c].via = {},
           routes' = RouteSucceeded(routes, r), resting' = [resting EXCEPT ![r] = 0],
           UNCHANGED <<gatewayVars, overtaken, finding, sent>>
    PROVE  IInv'
<1>1. resting \in [RouteIds -> Nat]  BY DEF IInv, TableInv
<1>2. resting' \in [RouteIds -> Nat] /\ \A s \in RouteIds : resting'[s] \in {0, resting[s]}
  BY <1>1
<1>3. FitAll(routes', backed, resting', overtaken)
  BY <1>1, SuccessFits DEF IInv, TableInv
<1>4. FoundFits(finding, backed, resting', overtaken)
  BY <1>1, <1>2, LoweredFound DEF IInv, TableInv
<1>5. TableInv'  BY <1>2, <1>3, <1>4 DEF TableInv, gatewayVars
<1>6. RegistryInv' /\ Waits'  BY RegistryStays, MovesWait DEF IInv, Moves
<1> QED  BY <1>5, <1>6 DEF IInv, CallInv, Moves

LEMMA FailedKeeps ==
    ASSUME IInv, NEW c \in Callers, NEW r \in RouteIds, Moves(c), call'[c].via = {},
           call[c].via # {}, overtaken' = Overtaken(c, r),
           \/ routes' = RouteFailed(routes, r) /\ resting' = Rested(routes, r)
           \/ /\ routes' = Surviving(RouteFailed(routes, r))
              /\ resting' = [s \in RouteIds |-> IF Expired(RouteFailed(routes, r), s)
                                                  THEN 0 ELSE Rested(routes, r)[s]],
           UNCHANGED <<gatewayVars, finding, sent>>
    PROVE  IInv'
<1> DEFINE rests == Rested(routes, r)
           over == Overtaken(c, r)
<1>1. finding[c].storing = {}  BY DEF IInv, Waits
<1>2. /\ finding \in [Callers -> Finding] /\ FoundFits(finding, backed, resting, overtaken)
      /\ FitAll(routes, backed, resting, overtaken)
  BY DEF IInv, TableInv, FoundFits
<1>3. /\ rests \in [RouteIds -> Nat]
      /\ FitAll(RouteFailed(routes, r), backed, rests, over)
      /\ FoundFits(finding, backed, rests, over)
  BY <1>1, <1>2, ReportedFits DEF IInv
<1> HIDE DEF rests, over
<1>4. overtaken' = over /\ UNCHANGED <<backed, finding>>  BY DEF over, gatewayVars
<1>5. TableInv'
  <2>1. CASE routes' = RouteFailed(routes, r) /\ resting' = rests
    BY <1>3, <1>4, <2>1 DEF TableInv
  <2>2. CASE /\ routes' = Surviving(RouteFailed(routes, r))
             /\ resting' = [s \in RouteIds |-> IF Expired(RouteFailed(routes, r), s)
                                                 THEN 0 ELSE rests[s]]
    <3>1. resting' \in [RouteIds -> Nat] /\ \A s \in RouteIds : resting'[s] \in {0, rests[s]}
      BY <1>3, <2>2
    <3>2. FitAll(routes', backed, resting', over)  BY <1>3, <2>2, SurvivingFits
    <3>3. FoundFits(finding, backed, resting', over)  BY <1>3, <3>1, LoweredFound
    <3> QED  BY <1>4, <3>1, <3>2, <3>3 DEF TableInv
  <2> QED  BY <2>1, <2>2 DEF rests
<1>6. RegistryInv' /\ Waits'  BY RegistryStays, MovesWait DEF IInv, Moves
<1> QED  BY <1>5, <1>6 DEF IInv, CallInv, Moves

LEMMA AnswerKeeps ==
    ASSUME IInv, NEW c \in Callers, NEW r \in call[c].via,
           \/ \E got : Refused(c, r, got)
           \/ \E got, answer : Answered(c, r, answer, got)
           \/ ProbeSucceeds(c, r)
           \/ ProbeFails(c, r)
    PROVE  IInv'
<1>0. CallInv /\ r \in RouteIds /\ call[c].via # {}  BY CallerKnows DEF IInv
<1>1. ASSUME NEW got, Refused(c, r, got) PROVE IInv'
  <2>1. Moves(c) /\ call'[c].via = {}  BY <1>0, <1>1, NextPassMoves DEF Refused
  <2> QED  BY <1>0, <1>1, <2>1, FailedKeeps DEF Refused, Reported
<1>2. ASSUME NEW got, NEW answer, Answered(c, r, answer, got) PROVE IInv'
  <2>1. Moves(c) /\ call'[c].via = {}  BY <1>0, <1>2, CallEnds DEF Answered, Ends
  <2> QED  BY <1>0, <1>2, <2>1, SucceededKeeps DEF Answered
<1>3. CASE ProbeSucceeds(c, r)
  <2>1. Moves(c) /\ call'[c].via = {}  BY <1>0, <1>3, CallEnds DEF ProbeSucceeds, ProbeEnds
  <2> QED  BY <1>0, <1>3, <2>1, SucceededKeeps DEF ProbeSucceeds
<1>4. CASE ProbeFails(c, r)
  <2>1. Moves(c) /\ call'[c].via = {}
    BY <1>0, <1>4, CallEnds, CallGoesOn DEF ProbeFails, ProbeEnds
  <2>2. resting \in [RouteIds -> Nat] /\ routes \in Tables
    BY DEF IInv, TableInv, FitAll
  <2>3. Rested(routes, r) = [s \in RouteIds |-> Rested(routes, r)[s]]
    BY <2>2 DEF Rested
  <2>4. \/ routes' = RouteFailed(routes, r) /\ resting' = Rested(routes, r)
        \/ /\ routes' = Surviving(RouteFailed(routes, r))
           /\ resting' = [s \in RouteIds |-> IF Expired(RouteFailed(routes, r), s)
                                               THEN 0 ELSE Rested(routes, r)[s]]
    <3>1. CASE call[c].left = 1  BY <1>4, <2>3, <3>1 DEF ProbeFails
    <3>2. CASE call[c].left # 1  BY <1>4, <3>2 DEF ProbeFails
    <3> QED  BY <3>1, <3>2
  <2>5. overtaken' = Overtaken(c, r) /\ UNCHANGED <<gatewayVars, finding, sent>>
    BY <1>4 DEF ProbeFails
  <2> QED  BY <1>0, <2>1, <2>4, <2>5, FailedKeeps
<1> QED  BY <1>1, <1>2, <1>3, <1>4

\* Advertisements and time.
LEMMA AdvertisedKeeps ==
    ASSUME IInv, NEW g \in Gateways, NEW ad \in Ads, Advertised(g, ad)
    PROVE  IInv'
<1>1. Ingest(g, ad) /\ UNCHANGED <<routeVars, finding, call, sent>>  BY DEF Advertised
<1>2. RegistryInv'  BY <1>1, IngestKeepsRegistry DEF IInv
<1>3. ASSUME NEW h \in Gateways
      PROVE  backed'[h] \in Nat /\ backed[h] \in Nat /\ backed'[h] >= backed[h]
  BY <1>1 DEF Ingest, IInv, RegistryInv, RegistryType, Ads
<1>4. ASSUME NEW r, NEW route, Backs(r, route, backed) PROVE Backs(r, route, backed')
  <2>1. route \in Route  BY <1>4 DEF Backs
  <2>2. route.left \in Nat  BY <2>1, RouteFields
  <2> QED  BY <1>3, <1>4, <2>2 DEF Backs
<1>5. ASSUME NEW r, NEW route, Fit(r, route, backed, resting, overtaken)
      PROVE  Fit(r, route, backed', resting, overtaken)
  BY <1>4, <1>5 DEF Fit
<1>6. FitAll(routes, backed', resting, overtaken)  BY <1>5 DEF IInv, TableInv, FitAll
<1>7. FoundFits(finding, backed', resting, overtaken)
  BY <1>4, <1>5 DEF IInv, TableInv, FoundFits
<1>8. TableInv'  BY <1>1, <1>6, <1>7 DEF IInv, TableInv, routeVars
<1> QED  BY <1>1, <1>2, <1>8 DEF IInv, CallInv, Waits

\* Time makes everything older by as much.
LEMMA TimeFits ==
    ASSUME RegistryInv, TableInv, NEW t \in Nat, GatewaysAge(t), RoutesAge(t),
           NEW r \in RouteIds, NEW route, Fit(r, route, backed, resting, overtaken)
    PROVE  Fit(r, OlderRoute(route, t), backed', resting', overtaken')
<1> DEFINE over == {s \in overtaken : Less(resting[s], t) > 0}
<1>1. /\ backed' = [g \in Gateways |-> Less(backed[g], t)]
      /\ resting' = [s \in RouteIds |-> Less(resting[s], t)]
  BY DEF GatewaysAge, RoutesAge
<1>2. Fit(r, OlderRoute(route, t), backed', resting', over)
  BY <1>1, OlderFits DEF TableInv
<1>3. r \in overtaken' <=> r \in over  BY <1>1 DEF RoutesAge
<1> QED  BY <1>2, <1>3 DEF Fit

LEMMA OlderFoundIs ==
    ASSUME NEW found \in SUBSET Found, NEW t \in Nat, NEW e \in OlderFound(found, t)
    PROVE  \E f \in found : e = [id |-> f.id, route |-> OlderRoute(f.route, t)]
<1>1. PICK f \in found : e = [f EXCEPT !.route = OlderRoute(@, t)]  BY DEF OlderFound
<1>2. f \in Found  OBVIOUS
<1>3. e = [id |-> f.id, route |-> OlderRoute(f.route, t)]  BY <1>1, <1>2 DEF Found
<1> QED  BY <1>3

LEMMA OlderBacks ==
    ASSUME RegistryInv, NEW t \in Nat, GatewaysAge(t), NEW r, NEW route,
           Backs(r, route, backed)
    PROVE  OlderRoute(route, t) \in Route /\ Backs(r, OlderRoute(route, t), backed')
<1>1. route \in Route /\ route.left \in Nat /\ route.cooldown \in Nat
  BY RouteFields DEF Backs
<1>2. Less(route.left, t) \in Nat /\ Less(route.cooldown, t) \in Nat  BY <1>1 DEF Less
<1>3. /\ OlderRoute(route, t) \in Route
      /\ OlderRoute(route, t).trusted = route.trusted
      /\ OlderRoute(route, t).left = Less(route.left, t)
  <2> DEFINE life == Less(route.left, t)
             cool == Less(route.cooldown, t)
  <2>1. OlderRoute(route, t) = Dated(route, life, cool)  BY DEF OlderRoute, Dated
  <2>2. life \in Nat /\ cool \in Nat  BY <1>2
  <2> HIDE DEF life, cool
  <2>3. /\ Dated(route, life, cool) \in Route
        /\ Dated(route, life, cool).trusted = route.trusted
        /\ Dated(route, life, cool).left = life
    BY <1>1, <2>2 DEF Dated, Route
  <2> QED  BY <2>1, <2>3 DEF life
<1>4. ASSUME MeshSecret, NextHop(r) \in Gateways, route.trusted
      PROVE  Less(route.left, t) <= backed'[NextHop(r)]
  <2>1. route.left <= backed[NextHop(r)]  BY <1>4 DEF Backs
  <2>2. backed[NextHop(r)] \in Nat  BY <1>4 DEF RegistryInv, RegistryType
  <2>3. backed'[NextHop(r)] = Less(backed[NextHop(r)], t)  BY <1>4 DEF GatewaysAge
  <2>4. Less(route.left, t) <= Less(backed[NextHop(r)], t)  BY <1>1, <2>1, <2>2, LessIsLess
  <2> QED  BY <2>3, <2>4
<1> QED  BY <1>3, <1>4 DEF Backs

LEMMA TimeKeepsFound ==
    ASSUME RegistryInv, TableInv, NEW t \in Nat, GatewaysAge(t), RoutesAge(t),
           finding' = [c \in Callers |-> [finding[c] EXCEPT !.storing = OlderFound(@, t),
                                                            !.todo = OlderFound(@, t)]]
    PROVE  /\ FoundFits(finding', backed', resting', overtaken')
           /\ \A c \in Callers : finding[c].storing = {} => finding'[c].storing = {}
<1> DEFINE old(f) == [id |-> f.id, route |-> OlderRoute(f.route, t)]
<1>1. ASSUME NEW c \in Callers
      PROVE  /\ finding[c] \in Finding
             /\ finding[c].storing \in SUBSET Found /\ finding[c].todo \in SUBSET Found
  <2>1. finding[c] \in Finding  BY DEF TableInv, FoundFits
  <2> QED  BY <2>1 DEF Finding
<1>2. ASSUME NEW f \in Found, Backs(f.id, f.route, backed)
      PROVE  old(f) \in Found /\ Backs(f.id, OlderRoute(f.route, t), backed')
             /\ old(f).id = f.id /\ old(f).route = OlderRoute(f.route, t)
  <2>1. /\ OlderRoute(f.route, t) \in Route
        /\ Backs(f.id, OlderRoute(f.route, t), backed')
    BY <1>2, OlderBacks
  <2> QED  BY <2>1 DEF Found
<1>3. ASSUME NEW c \in Callers, NEW e \in OlderFound(finding[c].storing, t)
      PROVE  e \in Found /\ Fit(e.id, e.route, backed', resting', overtaken')
  <2>1. PICK f \in finding[c].storing : e = old(f)  BY <1>1, <1>3, OlderFoundIs
  <2>2. Fit(f.id, f.route, backed, resting, overtaken)  BY DEF TableInv, FoundFits
  <2>3. f \in Found /\ f.id \in RouteIds  BY <1>1 DEF Found
  <2>4. Fit(f.id, OlderRoute(f.route, t), backed', resting', overtaken')
    BY <2>2, <2>3, TimeFits
  <2>5. Backs(f.id, f.route, backed)  BY <2>2 DEF Fit
  <2> HIDE DEF old
  <2> QED  BY <1>2, <2>1, <2>3, <2>4, <2>5
<1>4. ASSUME NEW c \in Callers, NEW e \in OlderFound(finding[c].todo, t)
      PROVE  e \in Found /\ Backs(e.id, e.route, backed')
  <2>1. PICK f \in finding[c].todo : e = old(f)  BY <1>1, <1>4, OlderFoundIs
  <2>2. Backs(f.id, f.route, backed)  BY DEF TableInv, FoundFits
  <2>3. f \in Found  BY <1>1
  <2> HIDE DEF old
  <2> QED  BY <1>2, <2>1, <2>2, <2>3
<1>5. ASSUME NEW c \in Callers
      PROVE  /\ finding'[c] \in Finding
             /\ finding'[c].storing = OlderFound(finding[c].storing, t)
             /\ finding'[c].todo = OlderFound(finding[c].todo, t)
  <2> DEFINE storing == OlderFound(finding[c].storing, t)
             todo == OlderFound(finding[c].todo, t)
  <2>1. finding'[c] = [finding[c] EXCEPT !.storing = storing, !.todo = todo]  OBVIOUS
  <2>2. storing \in SUBSET Found /\ todo \in SUBSET Found  BY <1>3, <1>4
  <2>3. finding[c] \in Finding  BY <1>1
  <2> HIDE DEF storing, todo
  <2> QED  BY <2>1, <2>2, <2>3 DEF Finding
<1>6. finding' = [c \in Callers |-> finding'[c]]  OBVIOUS
<1>7. finding' \in [Callers -> Finding]  BY <1>5, <1>6
<1>8. \A c \in Callers : finding[c].storing = {} => finding'[c].storing = {}
  BY <1>5 DEF OlderFound
<1> QED  BY <1>3, <1>4, <1>5, <1>7, <1>8 DEF FoundFits

LEMMA TimeKeeps == ASSUME IInv, NEW t \in Nat, Time(t) PROVE IInv'
<1>0. /\ GatewaysAge(t) /\ RoutesAge(t) /\ UNCHANGED <<call, sent>>
      /\ finding' = [c \in Callers |-> [finding[c] EXCEPT !.storing = OlderFound(@, t),
                                                         !.todo = OlderFound(@, t)]]
      /\ RegistryInv /\ TableInv
  BY DEF Time, IInv
<1>1. RegistryInv'  BY <1>0, AgeKeepsRegistry
<1>2. resting' \in [RouteIds -> Nat]
  <2>1. \A n \in Nat : Less(n, t) \in Nat  BY DEF Less
  <2> QED  BY <1>0, <2>1 DEF RoutesAge, TableInv
<1>3. /\ FoundFits(finding', backed', resting', overtaken')
      /\ \A c \in Callers : finding[c].storing = {} => finding'[c].storing = {}
  BY <1>0, TimeKeepsFound
<1>4. FitAll(routes', backed', resting', overtaken')
  <2>1. routes' = [r \in RouteIds |-> OlderRoute(routes[r], t)]  BY <1>0 DEF RoutesAge
  <2>2. ASSUME NEW r \in RouteIds
        PROVE  Fit(r, OlderRoute(routes[r], t), backed', resting', overtaken')
    <3>1. Fit(r, routes[r], backed, resting, overtaken)  BY <1>0 DEF TableInv, FitAll
    <3> QED  BY <1>0, <3>1, TimeFits
  <2>3. \A r \in RouteIds : OlderRoute(routes[r], t) \in Route  BY <2>2 DEF Fit, Backs
  <2>4. routes' \in Tables  BY <2>1, <2>3 DEF Tables
  <2> QED  BY <2>1, <2>2, <2>4 DEF FitAll
<1>5. TableInv'  BY <1>2, <1>3, <1>4 DEF TableInv
<1>6. Waits'  BY <1>0, <1>3 DEF IInv, Waits
<1> QED  BY <1>0, <1>1, <1>5, <1>6 DEF IInv, CallInv

LEMMA AdvertisementIsTyped ==
    ASSUME NEW s \in 1..MaxSequence, NEW said \in {"secret", "none"}, NEW sig \in BOOLEAN,
           NEW l \in Lifetimes
    PROVE  [sequence |-> s, auth |-> said, signed |-> sig, left |-> l] \in Ads
<1>1. s \in Nat /\ l \in Nat  BY GatewayAssumption
<1> QED  BY <1>1 DEF Ads

LEMMA NextKeepsIInv == IInv /\ [Next]_vars => IInv'
<1> SUFFICES ASSUME IInv, [Next]_vars PROVE IInv'  OBVIOUS
<1>1. ASSUME NEW c \in Callers, Discover(c) \/ StoreRoute(c) PROVE IInv'
  BY <1>1, DiscoverKeeps, StoreRouteKeeps
<1>2. ASSUME NEW c \in Callers, SendStep(c) PROVE IInv'
  <2>1. CASE \E d \in Nodes : StartSend(c, d)  BY <2>1, StartKeeps
  <2>2. CASE \/ NoMeshRoute(c, Replaced(c))
             \/ \E r \in Choices(Replaced(c), call[c].to) :
                  \/ Dismiss(c, Replaced(c), r)
                  \/ PassOver(c, Replaced(c), r)
                  \/ Transmit(c, Replaced(c), r)
    BY <2>2, SendSelectionKeeps
  <2>3. ASSUME NEW r \in call[c].via, NEW got, NEW answer,
               Refused(c, r, got) \/ Answered(c, r, answer, got)
        PROVE  IInv'
    BY <2>3, AnswerKeeps
  <2> QED  BY <1>2, <2>1, <2>2, <2>3 DEF SendStep
<1>3. ASSUME NEW c \in Callers, ProbeStep(c) PROVE IInv'
  <2>1. CASE \E d \in Nodes : StartProbe(c, d)  BY <2>1, StartKeeps
  <2>2. CASE \/ ProbeNothing(c, Replaced(c))
             \/ \E r \in Choices(Replaced(c), call[c].to) :
                  \/ ProbeRoute(c, Replaced(c), r)
                  \/ ProbeAgain(c, Replaced(c), r)
                  \/ ProbeGivesUp(c, Replaced(c), r)
    BY <2>2, ProbeSelectionKeeps
  <2>3. ASSUME NEW r \in call[c].via, ProbeSucceeds(c, r) \/ ProbeFails(c, r)
        PROVE  IInv'
    BY <2>3, AnswerKeeps
  <2> QED  BY <1>3, <2>1, <2>2, <2>3 DEF ProbeStep
<1>4. ASSUME NEW m, IngestAcknowledgment(m) PROVE IInv'
  BY <1>4, IdleStep DEF IngestAcknowledgment
<1>5. ASSUME NEW g \in Gateways, NEW s \in 1..MaxSequence, NEW said \in {"secret", "none"},
             NEW sig \in BOOLEAN, NEW l \in Lifetimes,
             Advertised(g, [sequence |-> s, auth |-> said, signed |-> sig, left |-> l])
      PROVE  IInv'
  BY <1>5, AdvertisementIsTyped, AdvertisedKeeps
<1>6. ASSUME NEW t \in TimeSteps, Time(t) PROVE IInv'
  <2>1. t \in Nat  BY DeliveryAssumption
  <2> QED  BY <1>6, <2>1, TimeKeeps
<1>7. CASE UNCHANGED vars
  BY <1>7, IdleStep DEF vars, gatewayVars, routeVars
<1> QED
  BY <1>1, <1>2, <1>3, <1>4, <1>5, <1>6, <1>7 DEF Next, Callers

LEMMA Invariance == Spec => []IInv
  BY InvInit, NextKeepsIInv, PTL DEF Spec

\* On a node that has the mesh secret no gateway is used on the strength of
\* anything but a signed advertisement that lives as long (route.py
\* discover_routes, gateway.py verify); without it what an advertisement says of
\* itself is believed.
THEOREM RoutesRestOnAdvertisements == Spec => []RoutesRestOnAds
<1>1. ASSUME IInv PROVE RoutesRestOnAds
  <2>1. ASSUME MeshSecret, NEW d \in Nodes, NEW g \in Gateways, routes[<<d, g>>].trusted
        PROVE  routes[<<d, g>>].left <= backed[g]
    <3>1. <<d, g>> \in RouteIds /\ NextHop(<<d, g>>) = g  BY RoutesToGateways
    <3>2. Backs(<<d, g>>, routes[<<d, g>>], backed)
      BY <1>1, <3>1 DEF IInv, TableInv, FitAll, Fit
    <3> QED  BY <2>1, <3>1, <3>2 DEF Backs
  <2> QED  BY <2>1 DEF RoutesRestOnAds
<1> QED  BY <1>1, Invariance, PTL

-----------------------------------------------------------------------------
(* Sequence numbers *)

RisesNow == \A g \in Gateways : Enters(g) => ads'[g].sequence > newest[g]

LEMMA IngestRises ==
    ASSUME RegistryInv, NEW h \in Gateways, NEW ad \in Ads, Ingest(h, ad)
    PROVE  RisesNow
<1> DEFINE table == [ads EXCEPT ![h] = ad]
<1>1. ads' \in Trimmed(table)  BY DEF Ingest
<1>2. ASSUME NEW g \in Gateways, Enters(g) PROVE ads'[g].sequence > newest[g]
  <2>1. ads'[g] # NoAd  BY <1>2 DEF Enters
  <2>2. ads'[g] = table[g]
    <3> HIDE DEF table
    <3> QED  BY <1>1, <2>1, TrimmedKeeps
  <2>3. g = h
    <3>1. ads[g].left \in Nat  BY DEF RegistryInv, RegistryType, Ads
    <3>2. SUFFICES ASSUME g # h PROVE FALSE  OBVIOUS
    <3>3. ads'[g] = ads[g]  BY <2>2, <3>2 DEF RegistryInv, RegistryType
    <3> QED  BY <1>2, <2>1, <3>1, <3>3 DEF Enters
  <2>4. ads'[g] = ad  BY <2>2, <2>3 DEF RegistryInv, RegistryType
  <2>5. ad.sequence > floor[g] /\ ad.sequence \in Nat
    BY <2>3 DEF Ingest, SequenceFloor, Ads
  <2>6. newest[g] <= floor[g] /\ newest[g] \in Int /\ floor[g] \in Int
    BY DEF RegistryInv, FloorCovers, RegistryType
  <2> QED  BY <2>4, <2>5, <2>6
<1> QED  BY <1>2 DEF RisesNow

\* Refreshing and the passage of time let nothing in.
LEMMA OthersRise ==
    ASSUME RegistryInv,
           \/ ads' = Refreshed
           \/ \E t \in Nat : GatewaysAge(t)
    PROVE  RisesNow
<1>1. ASSUME NEW g \in Gateways PROVE ~Enters(g)
  <2>0. ads[g] \in Ads  BY DEF RegistryInv, RegistryType
  <2>1. ads[g].left \in Nat  BY <2>0 DEF Ads
  <2>2. CASE ads' = Refreshed
    <3>1. ads'[g] = NoAd \/ ads'[g] = ads[g]  BY <2>2 DEF Refreshed
    <3> QED  BY <2>1, <3>1 DEF Enters
  <2>3. ASSUME NEW t \in Nat, GatewaysAge(t) PROVE ~Enters(g)
    <3>1. CASE ads[g] = NoAd  BY <2>3, <3>1 DEF GatewaysAge, Enters
    <3>2. CASE ads[g] # NoAd
      <4>1. ads'[g] = Older(ads[g], t)  BY <2>3, <3>2 DEF GatewaysAge
      <4>2. /\ ads'[g].sequence = ads[g].sequence
            /\ ads'[g].left = Less(ads[g].left, t)
        BY <2>0, <4>1 DEF Older, Ads
      <4>3. Less(ads[g].left, t) \in Nat /\ Less(ads[g].left, t) <= ads[g].left
        BY <2>1, LessIsLess
      <4> QED  BY <2>1, <3>2, <4>2, <4>3 DEF Enters
    <3> QED  BY <3>1, <3>2
  <2> QED  BY <2>2, <2>3
<1> QED  BY <1>1 DEF RisesNow

LEMMA NextRises == ASSUME IInv, [Next]_vars PROVE RisesNow \/ UNCHANGED gatewayVars
<1>0. RegistryInv  BY DEF IInv
<1>1. ASSUME NEW c \in Senders, SendStep(c) PROVE UNCHANGED gatewayVars
  BY <1>1 DEF SendStep, StartSend, NoMeshRoute, Dismiss, PassOver, Transmit, SelectsMesh,
     Selecting, Refused, Answered
<1>2. ASSUME NEW c \in Probers, ProbeStep(c) PROVE UNCHANGED gatewayVars
  BY <1>2 DEF ProbeStep, StartProbe, ProbeNothing, ProbeRoute, ProbeAgain, ProbeGivesUp,
     ProbeSelects, Selecting, ProbeSucceeds, ProbeFails
<1>3. ASSUME NEW c, Discover(c) \/ StoreRoute(c)
      PROVE  ads' = Refreshed \/ UNCHANGED gatewayVars
  BY <1>3 DEF Discover, StoreRoute, ListsGateways, gatewayVars
<1>4. ASSUME NEW m \in arrived, IngestAcknowledgment(m) PROVE UNCHANGED gatewayVars
  BY <1>4 DEF IngestAcknowledgment
<1>5. ASSUME NEW g \in Gateways, NEW s \in 1..MaxSequence, NEW said \in {"secret", "none"},
             NEW sig \in BOOLEAN, NEW l \in Lifetimes,
             Advertised(g, [sequence |-> s, auth |-> said, signed |-> sig, left |-> l])
      PROVE  RisesNow
  BY <1>0, <1>5, AdvertisementIsTyped, IngestRises DEF Advertised
<1>6. ASSUME NEW t \in TimeSteps, Time(t) PROVE RisesNow
  BY <1>0, <1>6, DeliveryAssumption, OthersRise DEF Time
<1>7. CASE UNCHANGED vars  BY <1>7 DEF vars, gatewayVars
<1> QED  BY <1>0, <1>1, <1>2, <1>3, <1>4, <1>5, <1>6, <1>7, OthersRise DEF Next

\* What enters the registry is newer than everything listed before it for its
\* gateway, also when that has expired or was trimmed (ingest's floor).
THEOREM SequenceNumbersRise == Spec => SequencesRise
<1>1. IInv /\ [Next]_vars => [RisesNow]_gatewayVars  BY NextRises
<1>2. Spec => [][RisesNow]_gatewayVars  BY <1>1, Invariance, PTL DEF Spec
<1> QED  BY <1>2 DEF SequencesRise, RisesNow

-----------------------------------------------------------------------------
(* Backoffs *)

RestNow == \A c \in Callers, r \in RouteIds :
              BeginsToUse(c, r) => resting[r] = 0 \/ r \in overtaken

\* A route that can be chosen has no cooldown left in the table it is chosen from.
LEMMA ChosenRests ==
    ASSUME IInv, NEW c \in Callers, NEW r \in Choices(Replaced(c), call[c].to)
    PROVE  r \in RouteIds /\ (resting[r] = 0 \/ r \in overtaken)
<1>1. r \in RouteIds  BY CallerKnows
<1>2. Replaced(c)[r].cooldown = 0  BY DEF Choices, Preferred, Candidates
<1>3. Fit(r, Replaced(c)[r], backed, resting, overtaken)
  BY <1>1, ReplacedFits DEF IInv, FitAll
<1>4. resting[r] \in Nat  BY <1>1 DEF IInv, TableInv
<1> QED  BY <1>1, <1>2, <1>3, <1>4 DEF Fit

LEMMA MoverRests ==
    ASSUME NEW c \in Callers, Moves(c), call'[c].via = {}
    PROVE  RestNow
<1>1. ASSUME NEW b \in Callers, NEW r \in RouteIds, BeginsToUse(b, r) PROVE FALSE
  <2>1. CASE b = c  BY <1>1, <2>1 DEF BeginsToUse
  <2>2. CASE b # c
    <3>1. call'[b] = call[b]  BY <2>2 DEF Moves
    <3> QED  BY <1>1, <3>1 DEF BeginsToUse
  <2> QED  BY <2>1, <2>2
<1> QED  BY <1>1 DEF RestNow

LEMMA UserRests ==
    ASSUME IInv, NEW c \in Callers, Moves(c), NEW r \in Choices(Replaced(c), call[c].to),
           call'[c].via = {r}
    PROVE  RestNow
<1>1. ASSUME NEW b \in Callers, NEW s \in RouteIds, BeginsToUse(b, s)
      PROVE  resting[s] = 0 \/ s \in overtaken
  <2>1. CASE b = c
    <3>1. s = r  BY <1>1, <2>1 DEF BeginsToUse
    <3> QED  BY <3>1, ChosenRests
  <2>2. CASE b # c
    <3>1. call'[b] = call[b]  BY <2>2 DEF Moves
    <3> QED  BY <1>1, <3>1 DEF BeginsToUse
  <2> QED  BY <2>1, <2>2
<1> QED  BY <1>1 DEF RestNow

LEMMA SilentRests == ASSUME UNCHANGED call PROVE RestNow
  BY DEF RestNow, BeginsToUse

LEMMA SendStepRests == ASSUME IInv, NEW c \in Callers, SendStep(c) PROVE RestNow
<1>0. CallInv  BY DEF IInv
<1>1. ASSUME NEW d \in Nodes, StartSend(c, d) PROVE RestNow
  <2>1. sent[c] + 1 \in Nat  BY <1>0 DEF CallInv
  <2> QED  BY <1>0, <1>1, <2>1, CallBegins, MoverRests DEF StartSend
<1>2. CASE NoMeshRoute(c, Replaced(c))
  BY <1>0, <1>2, CallEnds, MoverRests DEF NoMeshRoute, Ends
<1>3. ASSUME NEW r \in Choices(Replaced(c), call[c].to),
             Dismiss(c, Replaced(c), r) \/ PassOver(c, Replaced(c), r)
      PROVE  RestNow
  BY <1>0, <1>3, NextPassMoves, MoverRests DEF Dismiss, PassOver
<1>4. ASSUME NEW r \in Choices(Replaced(c), call[c].to), Transmit(c, Replaced(c), r)
      PROVE  RestNow
  <2>1. r \in RouteIds  BY ChosenRests
  <2>2. call' = [call EXCEPT ![c].tried = @ \cup {r}, ![c].via = {r}]  BY <1>4 DEF Transmit
  <2>3. Moves(c)  BY <1>0, <2>1, <2>2, CallTransmits
  <2>4. call'[c].via = {r}
    <3>1. call[c] \in Doing /\ call \in [Callers -> Doing]  BY <1>0 DEF CallInv
    <3>2. call'[c] = [call[c] EXCEPT !.tried = @ \cup {r}, !.via = {r}]  BY <2>2, <3>1
    <3> QED  BY <3>1, <3>2 DEF Doing
  <2> QED  BY <2>3, <2>4, UserRests
<1>5. ASSUME NEW r \in call[c].via, NEW got, NEW answer,
             Refused(c, r, got) \/ Answered(c, r, answer, got)
      PROVE  RestNow
  <2>1. CASE Refused(c, r, got)  BY <1>0, <2>1, NextPassMoves, MoverRests DEF Refused
  <2>2. CASE Answered(c, r, answer, got)
    BY <1>0, <2>2, CallEnds, MoverRests DEF Answered, Ends
  <2> QED  BY <1>5, <2>1, <2>2
<1> QED  BY <1>1, <1>2, <1>3, <1>4, <1>5 DEF SendStep

LEMMA ProbeStepRests == ASSUME IInv, NEW c \in Callers, ProbeStep(c) PROVE RestNow
<1>0. CallInv  BY DEF IInv
<1>1. ASSUME NEW d \in Nodes, StartProbe(c, d) PROVE RestNow
  BY <1>0, <1>1, CallBegins, MoverRests DEF StartProbe
<1>2. CASE ProbeNothing(c, Replaced(c))
  BY <1>0, <1>2, CallEnds, MoverRests DEF ProbeNothing, ProbeEnds
<1>3. ASSUME NEW r \in Choices(Replaced(c), call[c].to), ProbeRoute(c, Replaced(c), r)
      PROVE  RestNow
  <2>1. r \in RouteIds  BY ChosenRests
  <2>2. call' = [call EXCEPT ![c].op = "probe", ![c].tried = @ \cup {r}, ![c].via = {r}]
    BY <1>3 DEF ProbeRoute
  <2>3. Moves(c)  BY <1>0, <2>1, <2>2, CallTries
  <2>4. call'[c].via = {r}
    <3>1. call[c] \in Doing /\ call \in [Callers -> Doing]  BY <1>0 DEF CallInv
    <3>2. call'[c] = [call[c] EXCEPT !.op = "probe", !.tried = @ \cup {r}, !.via = {r}]
      BY <2>2, <3>1
    <3> QED  BY <3>1, <3>2 DEF Doing
  <2> QED  BY <2>3, <2>4, UserRests
<1>4. ASSUME NEW r, ProbeAgain(c, Replaced(c), r) PROVE RestNow
  <2>1. call[c].via = {} /\ call' = [call EXCEPT ![c].op = "reprobe"]
    BY <1>4 DEF ProbeAgain, ProbeSelects, Selecting
  <2> QED  BY <1>0, <2>1, CallReprobes, MoverRests
<1>5. ASSUME NEW r, ProbeGivesUp(c, Replaced(c), r) PROVE RestNow
  BY <1>0, <1>5, CallEnds, MoverRests DEF ProbeGivesUp, ProbeEnds
<1>6. ASSUME NEW r \in call[c].via, ProbeSucceeds(c, r) \/ ProbeFails(c, r)
      PROVE  RestNow
  <2>1. CASE ProbeSucceeds(c, r)
    BY <1>0, <2>1, CallEnds, MoverRests DEF ProbeSucceeds, ProbeEnds
  <2>2. CASE ProbeFails(c, r)
    BY <1>0, <2>2, CallEnds, CallGoesOn, MoverRests DEF ProbeFails, ProbeEnds
  <2> QED  BY <1>6, <2>1, <2>2
<1> QED  BY <1>1, <1>2, <1>3, <1>4, <1>5, <1>6 DEF ProbeStep

LEMMA NextRests == ASSUME IInv, [Next]_vars PROVE RestNow
<1>1. ASSUME NEW c, Discover(c) \/ StoreRoute(c) PROVE RestNow
  BY <1>1, SilentRests DEF Discover, StoreRoute
<1>2. ASSUME NEW m, IngestAcknowledgment(m) PROVE RestNow
  BY <1>2, SilentRests DEF IngestAcknowledgment
<1>3. ASSUME NEW g, NEW ad, Advertised(g, ad) PROVE RestNow
  BY <1>3, SilentRests DEF Advertised
<1>4. ASSUME NEW t, Time(t) PROVE RestNow
  BY <1>4, SilentRests DEF Time
<1>5. CASE UNCHANGED vars  BY <1>5, SilentRests DEF vars
<1> QED
  BY <1>1, <1>2, <1>3, <1>4, <1>5, SendStepRests, ProbeStepRests DEF Next, Callers

\* Whatever the threads, failures and rediscoveries, nobody uses a route before its
\* backoff is over, except when the failure was reported while another thread had
\* copied the route and not yet put its own in its place (route.py _store,
\* report_route_failure).
THEOREM FailedRoutesAlwaysRest == Spec => FailedRoutesRest
<1>1. IInv /\ [Next]_vars => [RestNow]_vars  BY NextRests
<1>2. Spec => [][RestNow]_vars  BY <1>1, Invariance, PTL DEF Spec
<1> QED  BY <1>2 DEF FailedRoutesRest, RestNow

-----------------------------------------------------------------------------
(* What a sender is told *)

Told == DOMAIN outcome = Callers /\ DeliveredArrived

LEMMA ToldInit == Init => Told
  BY DEF Init, Told, DeliveredArrived, NoOutcome

\* A conclusion that says so is drawn only from what the recipient says it got.
LEMMA ConcludedArrived ==
    ASSUME NEW c, NEW answer \in Answers, NEW got, Honest(c, answer, got),
           Concluded(c, answer) = "DELIVERED"
    PROVE  CurrentMessage(c) \in got
<1>1. \/ \E a \in answer.ack : Acknowledges(c, a, "destination")
      \/ answer.claimed
  BY DEF Concluded
<1> QED  BY <1>1 DEF Honest, Acknowledges

LEMMA EndsTell ==
    ASSUME Told, NEW c \in Callers, NEW state, Ends(c, state), arrived \subseteq arrived',
           state = "DELIVERED" => CurrentMessage(c) \in arrived'
    PROVE  Told'
<1> DEFINE new == [state |-> state, number |-> call[c].number, to |-> call[c].to]
<1>1. outcome' = [outcome EXCEPT ![c] = new]  BY DEF Ends
<1>2. DOMAIN outcome' = Callers  BY <1>1 DEF Told
<1>3. ASSUME NEW d \in Callers, outcome'[d].state = "DELIVERED"
      PROVE  [from |-> d, number |-> outcome'[d].number, to |-> outcome'[d].to] \in arrived'
  <2>1. CASE d = c
    <3>1. outcome'[d] = new  BY <1>1, <2>1 DEF Told
    <3> QED  BY <1>3, <2>1, <3>1 DEF CurrentMessage
  <2>2. CASE d # c
    <3>1. outcome'[d] = outcome[d]  BY <1>1, <2>2 DEF Told
    <3> QED  BY <1>3, <3>1 DEF Told, DeliveredArrived
  <2> QED  BY <2>1, <2>2
<1> QED  BY <1>2, <1>3 DEF Told, DeliveredArrived

LEMMA SilenceTells ==
    ASSUME Told, UNCHANGED outcome, arrived \subseteq arrived'
    PROVE  Told'
  BY DEF Told, DeliveredArrived

LEMMA NothingTold ==
    ASSUME Told, NEW c \in Callers, outcome' = [outcome EXCEPT ![c] = NoOutcome],
           UNCHANGED arrived
    PROVE  Told'
<1>1. NoOutcome.state # "DELIVERED"  BY DEF NoOutcome
<1>2. DOMAIN outcome' = Callers /\ outcome'[c] = NoOutcome
      /\ \A d \in Callers \ {c} : outcome'[d] = outcome[d]
  BY DEF Told
<1> QED  BY <1>1, <1>2 DEF Told, DeliveredArrived

LEMMA ToldStep == Told /\ [Next]_vars => Told'
<1> SUFFICES ASSUME Told, [Next]_vars PROVE Told'  OBVIOUS
<1>0. ASSUME NEW c \in Callers, NextPass(c), arrived \subseteq arrived' PROVE Told'
  BY <1>0, EndsTell, SilenceTells DEF NextPass
<1>1. ASSUME NEW c \in Callers, SendStep(c) PROVE Told'
  <2>1. CASE \E d \in Nodes : StartSend(c, d)
    BY <2>1, NothingTold DEF StartSend
  <2>2. ASSUME NEW table, NoMeshRoute(c, table) PROVE Told'
    BY <2>2, EndsTell DEF NoMeshRoute, Selecting
  <2>3. ASSUME NEW table, NEW r, Dismiss(c, table, r) \/ PassOver(c, table, r) PROVE Told'
    BY <1>0, <2>3 DEF Dismiss, PassOver, SelectsMesh, Selecting
  <2>4. ASSUME NEW table, NEW r, Transmit(c, table, r) PROVE Told'
    BY <2>4, SilenceTells DEF Transmit, SelectsMesh, Selecting
  <2>5. ASSUME NEW r, NEW got \in {arrived, arrived \cup {CurrentMessage(c)}},
               Refused(c, r, got)
        PROVE  Told'
    BY <1>0, <2>5 DEF Refused
  <2>6. ASSUME NEW r, NEW got \in {arrived, arrived \cup {CurrentMessage(c)}},
               NEW answer \in Answers, Answered(c, r, answer, got)
        PROVE  Told'
    BY <2>6, EndsTell, ConcludedArrived DEF Answered
  <2> QED  BY <1>1, <2>1, <2>2, <2>3, <2>4, <2>5, <2>6 DEF SendStep
<1>2. ASSUME NEW c \in Callers, ProbeStep(c) PROVE Told'
  <2>1. UNCHANGED <<outcome, arrived>>
    BY <1>2 DEF ProbeStep, StartProbe, ProbeNothing, ProbeRoute, ProbeAgain, ProbeGivesUp,
       ProbeSelects, Selecting, ProbeSucceeds, ProbeFails
  <2> QED  BY <2>1, SilenceTells
<1>3. ASSUME NEW m \in arrived, IngestAcknowledgment(m) PROVE Told'
  BY <1>3, SilenceTells DEF IngestAcknowledgment
<1>4. ASSUME NEW g, NEW ad, Advertised(g, ad) PROVE Told'
  BY <1>4, SilenceTells DEF Advertised
<1>5. ASSUME NEW t, Time(t) PROVE Told'
  BY <1>5, SilenceTells DEF Time
<1>6. ASSUME NEW c, Discover(c) \/ StoreRoute(c) PROVE Told'
  BY <1>6, SilenceTells DEF Discover, StoreRoute
<1>7. CASE UNCHANGED vars
  BY <1>7, SilenceTells DEF vars
<1> QED  BY <1>1, <1>2, <1>3, <1>4, <1>5, <1>6, <1>7 DEF Next, Callers

\* A message is reported DELIVERED only when its recipient has it: not when a queue
\* accepted it, a relay forwarded it or another message was acknowledged (delivery.py).
THEOREM DeliveredMeansArrived == Spec => []DeliveredArrived
<1>1. Told => DeliveredArrived  BY DEF Told
<1> QED  BY <1>1, ToldInit, ToldStep, PTL DEF Spec

-----------------------------------------------------------------------------
(* MeshJoin: where a node is and what it says is not enough for the         *)
(* induction; what a beacon carried when it was heard, and where a thread   *)
(* means to go since it chose, must lead the same way.                      *)

Urls == Ranks \union {0}
Jobs == [pc : {"idle", "begun", "join"}, target : Urls]

AtType     == at \in [Ranks -> Urls] /\ \A n \in Ranks : Home(n) \in StartedOn(n)
SaysType   == says \in [Ranks -> Ranks] /\ \A n \in Ranks : says[n] \in StartedOn(n)
OffersType == /\ offers \in [Ranks -> [Ranks -> Urls]]
              /\ \A n, m \in Ranks : m < n => offers[n][m] \in StartedOn(m) \union {Silent}
JobType    == /\ job \in [Ranks -> [Ranks -> Jobs]]
              /\ \A n, j \in Ranks : job[n][j].pc = "join" => job[n][j].target \in StartedOn(n)

\* The inductive invariant.
LeadInv == url \in Settings /\ AtType /\ SaysType /\ OffersType /\ JobType

\* Every set of naturals that is not empty has a least element.
LEMMA LeastExists ==
    ASSUME NEW T \in SUBSET Nat, T # {}
    PROVE  \E x \in T : \A y \in T : x <= y
<1> DEFINE R == OpToRel(<, Nat)
<1>1. IsWellFoundedOn(R, Nat)
  BY NatLessThanWellFounded
<1>2. \E x \in T : \A y \in T : ~ (<<y, x>> \in R)
  <2> HIDE DEF R
  <2> QED BY <1>1, WFMin
<1>3. \A x, y \in T : <<y, x>> \notin R => x <= y
  BY DEF OpToRel
<1> QED
  BY <1>2, <1>3

\* The leader is the node itself or a peer before it.
LEMMA LeaderIsBefore ==
    ASSUME NEW n \in Ranks
    PROVE  Leader(n) \in PeersSeen(n) \union {n} /\ Leader(n) <= n
<1> DEFINE T == PeersSeen(n) \union {n}
<1>1. T \in SUBSET Nat /\ n \in T
  BY MeshAssumption DEF PeersSeen
<1>2. \E x \in T : \A y \in T : x <= y
  BY <1>1, LeastExists
<1>3. Leader(n) = CHOOSE x \in T : \A y \in T : x <= y
  BY DEF Leader
<1>4. Leader(n) \in T /\ \A y \in T : Leader(n) <= y
  <2> HIDE DEF T
  <2> QED BY <1>2, <1>3
<1> QED
  BY <1>1, <1>4

\* What a node and those before it were started on are Redis instances, and more of
\* them further back.
LEMMA StartedOnGrows ==
    ASSUME url \in Settings
    PROVE  /\ \A n \in Ranks : StartedOn(n) \subseteq Ranks /\ Public(n, url[n]) \in StartedOn(n)
           /\ \A n, m \in Ranks : m <= n => StartedOn(m) \subseteq StartedOn(n)
<1>1. /\ Ranks \subseteq Nat \ {0} /\ url \in [Ranks -> Ranks \union {0}]
  BY MeshAssumption
<1>2. \A n \in Ranks : n \in {k \in Ranks : k <= n}  BY <1>1
<1>3. \A n \in Ranks : Public(n, url[n]) \in Ranks  BY <1>1 DEF Public, Local
<1>4. ASSUME NEW n \in Ranks, NEW m \in Ranks, m <= n
      PROVE  {k \in Ranks : k <= m} \subseteq {k \in Ranks : k <= n}
  <2>1. \A k \in Ranks : k \in Nat  BY <1>1
  <2>2. \A k \in Ranks : k <= m => k <= n  BY <1>4, <2>1
  <2> QED  BY <2>2
<1> QED  BY <1>2, <1>3, <1>4 DEF StartedOn

\* Where a node chooses to go is such a Redis.
LEMMA TargetIsBefore ==
    ASSUME LeadInv, NEW n \in Ranks
    PROVE  Target(n) \in Ranks /\ Target(n) \in StartedOn(n)
<1>0. StartedOn(n) \subseteq Ranks  BY StartedOnGrows DEF LeadInv
<1>1. Leader(n) \in PeersSeen(n) \union {n} /\ Leader(n) <= n
  BY LeaderIsBefore
<1>2. CASE Leader(n) = n
  BY <1>0, <1>2 DEF Target, LeadInv, AtType
<1>3. CASE Leader(n) # n
  <2>1. Leader(n) \in Ranks /\ offers[n][Leader(n)] # Silent
    BY <1>1, <1>3 DEF PeersSeen
  <2>2. Leader(n) < n
    <3>1. Leader(n) \in Nat /\ n \in Nat  BY <2>1, MeshAssumption
    <3> QED  BY <1>1, <1>3, <3>1
  <2>3. offers[n][Leader(n)] \in StartedOn(Leader(n))
    BY <2>1, <2>2 DEF LeadInv, OffersType
  <2>4. StartedOn(Leader(n)) \subseteq StartedOn(n)
    BY <1>1, <2>1, StartedOnGrows DEF LeadInv
  <2> QED
    BY <1>0, <1>3, <2>3, <2>4 DEF Target
<1> QED
  BY <1>2, <1>3

LEMMA LeadInit == JoinInit => LeadInv
<1> SUFFICES ASSUME JoinInit PROVE LeadInv
  OBVIOUS
<1>1. url \in Settings /\ url \in [Ranks -> Urls] /\ at = url
  BY MeshAssumption DEF JoinInit, Urls
<1>2. \A n \in Ranks : StartedOn(n) \subseteq Ranks /\ Public(n, url[n]) \in StartedOn(n)
  BY <1>1, StartedOnGrows
<1>3. AtType
  BY <1>1, <1>2 DEF AtType, Home
<1>4. SaysType
  BY <1>2 DEF JoinInit, SaysType
<1>5. OffersType
  BY DEF JoinInit, OffersType, Urls, Silent
<1>6. JobType
  BY DEF JoinInit, JobType, Jobs, NotJoining, Urls
<1> QED
  BY <1>1, <1>3, <1>4, <1>5, <1>6 DEF LeadInv

\* A step that changes neither where nodes are nor what they say.
Stays == UNCHANGED <<url, at, says>>

LEMMA StaysLead ==
    ASSUME LeadInv, Stays
    PROVE  url' \in Settings /\ AtType' /\ SaysType'
  BY DEF LeadInv, Stays, AtType, SaysType, Home, StartedOn

\* A node that has moved, or started again, is on such a Redis and says so.
LEMMA MovedLeads ==
    ASSUME LeadInv, NEW n \in Ranks, NEW place \in Urls, NEW offer \in Ranks,
           Public(n, place) \in StartedOn(n), offer \in StartedOn(n), url' = url,
           at' = [at EXCEPT ![n] = place], says' = [says EXCEPT ![n] = offer]
    PROVE  url' \in Settings /\ AtType' /\ SaysType'
<1>1. \A m \in Ranks : StartedOn(m)' = StartedOn(m)  BY DEF StartedOn
<1>2. at' \in [Ranks -> Urls] /\ at'[n] = place
      /\ \A m \in Ranks : m # n => at'[m] = at[m]
  BY DEF LeadInv, AtType
<1>3. \A m \in Ranks : Home(m)' \in StartedOn(m)
  BY <1>2 DEF LeadInv, AtType, Home
<1>4. SaysType'  BY <1>1 DEF LeadInv, SaysType
<1> QED  BY <1>1, <1>2, <1>3, <1>4 DEF LeadInv, AtType

LEMMA JobsLead ==
    ASSUME LeadInv, url' = url, NEW n \in Ranks, NEW j \in Ranks, NEW new \in Jobs,
           job' = [job EXCEPT ![n][j] = new],
           new.pc = "join" => new.target \in StartedOn(n)
    PROVE  JobType'
<1>1. \A m \in Ranks : StartedOn(m)' = StartedOn(m)  BY DEF StartedOn
<1> QED  BY <1>1 DEF LeadInv, JobType

LEMMA LeadStep == LeadInv /\ [JoinNext]_joinVars => LeadInv'
<1> SUFFICES ASSUME LeadInv, [JoinNext]_joinVars PROVE LeadInv'
  OBVIOUS
<1>0. /\ \A n \in Ranks : n \in Nat \ {0}
      /\ \A n \in Ranks : StartedOn(n) \subseteq Ranks
                          /\ Public(n, url[n]) \in StartedOn(n)
      /\ NotJoining \in Jobs /\ NotJoining.pc # "join"
      /\ Begun \in Jobs /\ Begun.pc # "join"
  BY StartedOnGrows, MeshAssumption DEF LeadInv, NotJoining, Begun, Jobs, Urls
<1>u. url' = url => \A n \in Ranks : StartedOn(n)' = StartedOn(n)  BY DEF StartedOn
<1>1. ASSUME NEW n \in Ranks, Beacon(n) PROVE LeadInv'
  <2>1. OffersType'
    <3>1. \A m \in Ranks : /\ Offer(n, m) \in Urls
                           /\ n < m => Offer(n, m) \in StartedOn(n)
      BY <1>0 DEF Offer, LeadInv, SaysType, Urls, Silent
    <3>2. offers' = [m \in Ranks |-> [offers[m] EXCEPT ![n] = Offer(n, m)]] /\ url' = url
      BY <1>1 DEF Beacon
    <3>3. offers' \in [Ranks -> [Ranks -> Urls]]
      BY <3>1, <3>2 DEF LeadInv, OffersType
    <3>4. ASSUME NEW m \in Ranks, NEW k \in Ranks, k < m
          PROVE  offers'[m][k] \in StartedOn(k) \union {Silent}
      BY <3>1, <3>2, <3>4 DEF LeadInv, OffersType
    <3> QED
      BY <1>u, <3>2, <3>3, <3>4 DEF OffersType
  <2>2. JobType'
    <3>1. job' = [m \in Ranks |-> [job[m] EXCEPT ![n] =
                      IF m = n \/ n \in heard[m] THEN @ ELSE Begun]] /\ url' = url
      BY <1>1 DEF Beacon
    <3>2. \A m, k \in Ranks : job'[m][k] \in {job[m][k], Begun}
      BY <3>1 DEF LeadInv, JobType
    <3>3. job' \in [Ranks -> [Ranks -> Jobs]]
      BY <1>0, <3>1 DEF LeadInv, JobType
    <3> QED
      BY <1>0, <1>u, <3>1, <3>2, <3>3 DEF LeadInv, JobType
  <2> QED
    BY <1>1, <2>1, <2>2, StaysLead DEF Beacon, Stays, LeadInv
<1>2. ASSUME NEW n \in Ranks, NEW j \in Ranks, FireNothing(n, j) PROVE LeadInv'
  <2>1. JobType'
    BY <1>0, <1>2, JobsLead DEF FireNothing
  <2> QED
    BY <1>2, <1>u, <2>1, StaysLead DEF FireNothing, Stays, LeadInv, OffersType
<1>3. ASSUME NEW n \in Ranks, NEW j \in Ranks, Already(n, j) PROVE LeadInv'
  <2>1. Target(n) \in Ranks /\ Target(n) \in StartedOn(n)
    BY TargetIsBefore
  <2>2. url' = url /\ at' = at /\ offers' = offers /\ says' = [says EXCEPT ![n] = Target(n)]
        /\ job' = [job EXCEPT ![n][j] = NotJoining]
    BY <1>3 DEF Already
  <2>3. SaysType'
    BY <1>u, <2>1, <2>2 DEF LeadInv, SaysType
  <2>4. JobType'
    BY <1>0, <2>2, JobsLead
  <2>5. AtType' /\ OffersType'
    BY <1>u, <2>2 DEF LeadInv, AtType, OffersType, Home
  <2> QED
    BY <2>2, <2>3, <2>4, <2>5 DEF LeadInv
<1>4. ASSUME NEW n \in Ranks, NEW j \in Ranks, Decide(n, j) PROVE LeadInv'
  <2>1. JobType'
    <3> DEFINE new == [pc |-> "join", target |-> Target(n)]
    <3>1. new \in Jobs /\ new.target \in StartedOn(n)
      BY TargetIsBefore DEF Jobs, Urls
    <3>2. job' = [job EXCEPT ![n][j] = new] /\ url' = url
      BY <1>4 DEF Decide
    <3> HIDE DEF new
    <3> QED
      BY <3>1, <3>2, JobsLead
  <2> QED
    BY <1>4, <1>u, <2>1, StaysLead DEF Decide, Stays, LeadInv, OffersType
<1>5. ASSUME NEW n \in Ranks, NEW j \in Ranks, Join(n, j) PROVE LeadInv'
  <2> DEFINE target == job[n][j].target
  <2>1. target \in StartedOn(n) /\ target \in Ranks
    BY <1>0, <1>5 DEF Join, LeadInv, JobType
  <2>2. JobType'
    BY <1>0, <1>5, JobsLead DEF Join
  <2>3. \/ at' = [at EXCEPT ![n] = target] /\ says' = [says EXCEPT ![n] = target]
        \/ UNCHANGED <<at, says>>
    BY <1>5 DEF Join, Reconnect
  <2>4. url' = url /\ offers' = offers
    BY <1>5 DEF Join
  <2> HIDE DEF target
  <2>5. Public(n, target) = target /\ target \in Urls
    BY <1>0, <2>1 DEF Public, Local, Urls
  <2>6. url' \in Settings /\ AtType' /\ SaysType'
    BY <2>1, <2>3, <2>4, <2>5, MovedLeads, StaysLead DEF Stays
  <2> QED
    BY <1>u, <2>2, <2>4, <2>6 DEF LeadInv, OffersType
<1>6. ASSUME NEW n \in Ranks, Restart(n) PROVE LeadInv'
  <2>1. url' = url /\ at' = [at EXCEPT ![n] = url[n]]
        /\ says' = [says EXCEPT ![n] = Public(n, url[n])]
        /\ offers' = [offers EXCEPT ![n] = [m \in Ranks |-> Silent]]
        /\ job' = [job EXCEPT ![n] = [m \in Ranks |-> NotJoining]]
    BY <1>6 DEF Restart
  <2>2. url[n] \in Urls
    BY MeshAssumption DEF LeadInv, Urls
  <2>3. url' \in Settings /\ AtType' /\ SaysType'
    BY <1>0, <2>1, <2>2, MovedLeads
  <2>4. OffersType'
    BY <1>u, <2>1 DEF LeadInv, OffersType, Silent, Urls
  <2>5. JobType'
    BY <1>0, <1>u, <2>1 DEF LeadInv, JobType
  <2> QED
    BY <2>3, <2>4, <2>5 DEF LeadInv
<1>7. ASSUME NEW n \in Ranks, Lapse(n) PROVE LeadInv'
  <2>1. offers' = [m \in Ranks |-> [offers[m] EXCEPT ![n] = Silent]] /\ url' = url
        /\ Stays /\ job' = job
    BY <1>7 DEF Lapse, Stays
  <2>2. OffersType'
    BY <1>u, <2>1 DEF LeadInv, OffersType, Silent, Urls
  <2> QED
    BY <1>u, <2>1, <2>2, StaysLead DEF LeadInv, JobType
<1>8. ASSUME NEW n \in Ranks,
             Hook(n) \/ Heartbeat(n) \/ RedisDown(n) \/ RedisUp(n) \/ \E m \in Ranks : Forgotten(n, m)
      PROVE LeadInv'
  <2>1. UNCHANGED <<url, at, says, offers, job>>
    BY <1>8 DEF Hook, Heartbeat, RedisDown, RedisUp, Forgotten
  <2> QED
    BY <1>u, <2>1, StaysLead DEF Stays, LeadInv, OffersType, JobType
<1>9. CASE UNCHANGED joinVars
  BY <1>9, <1>u, StaysLead DEF joinVars, Stays, LeadInv, OffersType, JobType
<1> QED
  BY <1>1, <1>2, <1>3, <1>4, <1>5, <1>6, <1>7, <1>8, <1>9 DEF JoinNext, TryJoin

(* Whatever each node is pointed at, no node is ever on, or sends others to, *)
(* a Redis that only nodes behind it in the order of ids were started on     *)
(* (mesh_join.py 28-47, 75-92, 111-130).                                     *)
THEOREM MovesAlwaysLeadOneWay == JoinSpec => []MovesLeadOneWay
<1>1. LeadInv => MovesLeadOneWay
  BY DEF LeadInv, AtType, SaysType, MovesLeadOneWay
<1> QED
  BY <1>1, LeadInit, LeadStep, PTL DEF JoinSpec

=============================================================================
