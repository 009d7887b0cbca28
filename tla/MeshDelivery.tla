---------------------------- MODULE MeshDelivery ----------------------------
(***************************************************************************)
(* comms/routing/service.py and connection.py over the route table: many   *)
(* callers (dashboard requests) deliver messages to mesh nodes through one *)
(* routing service, probe them, and feed acknowledgments back.             *)
(*                                                                         *)
(* A caller's step ends where another caller, a new advertisement or time  *)
(* can make a difference: discovering routes stores them one by one, and   *)
(* each _store copies from the old route before it puts the new one in its *)
(* place, without a lock; the last one, the choice and every check up to   *)
(* the call of mesh_send are one step; what the code makes of the answer   *)
(* is another.  mesh_send is given by the caller of the service; here it   *)
(* may fail, accept, and claim what the network and the recipient honestly *)
(* told it, late or not.                                                   *)
(***************************************************************************)
EXTENDS RouteTable

CONSTANTS
    Senders,       \* threads that deliver messages
    Probers,       \* threads that probe destinations; a thread may do both
    MaxRetries,    \* route_max_retries (2)
    LossAfter,     \* failures in a row that make a lost peer be passed over (3)
    ConfirmAfter,  \* failures in a row that confirm it unreachable (5)
    MaxMessages,   \* bound: messages each caller sends
    MaxOverlapping,   \* bound: how many of them are sent while others call
    MaxFailures,   \* bound: no delivery starts once a route failed so often
    TimeSteps      \* how far time advances at once

ASSUME DeliveryAssumption ==
    /\ MaxRetries \in Nat
    /\ LossAfter \in Nat \ {0}
    /\ ConfirmAfter \in Nat \ {0}
    /\ MaxMessages \in Nat \ {0}
    /\ MaxOverlapping \in Nat
    /\ MaxFailures \in Nat \ {0}
    /\ TimeSteps \subseteq Nat \ {0}

Callers == Senders \cup Probers

VARIABLES
    health,    \* PeerHealthTracker: failures in a row, loss, confirmed
    call,      \* what each caller is in the middle of
    finding,   \* how far each caller's discover_routes has come
    sent,      \* messages each caller has made: their ids are never reused
    arrived,   \* history: messages their recipient has got
    outcome    \* the outcome each caller was given for its last message

vars == <<ads, floor, newest, backed, routes, lastRoute, hold, resting, overtaken,
          health, call, finding, sent, arrived, outcome>>

Peers == Nodes \cup Gateways
Health == [failures : Nat, lost : Nat, confirmed : BOOLEAN]
Well == [failures |-> 0, lost |-> 0, confirmed |-> FALSE]

Message == [from : Callers, number : 1..MaxMessages, to : Nodes]
States == {"NONE", "ACCEPTED", "FORWARDED", "DELIVERED", "FAILED"}

\* op: "send" is _deliver_with_recovery, "probe" is ConnectionManager.connect and
\* "reprobe" its second choice within one attempt.
\* left counts the passes of the loop that remain; tried is `selected`
\* (`attempted` in connect); via holds the route during the call of mesh_send.
Call == [op : {"idle", "send", "probe", "reprobe"}, to : Nodes, left : Nat,
         tried : SUBSET RouteIds, via : SUBSET RouteIds, number : 0..MaxMessages]

\* stage: which routes are being stored; storing is the new route that holds its
\* copy of the old one's failures, todo those whose turn has not come.
Finding == [stage : {"none", "own", "gateways"}, storing : SUBSET Found, todo : SUBSET Found]
NotFinding == [stage |-> "none", storing |-> {}, todo |-> {}]

SomeNode == CHOOSE d \in Nodes : TRUE
Outcome == [state : States, number : 0..MaxMessages, to : Nodes]
NoOutcome == [state |-> "NONE", number |-> 0, to |-> SomeNode]
Idle == [op |-> "idle", to |-> SomeNode, left |-> 0, tried |-> {}, via |-> {}, number |-> 0]

Init ==
    /\ GatewayInit
    /\ RouteInit
    /\ health = [p \in Peers |-> Well]
    /\ call = [c \in Callers |-> Idle]
    /\ finding = [c \in Callers |-> NotFinding]
    /\ sent = [c \in Callers |-> 0]
    /\ arrived = {}
    /\ outcome = [c \in Callers |-> NoOutcome]

-----------------------------------------------------------------------------
(* delivery.py: PeerHealth.  More than ConfirmAfter failures are not told apart. *)

PeerSucceeded(p) == [health EXCEPT ![p] = Well]
PeerFailed(p) ==
    LET n == Least(health[p].failures + 1, ConfirmAfter)
    IN  [health EXCEPT ![p] =
            IF n >= ConfirmAfter THEN [@ EXCEPT !.failures = n, !.confirmed = TRUE]
            ELSE [@ EXCEPT !.failures = n, !.lost = Backoff(n)]]

TemporarilyLost(p) == health[p].lost > 0 /\ ~health[p].confirmed

\* What the delivery loop passes over without calling mesh_send.
PassedOver(p) == TemporarilyLost(p) /\ health[p].failures >= LossAfter

-----------------------------------------------------------------------------
(* _deliver_with_recovery *)

\* Bounds: which calls overlap, and that none starts once routes failed so often.
MayStart(c, number) ==
    /\ \A r \in RouteIds : routes[r].failures < MaxFailures
    /\ \A b \in Callers \ {c} :
         call[b].op # "idle" => number <= MaxOverlapping /\ call[b].number <= MaxOverlapping

Begin(op, d, number) ==
    [op |-> op, to |-> d, left |-> MaxRetries + 1, tried |-> {}, via |-> {},
     number |-> number]

\* The envelope has an id of its own, so the sender's DedupCache lets it pass.
StartSend(c, d) ==
    /\ call[c].op = "idle"
    /\ sent[c] < MaxMessages
    /\ MayStart(c, sent[c] + 1)
    /\ sent' = [sent EXCEPT ![c] = @ + 1]
    /\ call' = [call EXCEPT ![c] = Begin("send", d, sent[c] + 1)]
    /\ outcome' = [outcome EXCEPT ![c] = NoOutcome]
    /\ UNCHANGED <<gatewayVars, routeVars, health, finding, arrived>>

Ends(c, state) ==
    /\ call' = [call EXCEPT ![c] = Idle]
    /\ outcome' = [outcome EXCEPT ![c] =
                     [state |-> state, number |-> call[c].number, to |-> call[c].to]]

\* `continue`: the next pass of the loop, or the end of it.
NextPass(c) ==
    IF call[c].left = 1 THEN Ends(c, "FAILED")
    ELSE /\ call' = [call EXCEPT ![c].left = @ - 1, ![c].via = {}]
         /\ UNCHANGED outcome

\* discover_routes, with which select_route begins.

\* The table once the route being stored has taken its place.
Replaced(c) ==
    [r \in RouteIds |-> IF \E f \in finding[c].storing : f.id = r
                         THEN (CHOOSE f \in finding[c].storing : f.id = r).route
                         ELSE routes[r]]

\* The caller goes on to store one of these routes, or to choose.
GoesOn(c, table, found) ==
    IF Live(found) = {} THEN finding' = [finding EXCEPT ![c] =
                                           [stage |-> "gateways", storing |-> {}, todo |-> {}]]
    ELSE \E f \in Live(found) :
           finding' = [finding EXCEPT ![c] = [stage |-> "gateways",
                                              storing |-> {Copied(table, f)},
                                              todo |-> found \ {f}]]

\* list_gateways, after the node's own route.
ListsGateways(c, table) ==
    /\ ads' = Refreshed
    /\ routes' = table
    /\ GoesOn(c, table, ThroughGateways(call[c].to, Refreshed))

Choosing(c) == call[c].op # "idle" /\ call[c].via = {}

Discover(c) ==
    /\ Choosing(c)
    /\ finding[c].stage = "none"
    /\ \/ \* the node is found
          /\ finding' = [finding EXCEPT ![c] = [stage |-> "own", todo |-> {},
                            storing |-> {Copied(routes, OwnRoute(call[c].to))}]]
          /\ UNCHANGED <<ads, routes>>
       \/ ListsGateways(c, routes)
    /\ UNCHANGED <<floor, newest, backed, lastRoute, hold, resting, overtaken,
                   health, call, sent, arrived, outcome>>

StoreRoute(c) ==
    /\ Choosing(c)
    /\ \/ finding[c].stage = "own" /\ ListsGateways(c, Replaced(c))
       \/ /\ finding[c].stage = "gateways"
          /\ Live(finding[c].todo) # {}
          /\ routes' = Replaced(c)
          /\ GoesOn(c, routes', finding[c].todo)
          /\ UNCHANGED ads
    /\ UNCHANGED <<floor, newest, backed, lastRoute, hold, resting, overtaken,
                   health, call, sent, arrived, outcome>>

\* The last route takes its place and select_route chooses.
Selecting(c, op) ==
    /\ call[c].op = op /\ call[c].via = {}
    /\ finding[c].stage = "gateways"
    /\ Live(finding[c].todo) = {}
    /\ finding' = [finding EXCEPT ![c] = NotFinding]
    /\ UNCHANGED <<gatewayVars, health, sent, arrived>>

\* A failure is reported.  Whoever copied the old route before puts its own in
\* the place of the one that has failed.
Overtaken(c, r) ==
    IF \E b \in Callers \ {c} : \E f \in finding[b].storing : f.id = r
      THEN overtaken \cup {r} ELSE overtaken \ {r}
Reported(c, table, r) == resting' = Rested(table, r) /\ overtaken' = Overtaken(c, r)

\* select_route finds nothing, or nothing on the mesh.
NoMeshRoute(c, table) ==
    /\ Selecting(c, "send")
    /\ \/ /\ Choices(table, call[c].to) = {}
          /\ UNCHANGED <<lastRoute, hold>>
       \/ \E r \in Choices(table, call[c].to) :
            /\ table[r].transport # "mesh"
            /\ Chosen(table, call[c].to, r)
    /\ routes' = table
    /\ Ends(c, "FAILED")
    /\ UNCHANGED <<resting, overtaken>>

\* select_route chooses r, one of the Choices, on the mesh.
SelectsMesh(c, table, r) ==
    /\ Selecting(c, "send")
    /\ table[r].transport = "mesh"
    /\ Chosen(table, call[c].to, r)

Unusable(c, r) == r \in call[c].tried \/ health[NextHop(r)].confirmed

\* A route this delivery tried before, or whose next hop is confirmed
\* unreachable, fails for it.
Dismiss(c, table, r) ==
    /\ SelectsMesh(c, table, r)
    /\ Unusable(c, r)
    /\ routes' = RouteFailed(table, r)
    /\ Reported(c, table, r)
    /\ NextPass(c)

\* A next hop that is lost for a while: nothing is said of the route.
PassOver(c, table, r) ==
    /\ SelectsMesh(c, table, r)
    /\ ~Unusable(c, r)
    /\ PassedOver(NextHop(r))
    /\ routes' = table
    /\ NextPass(c)
    /\ UNCHANGED <<resting, overtaken>>

\* The call of mesh_send.
Transmit(c, table, r) ==
    /\ SelectsMesh(c, table, r)
    /\ ~Unusable(c, r)
    /\ ~PassedOver(NextHop(r))
    /\ routes' = table
    /\ call' = [call EXCEPT ![c].tried = @ \cup {r}, ![c].via = {r}]
    /\ UNCHANGED <<outcome, resting, overtaken>>

\* What mesh_send may answer, when it accepts the message: flags, and an
\* acknowledgment that came in meanwhile, of this message or of another.  Of
\* one that does not verify nothing else matters.
MadeMessages == {m \in Message : m.number <= sent[m.from]}
GenuineAcks == [kind : {"hop", "destination"}, about : MadeMessages]
Forged == [kind |-> "forged"]
Answers == [claimed : BOOLEAN, hop : BOOLEAN,
            ack : {{}} \cup {{a} : a \in GenuineAcks \cup {Forged}}]

CurrentMessage(c) == [from |-> c, number |-> call[c].number, to |-> call[c].to]

\* Recipients claim what they got; without a secret nobody can tell a forged
\* acknowledgment, and none is taken to be.
Honest(c, answer, got) ==
    /\ answer.claimed => CurrentMessage(c) \in got
    /\ Forged \in answer.ack => MeshSecret
    /\ \A a \in answer.ack : a.kind = "destination" => a.about \in got

\* Mutant: an acknowledgment counts for whatever message it is about.
AcknowledgesMutant(c, a, kind) == a.kind = kind

Acknowledges(c, a, kind) == a.kind = kind /\ a.about = CurrentMessage(c)

\* The state the caller is told.  An acknowledgment that does not verify takes
\* the flags of the recipient with it.
Concluded(c, answer) ==
    LET says(kind) == \E a \in answer.ack : Acknowledges(c, a, kind)
        delivered  == says("destination") \/ (answer.claimed /\ Forged \notin answer.ack)
    IN  CASE delivered -> "DELIVERED"
          [] ~delivered /\ (answer.hop \/ says("hop")) -> "FORWARDED"
          [] OTHER -> "ACCEPTED"

\* mesh_send raised or refused.  The message may have got through all the same.
Refused(c, r, got) ==
    /\ call[c].op = "send"
    /\ r \in call[c].via
    /\ arrived' = got
    /\ routes' = RouteFailed(routes, r)
    /\ Reported(c, routes, r)
    /\ health' = PeerFailed(NextHop(r))
    /\ NextPass(c)
    /\ UNCHANGED <<gatewayVars, lastRoute, hold, finding, sent>>

\* mesh_send accepted, and perhaps more.
Answered(c, r, answer, got) ==
    /\ call[c].op = "send"
    /\ r \in call[c].via
    /\ Honest(c, answer, got)
    /\ arrived' = got
    /\ routes' = RouteSucceeded(routes, r)
    /\ resting' = [resting EXCEPT ![r] = 0]
    /\ health' = PeerSucceeded(NextHop(r))
    /\ Ends(c, Concluded(c, answer))
    /\ UNCHANGED <<gatewayVars, lastRoute, hold, overtaken, finding, sent>>

\* ingest_acknowledgment of a message that did arrive, at any time and again.
IngestAcknowledgment(m) ==
    /\ m \in arrived
    /\ health' = PeerSucceeded(m.to)
    /\ UNCHANGED <<gatewayVars, routeVars, call, finding, sent, arrived, outcome>>

-----------------------------------------------------------------------------
(* connection.py: connect, which resolve_and_probe calls *)

StartProbe(c, d) ==
    /\ call[c].op = "idle"
    /\ MayStart(c, 0)
    /\ call' = [call EXCEPT ![c] = Begin("probe", d, 0)]
    /\ UNCHANGED <<gatewayVars, routeVars, health, finding, sent, arrived, outcome>>

ProbeEnds(c) == call' = [call EXCEPT ![c] = Idle]

\* A choice was made for connect.
ProbeSelects(c, table, r) ==
    /\ \E op \in {"probe", "reprobe"} : Selecting(c, op)
    /\ Chosen(table, call[c].to, r)
    /\ UNCHANGED outcome

\* There is nothing to choose, or the second choice was attempted as well.
ProbeNothing(c, table) ==
    /\ \E op \in {"probe", "reprobe"} : Selecting(c, op)
    /\ Choices(table, call[c].to) = {}
    /\ routes' = table
    /\ ProbeEnds(c)
    /\ UNCHANGED <<lastRoute, hold, resting, overtaken, outcome>>
ProbeGivesUp(c, table, r) ==
    /\ ProbeSelects(c, table, r)
    /\ call[c].op = "reprobe" /\ r \in call[c].tried
    /\ routes' = table
    /\ ProbeEnds(c)
    /\ UNCHANGED <<resting, overtaken>>

\* _try_route: what it makes of mesh_send, of addresses, TCP and TLS comes down
\* to a success or a failure, which a later step takes.
ProbeRoute(c, table, r) ==
    /\ ProbeSelects(c, table, r)
    /\ r \notin call[c].tried
    /\ routes' = table
    /\ call' = [call EXCEPT ![c].op = "probe", ![c].tried = @ \cup {r}, ![c].via = {r}]
    /\ UNCHANGED <<resting, overtaken>>

\* The route chosen was attempted before: it fails for that, and select_route is
\* called once more.
ProbeAgain(c, table, r) ==
    /\ ProbeSelects(c, table, r)
    /\ call[c].op = "probe" /\ r \in call[c].tried
    /\ routes' = RouteFailed(table, r)
    /\ Reported(c, table, r)
    /\ call' = [call EXCEPT ![c].op = "reprobe"]

ProbeSucceeds(c, r) ==
    /\ call[c].op = "probe"
    /\ r \in call[c].via
    /\ routes' = RouteSucceeded(routes, r)
    /\ resting' = [resting EXCEPT ![r] = 0]
    /\ ProbeEnds(c)
    /\ UNCHANGED <<gatewayVars, lastRoute, hold, overtaken, health, finding, sent,
                   arrived, outcome>>

\* Before another attempt the expired routes are forgotten.
ProbeFails(c, r) ==
    LET failed == RouteFailed(routes, r)
        last   == call[c].left = 1
    IN  /\ call[c].op = "probe"
        /\ r \in call[c].via
        /\ routes' = IF last THEN failed ELSE Surviving(failed)
        /\ resting' = [s \in RouteIds |-> IF ~last /\ Expired(failed, s) THEN 0
                                          ELSE Rested(routes, r)[s]]
        /\ overtaken' = Overtaken(c, r)
        /\ IF last THEN ProbeEnds(c)
           ELSE call' = [call EXCEPT ![c].left = @ - 1, ![c].via = {}]
        /\ UNCHANGED <<gatewayVars, lastRoute, hold, health, finding, sent, arrived, outcome>>

-----------------------------------------------------------------------------

Advertised(g, ad) ==
    /\ ad.left \in Lifetimes
    /\ Ingest(g, ad)
    /\ UNCHANGED <<routeVars, health, call, finding, sent, arrived, outcome>>

OlderFound(found, t) == {[f EXCEPT !.route = OlderRoute(@, t)] : f \in found}
Time(t) ==
    /\ GatewaysAge(t)
    /\ RoutesAge(t)
    /\ finding' = [c \in Callers |-> [finding[c] EXCEPT !.storing = OlderFound(@, t),
                                                       !.todo = OlderFound(@, t)]]
    /\ health' = [p \in Peers |-> [health[p] EXCEPT !.lost = Less(@, t)]]
    /\ UNCHANGED <<call, sent, arrived, outcome>>

SendStep(c) ==
    \/ \E d \in Nodes : StartSend(c, d)
    \/ NoMeshRoute(c, Replaced(c))
    \/ \E r \in Choices(Replaced(c), call[c].to) :
         \/ Dismiss(c, Replaced(c), r)
         \/ PassOver(c, Replaced(c), r)
         \/ Transmit(c, Replaced(c), r)
    \/ \E r \in call[c].via, got \in {arrived, arrived \cup {CurrentMessage(c)}} :
         \/ Refused(c, r, got)
         \/ \E answer \in Answers : Answered(c, r, answer, got)

ProbeStep(c) ==
    \/ \E d \in Nodes : StartProbe(c, d)
    \/ ProbeNothing(c, Replaced(c))
    \/ \E r \in Choices(Replaced(c), call[c].to) :
         \/ ProbeRoute(c, Replaced(c), r)
         \/ ProbeAgain(c, Replaced(c), r)
         \/ ProbeGivesUp(c, Replaced(c), r)
    \/ \E r \in call[c].via : ProbeSucceeds(c, r) \/ ProbeFails(c, r)

Next ==
    \/ \E c \in Callers : Discover(c) \/ StoreRoute(c)
    \/ \E c \in Senders : SendStep(c)
    \/ \E c \in Probers : ProbeStep(c)
    \/ \E m \in arrived : IngestAcknowledgment(m)
    \/ \E g \in Gateways, sequence \in 1..MaxSequence, auth \in {"secret", "none"},
          signed \in BOOLEAN, left \in Lifetimes :
         Advertised(g, [sequence |-> sequence, auth |-> auth, signed |-> signed,
                        left |-> left])
    \/ \E t \in TimeSteps : Time(t)

Spec == Init /\ [][Next]_vars

-----------------------------------------------------------------------------
(* Properties *)

\* Every variable of the service, the table and the registry keeps its type,
\* and a caller waits for mesh_send only on a route it tried.
TypeOK ==
    /\ ads \in [Gateways -> Advertisement \cup {NoAd}]
    /\ floor \in [Gateways -> -1..MaxSequence]
    /\ newest \in [Gateways -> -1..MaxSequence]
    /\ backed \in [Gateways -> Nat]
    /\ routes \in [RouteIds -> Route]
    /\ lastRoute \in [Nodes -> SUBSET RouteIds]
    /\ hold \in [Nodes -> Nat]
    /\ resting \in [RouteIds -> Nat]
    /\ overtaken \subseteq RouteIds
    /\ health \in [Peers -> Health]
    /\ call \in [Callers -> Call]
    /\ finding \in [Callers -> Finding]
    /\ sent \in [Callers -> 0..MaxMessages]
    /\ arrived \subseteq Message
    /\ outcome \in [Callers -> Outcome]
    /\ \A c \in Callers : call[c].via \subseteq call[c].tried

\* A message is reported DELIVERED only when its recipient has it: neither the
\* transport's acceptance, nor a relay, nor the acknowledgment of an earlier
\* message counts (delivery.py: "Never report DELIVERED solely because a local
\* queue accepted or a relay forwarded").
DeliveredArrived ==
    \A c \in Callers : outcome[c].state = "DELIVERED" =>
        [from |-> c, number |-> outcome[c].number, to |-> outcome[c].to] \in arrived

BeginsToUse(c, r) == call[c].via = {} /\ call'[c].via = {r}

\* Nobody uses a route again before its backoff is over, unless somebody's
\* success on it was reported meanwhile or it was forgotten after it expired:
\* discovering it again, by this caller or another, does not clear it, unless
\* the failure was reported just while another thread was storing that route.
FailedRoutesRest ==
    [][\A c \in Callers, r \in RouteIds :
         BeginsToUse(c, r) => resting[r] = 0 \/ r \in overtaken]_vars

=============================================================================
