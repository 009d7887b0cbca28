------------------------------ MODULE MeshJoin ------------------------------
(***************************************************************************)
(* How the nodes of a LAN come to share one Redis: discovery by beacons     *)
(* (comms/discovery.py), the choice of a leader and the move to its Redis   *)
(* (comms/mesh_join.py, CommsLayer.reconnect), and the heartbeats that keep *)
(* a node listed where it is (dashboard/mesh_heartbeat.py).                 *)
(*                                                                          *)
(* A node is its rank in the order of node ids, and a Redis is the node     *)
(* whose host it runs on.  try_join_mesh runs in several threads of a node: *)
(* the loop that calls it every eight seconds, which is the thread named    *)
(* after the node itself, and one for each peer heard of for the first      *)
(* time, named after the peer, which forces the move.  AURORA_MESH_REDIS,   *)
(* which overrides the choice, is not set; beacons are authentic.           *)
(***************************************************************************)
EXTENDS Naturals, FiniteSets

CONSTANTS
    Ranks,
    Settings,   \* the urls the nodes may be started with: REDIS_URL of each
    MaxFaults   \* bound for each: restarts, outages of a Redis, silences of a node

ASSUME MeshAssumption ==
    /\ Ranks \subseteq Nat \ {0} /\ IsFiniteSet(Ranks)
    /\ Settings \subseteq [Ranks -> Ranks \union {0}]
    /\ MaxFaults \in [Settings -> Nat]

VARIABLES
    url,      \* REDIS_URL of each node, which never changes
    at,       \* comms.redis_url, with Local for the loopback url of the node's own Redis
    says,     \* MeshDiscovery.join_url, what the node's beacons offer
    hooked,   \* the nodes whose start has registered the hook and begun the loops
    heard,    \* MeshDiscovery._seen: the peers ever heard of
    offers,   \* the url each peer seen in the last 30 seconds offered, or Silent
    job,      \* the threads in try_join_mesh, and where they mean to go
    listed,   \* of each Redis, the nodes with a record younger than two minutes
    serving,  \* the nodes whose Redis answers
    faults

joinVars == <<url, at, says, hooked, heard, offers, job, listed, serving, faults>>

Local      == 0
Silent     == 0
NotJoining == [pc |-> "idle", target |-> 0]
Begun      == [pc |-> "begun", target |-> 0]

\* public_redis_url: the loopback url as the LAN sees it.
Public(n, u) == IF u = Local THEN n ELSE u

Home(n) == Public(n, at[n])

\* The nodes have started and have not heard of one another yet.
JoinInit ==
    /\ url \in Settings
    /\ at = url
    /\ says = [n \in Ranks |-> Public(n, url[n])]
    /\ hooked = Ranks
    /\ heard = [n \in Ranks |-> {}]
    /\ offers = [n \in Ranks |-> [m \in Ranks |-> Silent]]
    /\ job = [n \in Ranks |-> [m \in Ranks |-> NotJoining]]
    /\ listed = [n \in Ranks |-> {m \in Ranks : Public(m, url[m]) = n}]
    /\ serving = Ranks
    /\ faults = 0

----------------------------------------------------------------------------
(* Discovery.                                                               *)

(* What m keeps of a beacon of n: nobody listens to itself, and what a peer  *)
(* with a larger id offers is never looked at, only that it is there.        *)
Offer(n, m) == IF m = n THEN Silent ELSE IF n < m THEN says[n] ELSE n

(* A beacon is broadcast: the first one of a peer starts a thread.          *)
Beacon(n) ==
    /\ offers' = [m \in Ranks |-> [offers[m] EXCEPT ![n] = Offer(n, m)]]
    /\ heard' = [m \in Ranks |-> heard[m] \union ({n} \ {m})]
    /\ job' = [m \in Ranks |-> [job[m] EXCEPT ![n] =
                   IF m = n \/ n \in heard[m] THEN @ ELSE Begun]]
    /\ UNCHANGED <<url, at, says, hooked, listed, serving, faults>>

(* start_mesh_heartbeat: the hook is registered after discovery has started, *)
(* and the loops begin after that.                                           *)
Hook(n) ==
    /\ n \notin hooked
    /\ hooked' = hooked \union {n}
    /\ UNCHANGED <<url, at, says, heard, offers, job, listed, serving, faults>>

(* _fire of a peer that was heard before there was a hook to call.          *)
FireNothing(n, m) ==
    /\ n \notin hooked /\ job[n][m] = Begun
    /\ job' = [job EXCEPT ![n][m] = NotJoining]
    /\ UNCHANGED <<url, at, says, hooked, heard, offers, listed, serving, faults>>

----------------------------------------------------------------------------
(* try_join_mesh.                                                           *)

\* snapshot_peers
PeersSeen(n) == {m \in Ranks : offers[n][m] # Silent}

\* Mutant of Leader: the node itself is not a candidate.
LeaderMutant(n) ==
    IF PeersSeen(n) = {} THEN n
    ELSE CHOOSE m \in PeersSeen(n) : \A k \in PeersSeen(n) : m <= k

\* choose_leader_redis: the least id among the peers and the node itself.
Leader(n) == CHOOSE m \in PeersSeen(n) \union {n} : \A k \in PeersSeen(n) \union {n} : m <= k

Target(n) == IF Leader(n) = n THEN Home(n) ELSE offers[n][Leader(n)]

\* Mutant of OnSharedRedis: the node counts itself as company.
OnSharedRedisMutant(n) ==
    at[n] # Local /\ at[n] \in serving /\ Cardinality(listed[at[n]]) > 0

(* The loop does not leave a Redis that has other active nodes.             *)
OnSharedRedis(n) ==
    at[n] # Local /\ at[n] \in serving /\ Cardinality(listed[at[n]]) > 1

Calls(n, j) == n \in hooked /\ job[n][j] = (IF j = n THEN NotJoining ELSE Begun)

(* The leader's Redis is the current one: only the beacons are corrected.   *)
Already(n, j) ==
    /\ Calls(n, j)
    /\ j = n => PeersSeen(n) # {}
    /\ Target(n) = at[n]
    /\ says' = [says EXCEPT ![n] = Target(n)]
    /\ job' = [job EXCEPT ![n][j] = NotJoining]
    /\ UNCHANGED <<url, at, hooked, heard, offers, listed, serving, faults>>

(* Where to go is settled here, and the way there waits for the lock.       *)
Decide(n, j) ==
    /\ Calls(n, j)
    /\ j = n => PeersSeen(n) # {} /\ ~OnSharedRedis(n)
    /\ Target(n) # at[n]
    /\ job' = [job EXCEPT ![n][j] = [pc |-> "join", target |-> Target(n)]]
    /\ UNCHANGED <<url, at, says, hooked, heard, offers, listed, serving, faults>>

RegisterNode(n, m) == listed' = [listed EXCEPT ![m] = @ \union {n}]

Reconnect(n, target) == target \in serving /\ at' = [at EXCEPT ![n] = target]

(* Under the lock: the connection is changed if the new Redis answers, then  *)
(* the beacons and the record of the node follow.                            *)
Join(n, j) ==
    LET target == job[n][j].target
    IN  /\ job[n][j].pc = "join"
        /\ job' = [job EXCEPT ![n][j] = NotJoining]
        /\ \/ /\ Reconnect(n, target)
              /\ says' = [says EXCEPT ![n] = target]
              /\ RegisterNode(n, target)
           \/ target \notin serving /\ UNCHANGED <<at, says, listed>>
        /\ UNCHANGED <<url, hooked, heard, offers, serving, faults>>

----------------------------------------------------------------------------
(* Records of nodes.                                                        *)

Heartbeat(n) ==
    /\ n \in hooked /\ Home(n) \in serving
    /\ RegisterNode(n, Home(n))
    /\ UNCHANGED <<url, at, says, hooked, heard, offers, job, serving, faults>>

(* get_active_nodes passes over the record of a node that left two minutes   *)
(* ago.                                                                      *)
Forgotten(n, m) ==
    /\ n \in listed[m] /\ Home(n) # m
    /\ listed' = [listed EXCEPT ![m] = @ \ {n}]
    /\ UNCHANGED <<url, at, says, hooked, heard, offers, job, serving, faults>>

----------------------------------------------------------------------------
(* Faults.                                                                  *)

Fault == faults < MaxFaults[url] /\ faults' = faults + 1

(* A process starts again, with the REDIS_URL it was started with.          *)
Restart(n) ==
    /\ Fault
    /\ at' = [at EXCEPT ![n] = url[n]]
    /\ says' = [says EXCEPT ![n] = Public(n, url[n])]
    /\ hooked' = hooked \ {n}
    /\ heard' = [heard EXCEPT ![n] = {}]
    /\ offers' = [offers EXCEPT ![n] = [m \in Ranks |-> Silent]]
    /\ job' = [job EXCEPT ![n] = [m \in Ranks |-> NotJoining]]
    /\ UNCHANGED <<url, listed, serving>>

RedisDown(n) ==
    /\ Fault /\ n \in serving
    /\ serving' = serving \ {n}
    /\ UNCHANGED <<url, at, says, hooked, heard, offers, job, listed>>

RedisUp(n) ==
    /\ n \notin serving
    /\ serving' = serving \union {n}
    /\ UNCHANGED <<url, at, says, hooked, heard, offers, job, listed, faults>>

(* No beacon of n has been heard for half a minute.                         *)
Lapse(n) ==
    /\ Fault /\ \E m \in Ranks : n \in PeersSeen(m)
    /\ offers' = [m \in Ranks |-> [offers[m] EXCEPT ![n] = Silent]]
    /\ UNCHANGED <<url, at, says, hooked, heard, job, listed, serving>>

TryJoin(n, j) == Already(n, j) \/ Decide(n, j) \/ Join(n, j)

JoinNext ==
    \/ \E n \in Ranks : \/ Beacon(n) \/ Hook(n) \/ Heartbeat(n)
                         \/ Restart(n) \/ RedisDown(n) \/ RedisUp(n) \/ Lapse(n)
    \/ \E n, m \in Ranks : FireNothing(n, m) \/ TryJoin(n, m) \/ Forgotten(n, m)

(* Beacons are sent, the loops go on and their threads end, records age and  *)
(* a Redis that is down comes back.                                          *)
Fairness ==
    \A n \in Ranks :
        /\ WF_joinVars(Beacon(n)) /\ WF_joinVars(Hook(n)) /\ WF_joinVars(RedisUp(n))
        /\ WF_joinVars(\E j \in Ranks : TryJoin(n, j))
        /\ WF_joinVars(\E m \in Ranks : Forgotten(n, m))

JoinSpec == JoinInit /\ [][JoinNext]_joinVars /\ Fairness

----------------------------------------------------------------------------
(* Properties.                                                              *)

\* The Redis instances that n and the nodes before it were started on.
StartedOn(n) == {Public(m, url[m]) : m \in {k \in Ranks : k <= n}}

(* No node is on, or sends others to, a Redis that only nodes behind it in   *)
(* the order of ids were started on, whatever they were pointed at: although *)
(* a beacon may offer what its sender has left meanwhile, a thread may act   *)
(* on a choice another thread's move has overtaken, and a node that starts   *)
(* again is back where it was (mesh_join.py 28-47, 75-92, 111-130).          *)
MovesLeadOneWay ==
    \A n \in Ranks : Home(n) \in StartedOn(n) /\ says[n] \in StartedOn(n)

LeastRank == CHOOSE n \in Ranks : \A m \in Ranks : n <= m

OneRedis == \A n \in Ranks : Home(n) = Home(LeastRank)

\* Two nodes keep one another company on a Redis that is not the leader's.
Company == \E n, m \in Ranks : n # m /\ Home(n) = Home(m) /\ Home(n) # Home(LeastRank)

(* The nodes converge onto one Redis (mesh_join.py 1-3), the leader's, once  *)
(* outages, restarts and silences are over; unless two of them hold each     *)
(* other on another one: the loop leaves no Redis with company, and the      *)
(* thread that does is started once for each peer (mesh_join.py 97-107,      *)
(* discovery.py 218, 234).                                                   *)
ConvergesUnlessInCompany == <>[]OneRedis \/ <>[]Company

=============================================================================
