--------------------------- MODULE PieceChallenge ---------------------------
(***************************************************************************)
(* Possession of one asset, as one node knows it (mods/asset_fabric):       *)
(* challenges to other nodes for a piece (challenge.py), what is verified   *)
(* of them and how they score (possession_verify.py, peer_evidence.py), and *)
(* the repairs asked for on that knowledge (repair_executor.py, with        *)
(* RepairPlan), whose candidates come from the directory of nodes in the    *)
(* store (comms/layer.py).                                                  *)
(*                                                                          *)
(* A challenge blocks its thread until an answer is judged or 12 s are      *)
(* over; the listener thread judges answers.  A message may come late, or    *)
(* stay in net for ever, which is its loss; none comes twice.                *)
(***************************************************************************)
EXTENDS RepairPlan

CONSTANTS
    Self,           \* the node that challenges and repairs
    Pieces,
    FirstHolders,   \* the peers that hold the asset at the start
    Sited,          \* where every node stands: its site, power, network and rack
    Publishers,     \* the sets of peers that may have published it in time
    MaxChallenges,  \* challenges made, and pieces transferred
    MaxRepairs,     \* repairs run
    MaxAges,        \* passages of time that make a record old or expire it
    MaxSpoils       \* pieces lost or damaged on a disk

ASSUME ChallengeAssumption ==
    /\ Self \in Nodes /\ FirstHolders \subseteq Nodes
    /\ {MaxChallenges, MaxRepairs, MaxAges, MaxSpoils} \subseteq Nat
    /\ DOMAIN Sited = Nodes
    /\ \A ps \in Publishers : ps \subseteq Nodes

Peers      == Nodes \ {Self}
Challenges == 1..MaxChallenges

VARIABLES
    store,     \* what a node has of each piece: good, bad or none
    net,       \* messages on the way
    challenge, \* of each challenge: target, piece, where its thread stands
    event,     \* of each challenge pending: done and ok
    judging,   \* the answer in the listener's hands
    verified,  \* PossessionTracker.verified: pieces by node
    score,     \* PeerEvidence: success, invalid, failed and timeouts by node
    topo,      \* the topology registry
    record,    \* node:<id> in the store: fresh, old, none
    active,    \* nodes:active in the store
    repair,    \* where a repair stands
    placement, \* shard holders last chosen
    proved,    \* pieces a peer sent undamaged (history)
    used       \* challenges, repairs, ages and spoils so far

possession == <<challenge, event, judging, verified, score>>
directory  == <<record, active>>
vars == <<store, net, possession, topo, directory, repair, placement, proved, used>>

NoChallenge == [target |-> Self, piece |-> 0, at |-> "none"]
NoEvent     == [done |-> FALSE, ok |-> FALSE]
NoAnswer    == [kind |-> "none"]
NoRepair    == [at |-> "none", listed |-> {}, stale |-> {}]
NoScore     == [success |-> 0, invalid |-> 0, failed |-> 0, timeouts |-> 0]

(* The registry, made when the node starts: its own place and those of the   *)
(* peers that have published theirs by then.                                *)
LoadedTopology(publishers) == [n \in publishers \union {Self} |-> Sited[n]]

Init ==
    /\ store = [n \in Nodes |-> [p \in Pieces |-> IF n \in FirstHolders THEN "good" ELSE "none"]]
    /\ net = {}
    /\ challenge = [c \in Challenges |-> NoChallenge]
    /\ event = [c \in Challenges |-> NoEvent]
    /\ judging = NoAnswer
    /\ verified = [n \in Peers |-> {}]
    /\ score = [n \in Peers |-> NoScore]
    /\ topo \in {LoadedTopology(ps) : ps \in Publishers}
    /\ record = [n \in Nodes |-> "fresh"] /\ active = Nodes
    /\ repair = NoRepair /\ placement = <<>>
    /\ proved = [n \in Peers |-> {}]
    /\ used = [challenges |-> 0, repairs |-> 0, ages |-> 0, spoils |-> 0]

----------------------------------------------------------------------------
(* The challenge, in its thread.                                            *)

Challenge(n, p) ==
    /\ used.challenges < MaxChallenges
    /\ LET c    == used.challenges + 1
           asks == [kind |-> "challenge", id |-> c, target |-> n, piece |-> p]
           as(at) == [target |-> n, piece |-> p, at |-> at]
       IN  \/ /\ challenge' = [challenge EXCEPT ![c] = as("waiting")]
              /\ net' = net \union {asks}
           \/ /\ challenge' = [challenge EXCEPT ![c] = as("false")]  \* publishing fails
              /\ UNCHANGED net
    /\ used' = [used EXCEPT !.challenges = @ + 1]
    /\ UNCHANGED <<store, event, judging, verified, score, topo, directory,
                   repair, placement, proved>>

Returns(c, how) ==
    /\ challenge[c].at = "waiting"
    /\ challenge' = [challenge EXCEPT ![c].at = how]
    /\ UNCHANGED <<store, event, judging, verified, net, topo, directory,
                   repair, placement, proved, used>>

(* The thread finds the event done, and returns its verdict ...             *)
Finish(c) ==
    /\ event[c].done
    /\ Returns(c, IF event[c].ok THEN "true" ELSE "false")
    /\ UNCHANGED score

(* ... or the time is over, whether or not the answer is in by now.         *)
Expire(c) ==
    /\ Returns(c, "timeout")
    /\ score' = [score EXCEPT ![challenge[c].target].timeouts = @ + 1]

----------------------------------------------------------------------------
(* The challenged node: every node gets the message, its target answers.    *)

\* Mutant of IsAddressed: every node that gets a challenge answers it.
IsAddressedMutant(m, n) == TRUE

IsAddressed(m, n) == m.target = n

Answer(m, n) ==
    /\ m.kind = "challenge" /\ IsAddressed(m, n)
    /\ net' = (net \ {m}) \union
                 {[kind |-> "answer", id |-> m.id, source |-> n, piece |-> m.piece,
                   data |-> store[n][m.piece]]}
    /\ proved' = IF store[n][m.piece] = "good"
                 THEN [proved EXCEPT ![n] = @ \union {m.piece}] ELSE proved
    /\ UNCHANGED <<store, possession, topo, directory, repair, placement, used>>

----------------------------------------------------------------------------
(* _on_response, in the listener thread.                                    *)

Pending(c) == challenge[c].at = "waiting"

(* An answer to a challenge no longer pending is dropped.                   *)
Receive(m) ==
    /\ m.kind = "answer" /\ judging = NoAnswer
    /\ net' = net \ {m}
    /\ judging' = IF Pending(m.id) THEN m ELSE NoAnswer
    /\ UNCHANGED <<store, challenge, event, verified, score, topo, directory,
                   repair, placement, proved, used>>

(* verify_piece, with the hashes of the asset's metadata                    *)
\* Mutant of Proves: any bytes are taken for the piece.
ProvesMutant(m) == m.data # "none"

Proves(m) == m.data = "good"

(* The answer is judged even if its challenge timed out since it was read:  *)
(* the node that SENT it is scored, and holds what it proved.               *)
Judge ==
    /\ judging # NoAnswer
    /\ LET m == judging
       IN  /\ event' = [event EXCEPT ![m.id] = [done |-> TRUE, ok |-> Proves(m)]]
           /\ verified' = IF Proves(m) THEN [verified EXCEPT ![m.source] = @ \union {m.piece}]
                          ELSE verified
           /\ score' = [score EXCEPT ![m.source] =
                 IF Proves(m) THEN [@ EXCEPT !.success = @ + 1]
                 ELSE IF m.data = "none" THEN [@ EXCEPT !.failed = @ + 1]
                 ELSE [@ EXCEPT !.invalid = @ + 1, !.failed = @ + 1]]
    /\ judging' = NoAnswer
    /\ UNCHANGED <<store, net, challenge, topo, directory, repair, placement, proved, used>>

----------------------------------------------------------------------------
(* The directory: register_node and heartbeat, the passing of the 120 s a   *)
(* listing accepts and of the record's own life, and get_active_nodes,      *)
(* which strikes off what it found stale some calls ago.                    *)

Beat(n) ==
    /\ record' = [record EXCEPT ![n] = "fresh"]
    /\ active' = active \union {n}
    /\ UNCHANGED <<store, net, possession, topo, repair, placement, proved, used>>

Age(n) ==
    /\ n # Self /\ record[n] # "none" /\ used.ages < MaxAges
    /\ used' = [used EXCEPT !.ages = @ + 1]
    /\ record' = [record EXCEPT ![n] = IF @ = "fresh" THEN "old" ELSE "none"]
    /\ UNCHANGED <<store, net, possession, topo, active, repair, placement, proved>>

ListCandidates ==
    /\ repair.at = "none" /\ used.repairs < MaxRepairs
    /\ used' = [used EXCEPT !.repairs = @ + 1]
    /\ LET fresh == {n \in active : record[n] = "fresh"}
       IN  repair' = [at |-> "strike", listed |-> fresh, stale |-> active \ fresh]
    /\ UNCHANGED <<store, net, possession, topo, directory, placement, proved>>

StrikeStale ==
    /\ repair.at = "strike"
    /\ active' = active \ repair.stale
    /\ repair' = [repair EXCEPT !.at = "plan", !.stale = {}]
    /\ UNCHANGED <<store, net, possession, topo, record, placement, proved, used>>

----------------------------------------------------------------------------
(* run_for_asset and place_rs, on the candidates listed.                    *)

(* Whoever has one piece verified counts as a holder.                       *)
VerifiedHolders == {n \in Peers : verified[n] # {}}

\* Mutant of Targets: candidates verified already count again.
TargetsMutant == RepairTargets(topo, {}, repair.listed)

Targets == RepairTargets(topo, VerifiedHolders, repair.listed)

(* The targets are told to ensure the asset, and any node to help.          *)
RunRepair ==
    /\ repair.at = "plan"
    /\ net' = net \union {[kind |-> "needed", target |-> n] : n \in Targets \ {Self}}
    /\ repair' = NoRepair
    /\ UNCHANGED <<store, possession, topo, directory, placement, proved, used>>

PlaceShards ==
    /\ repair.at = "plan"
    /\ placement' \in Placements(topo, repair.listed)
    /\ repair' = NoRepair
    /\ UNCHANGED <<store, net, possession, topo, directory, proved, used>>

(* A target that has transferred and verified the asset (TorrentSwarm).     *)
Acquire(m) ==
    /\ m.kind = "needed"
    /\ net' = net \ {m}
    /\ store' = [store EXCEPT ![m.target] = [p \in Pieces |-> "good"]]
    /\ UNCHANGED <<possession, topo, directory, repair, placement, proved, used>>

(* This node transfers a piece it lacks, and verifies it on receiving: the  *)
(* sender is scored, and holds what passed (byzantine_receive.py).  The     *)
(* requests and the assembly are TorrentSwarm's.                            *)
Transfer(n, p) ==
    /\ used.challenges < MaxChallenges
    /\ store[Self][p] = "none" /\ store[n][p] # "none"
    /\ used' = [used EXCEPT !.challenges = @ + 1]
    /\ LET right == store[n][p] = "good"
       IN  /\ store'    = IF right THEN [store EXCEPT ![Self][p] = "good"] ELSE store
           /\ verified' = IF right THEN [verified EXCEPT ![n] = @ \union {p}] ELSE verified
           /\ proved'   = IF right THEN [proved EXCEPT ![n] = @ \union {p}] ELSE proved
           /\ score'    = IF right THEN [score EXCEPT ![n].success = @ + 1]
                                   ELSE [score EXCEPT ![n].invalid = @ + 1]
    /\ UNCHANGED <<net, challenge, event, judging, topo, directory, repair, placement>>

(* A piece is lost or damaged on a peer's disk, and nobody is told.         *)
Spoil(n, p, how) ==
    /\ used.spoils < MaxSpoils /\ store[n][p] = "good"
    /\ store' = [store EXCEPT ![n][p] = how]
    /\ used' = [used EXCEPT !.spoils = @ + 1]
    /\ UNCHANGED <<net, possession, topo, directory, repair, placement, proved>>

Next ==
    \/ \E n \in Peers, p \in Pieces : Challenge(n, p) \/ Transfer(n, p)
    \/ \E c \in Challenges : Finish(c) \/ Expire(c)
    \/ \E m \in net : \E n \in Peers : Answer(m, n)
    \/ \E m \in net : Receive(m) \/ Acquire(m)
    \/ Judge
    \/ \E n \in Nodes : Beat(n) \/ Age(n)
    \/ ListCandidates \/ StrikeStale \/ RunRepair \/ PlaceShards
    \/ \E n \in Peers, p \in Pieces, how \in {"bad", "none"} : Spoil(n, p, how)

Spec == Init /\ [][Next]_vars

----------------------------------------------------------------------------
(* Properties.                                                              *)

TypeOK ==
    /\ store \in [Nodes -> [Pieces -> {"good", "bad", "none"}]]
    /\ \A c \in Challenges : challenge[c].at \in {"none", "waiting", "true", "false", "timeout"}
    /\ verified \in [Peers -> SUBSET Pieces]
    /\ record \in [Nodes -> {"fresh", "old", "none"}] /\ active \subseteq Nodes
    /\ repair.listed \subseteq Nodes
    /\ placement \in Seq(Nodes)

(* What is verified of a node it once proved itself, undamaged: no late,    *)
(* damaged or misdirected answer makes a holder (possession_verify.py 2-6,  *)
(* challenge.py 168-189, byzantine_receive.py 109-117).                     *)
VerifiedWasProved == \A n \in Peers : verified[n] \subseteq proved[n]

(* A challenge that returns true has verified the piece of its own target,  *)
(* whoever else answered or was judged meanwhile (challenge.py 56-86).      *)
TrueIsOfTarget ==
    \A c \in Challenges :
        challenge[c].at = "true" => challenge[c].piece \in verified[challenge[c].target]

(* A repair asks as many candidates as are lacking and no more: once they    *)
(* hold the asset the floor of holders is reached, or there is no candidate  *)
(* left; and while any floor is missed and a candidate left, somebody is     *)
(* asked (repair.py 155-183).                                                *)
RepairFillsTheGap ==
    repair.at = "plan" =>
        LET after == VerifiedHolders \union Targets
        IN  /\ Cardinality(after) >= Policy.holders \/ repair.listed \subseteq after
            /\ Cardinality(VerifiedHolders) < Policy.holders
                 => Cardinality(after) <= Policy.holders
            /\ (Targets = {} /\ Deficits(topo, VerifiedHolders) # {})
                 => repair.listed \subseteq VerifiedHolders

(* Shards go to distinct nodes, and where failure domains are nested (nodes  *)
(* of different sites share no power, network or rack) to every site known   *)
(* before any site gets a second one (repair.py 189-246).                    *)
Repeats(k) == \E h \in 1..(k - 1) : /\ placement[h] \in DOMAIN topo
                                    /\ topo[placement[h]].site = topo[placement[k]].site
PlacementSpreads ==
    LET known == {k \in DOMAIN placement : placement[k] \in DOMAIN topo}
    IN  /\ IsInjective(placement)
        /\ \A j, k \in known : j < k /\ Repeats(j) => Repeats(k)

(* What is planned serves the redundancy policy, on whatever is verified, in *)
(* doubt or out of date when the plan is made.                               *)
PlansServeThePolicy == RepairFillsTheGap /\ PlacementSpreads
=============================================================================
