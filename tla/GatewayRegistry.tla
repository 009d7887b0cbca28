-------------------------- MODULE GatewayRegistry --------------------------
(***************************************************************************)
(* comms/routing/gateway.py: the registry of gateway advertisements.       *)
(*                                                                         *)
(* Instants are kept relative to the present: an advertisement carries the *)
(* time it has left, and the passage of time lowers it.  The endpoint, the *)
(* capabilities and the reachability label, which route selection does not *)
(* read, are left out.                                                     *)
(***************************************************************************)
EXTENDS Integers, FiniteSets, Sequences

CONSTANTS
    Gateways,      \* gateway ids
    MeshSecret,    \* whether AURORA_MESH_SECRET is set on this node
    RequireAuth,   \* whether AURORA_MESH_REQUIRE_AUTH is
    MaxEntries,    \* advertisements the registry keeps (256 in the code)
    MaxSequence,   \* bound: sequence numbers advertised
    Lifetimes,     \* how long advertisements may still live when they arrive
    TransportOf,   \* the first of the transports each gateway advertises
    EgressOf       \* whether it advertises egress

ASSUME GatewayAssumption ==
    /\ MeshSecret \in BOOLEAN /\ RequireAuth \in BOOLEAN
    /\ MaxEntries \in Nat \ {0}
    /\ MaxSequence \in Nat \ {0}
    /\ Lifetimes \subseteq Nat \ {0}
    /\ TransportOf \in [Gateways -> {"mesh", "tcp"}]
    /\ EgressOf \in [Gateways -> BOOLEAN]

VARIABLES
    ads,        \* _by_id: the advertisement listed for each gateway
    floor,      \* _seq_floor: the highest sequence number accepted, -1 if none
    newest,     \* history: the highest sequence number listed so far
    backed      \* history: how long the signed advertisements accepted from
                \* each gateway let it be used still

gatewayVars == <<ads, floor, newest, backed>>

\* signed: the signature is right under the mesh secret.  auth is what the
\* advertisement says of itself: its sender sets it and the signature does not
\* cover it.
Advertisement ==
    [sequence : 1..MaxSequence, auth : {"secret", "none"}, signed : BOOLEAN, left : Nat]
NoAd == [sequence |-> 0, auth |-> "none", signed |-> FALSE, left |-> 0]

GatewayInit ==
    /\ ads = [g \in Gateways |-> NoAd]
    /\ floor = [g \in Gateways |-> -1]
    /\ newest = [g \in Gateways |-> -1]
    /\ backed = [g \in Gateways |-> 0]

Listed(table) == {g \in DOMAIN table : table[g] # NoAd}

\* Mutant: the floor is forgotten with the advertisement it came from.
SequenceFloorMutant(g) == IF ads[g] = NoAd THEN -1 ELSE floor[g]

SequenceFloor(g) == floor[g]

\* verify: with a secret only signed advertisements pass; without one all do,
\* unless authentication is required; none that has expired passes.  auth is
\* neither read nor set.
Verified(ad) ==
    /\ ad.left > 0
    /\ IF MeshSecret THEN ad.signed ELSE ~RequireAuth

\* _trim: beyond max_entries the advertisements that expire first go.
Trimmed(table) ==
    {[g \in Gateways |-> IF g \in kept THEN table[g] ELSE NoAd] :
        kept \in {s \in SUBSET Listed(table) :
                    /\ Cardinality(s) =
                         IF Cardinality(Listed(table)) > MaxEntries
                           THEN MaxEntries ELSE Cardinality(Listed(table))
                    /\ \A in \in s, out \in Listed(table) \ s :
                         table[out].left <= table[in].left}}

\* ingest, when the advertisement is taken; a rejected one changes nothing.
Ingest(g, ad) ==
    /\ Verified(ad)
    /\ ad.sequence > SequenceFloor(g)
    /\ floor' = [floor EXCEPT ![g] = ad.sequence]
    /\ ads' \in Trimmed([ads EXCEPT ![g] = ad])
    /\ newest' = [newest EXCEPT ![g] = IF ad.sequence > @ THEN ad.sequence ELSE @]
    /\ backed' = [backed EXCEPT ![g] =
                     IF ad.signed /\ ad.left > @ THEN ad.left ELSE @]

\* list_gateways begins with refresh, which drops what has expired.
Refreshed == [g \in Gateways |-> IF ads[g].left = 0 THEN NoAd ELSE ads[g]]

Less(left, t) == IF left > t THEN left - t ELSE 0
Older(ad, t) == [ad EXCEPT !.left = Less(@, t)]

\* Time passes.  What the registry lists is not touched by it.
GatewaysAge(t) ==
    /\ ads' = [g \in Gateways |-> IF ads[g] = NoAd THEN NoAd ELSE Older(ads[g], t)]
    /\ backed' = [g \in Gateways |-> Less(backed[g], t)]
    /\ UNCHANGED <<floor, newest>>

\* An advertisement enters the registry only if it is newer than every one
\* that did before from its gateway: one that was replayed, reordered or
\* overtaken is refused, also after the newer one has expired or was trimmed
\* (the "stale_sequence" answer of ingest).
Enters(g) == ads'[g] # NoAd /\ (ads[g] = NoAd \/ ads'[g].left > ads[g].left
                                  \/ ads'[g].sequence # ads[g].sequence)
SequencesRise == [][\A g \in Gateways : Enters(g) => ads'[g].sequence > newest[g]]_gatewayVars

=============================================================================
