---------------------------- MODULE ValueLedger ----------------------------
(***************************************************************************)
(* mods/bvl: the Babel Value Ledger's keys in the Redis all nodes share.   *)
(* bvl:bal:<node>, bvl:supply, bvl:claim:<reason>:<node>:<asset> and the   *)
(* bounded list bvl:ledger, with the list of tips of mods/ln_tips that     *)
(* settlements add to.  Each is read and written by a command of its own;  *)
(* SwarmEconomy has the calls that do so.  Amounts are whole units, but a  *)
(* balance, being a float, may also come to be no number at all: then it   *)
(* is in nans, and its place in bal holds 0.                               *)
(***************************************************************************)
EXTENDS Integers, Sequences, FiniteSets

CONSTANTS
    Nodes,         \* nodes that hold balances
    Assets,        \* assets completed and anchored
    Hours,         \* epoch keys of uptime rewards
    Genesis,       \* the asset id of the bootstrap reward
    Events,        \* mining events
    MaxEntries,    \* ledger entries kept (2000)
    MaxTips        \* tips kept (500)

ASSUME LedgerAssumption ==
    /\ IsFiniteSet(Nodes)
    /\ Genesis \notin Events \X {1, 2, 3, 4}
    /\ MaxEntries \in Nat \ {0}
    /\ MaxTips \in Nat \ {0}

\* EvidenceLevel: observed share, pool accepted, pool credited, coinbase.
Levels == 1..4

Reasons == {"seed_hold", "attest", "uptime"}
Matters == Assets \cup Hours \cup {Genesis} \cup (Events \X Levels)
Claims == Reasons \X Nodes \X Matters

Entry == [type : {"mint", "burn", "transfer", "settle"}, node : Nodes, to : Nodes,
          amount : Nat, fee : Nat]
TipEntry == [node : Nodes, sats : Nat]

VARIABLES
    bal,       \* bvl:bal:<node>, where it is a number
    nans,      \* the nodes whose balance is no number
    supply,    \* bvl:supply
    claims,    \* the claim keys that are set
    entries,   \* bvl:ledger
    tips,      \* ln:tips:ledger
    paid,      \* history: the claims credited to a balance
    again      \* history: those credited more than once

ledgerVars == <<bal, nans, supply, claims, entries, tips, paid, again>>

LedgerInit ==
    /\ bal = [n \in Nodes |-> 0] /\ nans = {}
    /\ supply = 0
    /\ claims = {}
    /\ entries = <<>>
    /\ tips = <<>>
    /\ paid = {}
    /\ again = {}

\* items[-limit:]
Newest(items, limit) ==
    IF Len(items) <= limit THEN items
    ELSE SubSeq(items, Len(items) - limit + 1, Len(items))

AtLeastZero(v) == IF v < 0 THEN 0 ELSE v

WriteBalance(n, v, number) ==
    /\ bal' = [bal EXCEPT ![n] = IF number THEN v ELSE 0]
    /\ nans' = IF number THEN nans \ {n} ELSE nans \cup {n}
WriteSupply(v) == supply' = AtLeastZero(v)

\* The balance is being written for the claim.
Credited(claim) ==
    /\ paid' = paid \cup {claim}
    /\ again' = IF claim \in paid THEN again \cup {claim} ELSE again
=============================================================================
