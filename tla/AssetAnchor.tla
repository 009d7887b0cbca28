---------------------------- MODULE AssetAnchor ----------------------------
(***************************************************************************)
(* mods/btc_anchor/anchor.py: the service that commits assets to Bitcoin.  *)
(* Records, the broadcast queue and the retained observations live in the  *)
(* shared Redis; several callers (dashboard threads, nodes) run the        *)
(* service over them.  A caller runs one operation at a time.  A pass over *)
(* the queue or over the records takes its list once, then one item per    *)
(* step; the call of the broadcaster, which leaves the process, ends a     *)
(* step too.  Other callers' steps and new blocks come in between.  What a *)
(* step reads and writes of the shared state is taken to be atomic.        *)
(***************************************************************************)
EXTENDS BitcoinChain, SeqFilter, FiniteSets

CONSTANTS
    Assets,      \* assets anchored
    Manifested,  \* those recorded with a manifest hash (artifacts); the rest
                 \* are bare commitments, as EpochBuilder.commit records them
    Callers,     \* threads and nodes running the service
    Depth,       \* confirmation_depth of each asset's record
    QueueCap,    \* entries the queue keeps (200 in the code)
    MaxItems,    \* max_items of a pass over the queue
    ListLimit,   \* records a pass over the records lists (200 in the code)
    MaxEpoch     \* bound: assets are recorded up to this height

ASSUME AnchorAssumption ==
    /\ Manifested \subseteq Assets
    /\ Depth \in [Assets -> Nat \ {0}]
    /\ QueueCap \in Nat \ {0}
    /\ MaxItems \in Nat \ {0}
    /\ ListLimit \in Nat \ {0}
    /\ MaxEpoch \in Nat \ {0}

VARIABLES
    recs,        \* asset:anchor:<asset>: the stored AnchorRecord
    queue,       \* asset:anchor:queue
    observed,    \* asset:anchor:observed:*: observations kept after a reorg
    job          \* what each caller is in the middle of

vars == <<chain, mempool, minted, recs, queue, observed, job>>
anchorVars == <<recs, queue, observed, job>>

-----------------------------------------------------------------------------
(* Data *)

OnChainStatuses == {"INCLUDED", "CONFIRMED"}
Statuses == {"NONE", "COMMITMENT_PENDING", "BROADCAST", "RE_ANCHOR_REQUIRED"}
                \cup OnChainStatuses

\* An artifact's commitment binds its identity to the Bitcoin epoch, the tip
\* height when it is recorded; a bare commitment is given and never changes.
Leaf == [asset : Assets, commitment : Nat]
LeafOf(a, c) == [asset |-> a, commitment |-> c]

\* LogBroadcaster derives the txid from what it writes, so a transaction is
\* what it commits to: one leaf, or the leaves of a Merkle batch.
Tx == [batch : BOOLEAN, leaves : Seq(Leaf)]
NoTx == [batch |-> FALSE, leaves |-> << >>]
SoloTx(a, c) == [batch |-> FALSE, leaves |-> <<LeafOf(a, c)>>]
BatchTx(items) ==
    [batch |-> TRUE,
     leaves |-> [i \in 1..Len(items) |-> LeafOf(items[i].asset, items[i].commitment)]]
Commits(tx, a, c) == \E i \in DOMAIN tx.leaves : tx.leaves[i] = LeafOf(a, c)

Block == [id : Nat, txs : SUBSET Tx]
NoBlock == [id |-> 0, txs |-> {}]

Record ==
    [status : Statuses, commitment : Nat, txid : Tx, proof : Tx,
     block : Block, confs : Nat, canonical : BOOLEAN]
FreshRecord(c) ==
    [status |-> "COMMITMENT_PENDING", commitment |-> c, txid |-> NoTx, proof |-> NoTx,
     block |-> NoBlock, confs |-> 0, canonical |-> FALSE]
NoRecord == [FreshRecord(0) EXCEPT !.status = "NONE"]

Entry == [asset : Assets, commitment : Nat, status : {"pending", "submitted"}]

\* Mutant: observations are stored under the commitment alone.
ObservationKeyMutant(a, r) == [block |-> 0, commitment |-> r.commitment]

\* An observation is stored under the anchor id, which names the block, or,
\* when the record has no anchor id, under its commitment alone.
ObservationKey(a, r) == [block |-> IF a \in Manifested THEN r.block.id ELSE 0,
                         commitment |-> r.commitment]
Observation == [asset : Assets, key : [block : Nat, commitment : Nat], block : Nat]

Job == [op : {"idle", "queue", "batch", "sync"}, items : Seq(Entry), tx : Tx,
        copies : [Assets -> Record]]
NoCopies == [a \in Assets |-> NoRecord]
Idle == [op |-> "idle", items |-> << >>, tx |-> NoTx, copies |-> NoCopies]

\* What a reader of the records sees of their lifecycle.
Lifecycle == INSTANCE AnchorLifecycle WITH status <- [a \in Assets |-> recs[a].status]

-----------------------------------------------------------------------------
(* queue.py *)

Pending == Kept(queue, {e \in Entries(queue) : e.status = "pending"})

\* enqueue: the asset's pending entries give way to the new one, and the
\* oldest entries, whatever their status, make room for it.
Enqueued(a, c) ==
    LET others == {e \in Entries(queue) : e.asset # a \/ e.status # "pending"}
        entry  == [asset |-> a, commitment |-> c, status |-> "pending"]
    IN  LastOf(Append(Kept(queue, others), entry), QueueCap)

\* mark: every entry of the asset takes the status, submitted ones included.
Marked(q, assets, s) ==
    [i \in 1..Len(q) |-> IF q[i].asset \in assets THEN [q[i] EXCEPT !.status = s] ELSE q[i]]

-----------------------------------------------------------------------------
(* The operations *)

Init ==
    /\ ChainInit
    /\ recs = NoCopies
    /\ queue = << >>
    /\ observed = {}
    /\ job = [c \in Callers |-> Idle]

\* The commitment an asset gets when it is recorded now.
CommitmentNow(a) == IF a \in Manifested THEN TipHeight ELSE 0

\* record: a fresh record replaces whatever was stored; with request_broadcast
\* it is queued as well.
RecordAsset(c, a, request) ==
    LET commitment == CommitmentNow(a)
    IN  /\ job[c].op = "idle"
        /\ TipHeight <= MaxEpoch
        /\ recs' = [recs EXCEPT ![a] = FreshRecord(commitment)]
        /\ queue' = IF request THEN Enqueued(a, commitment) ELSE queue
        /\ UNCHANGED <<chainVars, observed, job>>

\* "Queued for broadcast".
WaitingToBroadcast == {"COMMITMENT_PENDING", "RE_ANCHOR_REQUIRED"}
Requested(r) == [r EXCEPT !.status = "COMMITMENT_PENDING"]

\* request_broadcast: always queued, under the record's commitment or, when
\* nothing is stored, under the one the caller gives; a record goes back to
\* pending only from the statuses that wait for a broadcast.
RequestBroadcast(c, a) ==
    /\ job[c].op = "idle"
    /\ \/ recs[a].status # "NONE" /\ queue' = Enqueued(a, recs[a].commitment)
       \/ /\ recs[a].status = "NONE"
          /\ TipHeight <= MaxEpoch
          /\ queue' = Enqueued(a, CommitmentNow(a))
    /\ recs' = IF recs[a].status \in WaitingToBroadcast
                 THEN [recs EXCEPT ![a] = Requested(@)]
                 ELSE recs
    /\ UNCHANGED <<chainVars, observed, job>>

\* mark_broadcast: the record read again, upgraded to BROADCAST; the last
\* inclusion coordinates stay on it.
BroadcastRecord(r, tx) ==
    [r EXCEPT !.status = "BROADCAST", !.txid = tx, !.canonical = FALSE, !.confs = 0]

\* A batch stores the asset's Merkle proof on the record.
WithProof(r, tx) == [r EXCEPT !.proof = tx]

\* process_queue and process_queue_batched start from one reading of the queue.
FirstPending == FirstOf(Pending, MaxItems)

ProcessQueue(c) ==
    /\ job[c].op = "idle"
    /\ Pending # << >>
    /\ job' = [job EXCEPT ![c] = [Idle EXCEPT !.op = "queue", !.items = FirstPending]]
    /\ UNCHANGED <<chainVars, recs, queue, observed>>

\* What is left of a caller's pass after its first item.
AfterItem(c, tx) ==
    IF Len(job[c].items) = 1 THEN Idle
    ELSE [job[c] EXCEPT !.items = Tail(@), !.tx = tx]

\* Mutant: the commitment the queue entry was made with is broadcast.
BroadcastTxMutant(c) ==
    LET e == Head(job[c].items) IN SoloTx(e.asset, e.commitment)

\* The broadcaster is given the record as it is read now, or one made up from
\* the queue entry when nothing is stored.
BroadcastTx(c) ==
    LET e == Head(job[c].items)
        a == e.asset
    IN  SoloTx(a, IF recs[a].status = "NONE" THEN e.commitment ELSE recs[a].commitment)

\* One item of process_queue up to the broadcaster's answer, an external call:
\* the record is read and what it commits to goes out.
BroadcastItem(c) ==
    LET a == Head(job[c].items).asset
    IN  /\ job[c].op = "queue"
        /\ job[c].tx = NoTx
        /\ UNCHANGED <<chainVars, recs, observed>>
        /\ \/ \* the broadcaster fails
              /\ queue' = Marked(queue, {a}, "pending")
              /\ job' = [job EXCEPT ![c] = AfterItem(c, NoTx)]
           \/ /\ job' = [job EXCEPT ![c].tx = BroadcastTx(c)]
              /\ UNCHANGED queue

\* mark_broadcast raises unless there is nothing to upgrade or the upgrade is legal.
Upgrades(a) == recs[a].status = "NONE" \/ Lifecycle!CanTransition(recs[a].status, "BROADCAST")
Upgraded(a, r, tx) == IF recs[a].status = "NONE" THEN recs[a] ELSE BroadcastRecord(r, tx)

\* The rest of the item.  The queue entry is marked before the record, read
\* again, is upgraded; when the upgrade is illegal it raises and the pass ends
\* there, nothing submitted.
UpgradeItem(c) ==
    LET a  == Head(job[c].items).asset
        tx == job[c].tx
    IN  /\ job[c].op = "queue"
        /\ tx # NoTx
        /\ queue' = Marked(queue, {a}, "submitted")
        /\ UNCHANGED <<chain, minted, observed>>
        /\ IF Upgrades(a)
             THEN /\ recs' = [recs EXCEPT ![a] = Upgraded(a, recs[a], tx)]
                  /\ mempool' = mempool \cup {tx}
                  /\ job' = [job EXCEPT ![c] = AfterItem(c, NoTx)]
             ELSE /\ job' = [job EXCEPT ![c] = Idle]
                  /\ UNCHANGED <<recs, mempool>>

\* process_queue_batched up to the broadcast of the Merkle root.
ProcessBatch(c) ==
    LET items == FirstPending
    IN  /\ job[c].op = "idle"
        /\ Pending # << >>
        /\ \/ \* the broadcaster fails
              /\ queue' = Marked(queue, {items[i].asset : i \in DOMAIN items}, "pending")
              /\ UNCHANGED job
           \/ /\ job' = [job EXCEPT ![c] =
                           [Idle EXCEPT !.op = "batch", !.items = items, !.tx = BatchTx(items)]]
              /\ UNCHANGED queue
        /\ UNCHANGED <<chainVars, recs, observed>>

\* One item of the batch: the Merkle proof is stored on the record, then the
\* record is upgraded.  The root reaches the chain only after the last item,
\* so an illegal upgrade leaves earlier items marked and nothing submitted.
BatchItem(c) ==
    LET a  == Head(job[c].items).asset
        tx == job[c].tx
    IN  /\ job[c].op = "batch"
        /\ queue' = Marked(queue, {a}, "submitted")
        /\ UNCHANGED <<chain, minted, observed>>
        /\ IF Upgrades(a)
             THEN /\ recs' = [recs EXCEPT ![a] = Upgraded(a, WithProof(recs[a], tx), tx)]
                  /\ job' = [job EXCEPT ![c] = AfterItem(c, tx)]
                  /\ mempool' = IF Len(job[c].items) = 1 THEN mempool \cup {tx} ELSE mempool
             ELSE /\ recs' = [recs EXCEPT ![a] = WithProof(@, tx)]
                  /\ job' = [job EXCEPT ![c] = Idle]
                  /\ UNCHANGED mempool

\* What list_anchors reads, in the order Redis happens to return the keys: of
\* the keys under the prefix, observations and the queue's own among them, the
\* first 2 * ListLimit are looked at, and of their records ListLimit are taken.
Recorded == {a \in Assets : recs[a].status # "NONE"}
OtherKeys == Cardinality(observed) + (IF queue = << >> THEN 0 ELSE 1)
Least(m, n) == IF m <= n THEN m ELSE n
Listings ==
    {listed \in SUBSET Recorded :
        \E seen \in 0..Cardinality(Recorded), other \in 0..OtherKeys :
            /\ seen + other = Least(2 * ListLimit, Cardinality(Recorded) + OtherKeys)
            /\ Cardinality(listed) = Least(seen, ListLimit)}

\* Every record is listed.
AllListed ==
    /\ Cardinality(Recorded) <= ListLimit
    /\ Cardinality(Recorded) + OtherKeys <= 2 * ListLimit

\* apply_chain_progress (handle_reorg is the same call): list_anchors reads
\* the records first.
ChainProgress(c) ==
    \E listed \in Listings :
        /\ job[c].op = "idle"
        /\ \E a \in listed : recs[a].txid # NoTx
        /\ job' = [job EXCEPT ![c] = [Idle EXCEPT !.op = "sync",
                     !.copies = [a \in Assets |-> IF a \in listed THEN recs[a] ELSE NoRecord]]]
        /\ UNCHANGED <<chainVars, recs, queue, observed>>

\* Records still to be synced in the pass; one without a txid is skipped.
ToSync(c) == {a \in Assets : job[c].copies[a].txid # NoTx}

AfterSync(c, a) ==
    IF ToSync(c) = {a} THEN Idle ELSE [job[c] EXCEPT !.copies[a] = NoRecord]

\* Mutants: confirmation one block early, and one block late.
SettledEarlyMutant(a, r, i) ==
    [r EXCEPT !.status = IF Confirmations(i) + 1 >= Depth[a] THEN "CONFIRMED" ELSE "INCLUDED",
              !.block = chain[i], !.confs = Confirmations(i), !.canonical = TRUE]
SettledLateMutant(a, r, i) ==
    [r EXCEPT !.status = IF Confirmations(i) > Depth[a] THEN "CONFIRMED" ELSE "INCLUDED",
              !.block = chain[i], !.confs = Confirmations(i), !.canonical = TRUE]

\* _sync_record_with_chain on a transaction found at position i.
Settled(a, r, i) ==
    [r EXCEPT !.status = IF Confirmations(i) >= Depth[a] THEN "CONFIRMED" ELSE "INCLUDED",
              !.block = chain[i], !.confs = Confirmations(i), !.canonical = TRUE]

\* Mutants: the record stays canonical, or waits for its old transaction to be
\* included again.
DeposedCanonicalMutant(r) == [r EXCEPT !.status = "RE_ANCHOR_REQUIRED", !.confs = 0]
DeposedBroadcastMutant(r) == [r EXCEPT !.status = "BROADCAST", !.canonical = FALSE, !.confs = 0]

\* The same on a transaction that is on the canonical chain no more: REORGED,
\* then RE_ANCHOR_REQUIRED before anything is stored.
Deposed(r) == [r EXCEPT !.status = "RE_ANCHOR_REQUIRED", !.canonical = FALSE, !.confs = 0]

\* Mutant: only a confirmed anchor is worth retaining.
RetainedMutant(a, r) ==
    IF r.status = "CONFIRMED"
      THEN observed \cup {[asset |-> a, key |-> ObservationKey(a, r), block |-> r.block.id]}
      ELSE observed

\* _retain_observed writes one key.
Retained(a, r) ==
    LET key == ObservationKey(a, r)
    IN  {o \in observed : o.asset # a \/ o.key # key}
            \cup {[asset |-> a, key |-> key, block |-> r.block.id]}

\* One record of the pass, taken as it was when the pass began.
SyncRecord(c, a) ==
    LET r == job[c].copies[a]
    IN  /\ job[c].op = "sync"
        /\ a \in ToSync(c)
        /\ job' = [job EXCEPT ![c] = AfterSync(c, a)]
        /\ UNCHANGED <<chainVars, queue>>
        /\ \/ \E i \in Locations(r.txid) :
                /\ IsLocation(r.txid, i)
                /\ recs' = [recs EXCEPT ![a] = Settled(a, r, i)]
                /\ UNCHANGED observed
           \/ /\ ~OnChain(r.txid)
              /\ r.status \in OnChainStatuses
              /\ recs' = [recs EXCEPT ![a] = Deposed(r)]
              /\ observed' = Retained(a, r)
           \/ /\ ~OnChain(r.txid)
              /\ r.status \notin OnChainStatuses
              /\ UNCHANGED <<recs, observed>>

Next ==
    \/ ChainNext /\ UNCHANGED anchorVars
    \/ \E c \in Callers, a \in Assets :
         \/ \E request \in BOOLEAN : RecordAsset(c, a, request)
         \/ RequestBroadcast(c, a)
         \/ SyncRecord(c, a)
    \/ \E c \in Callers :
         \/ ProcessQueue(c)
         \/ BroadcastItem(c)
         \/ UpgradeItem(c)
         \/ ProcessBatch(c)
         \/ BatchItem(c)
         \/ ChainProgress(c)

Spec == Init /\ [][Next]_vars

-----------------------------------------------------------------------------
(* Properties *)

TypeOK ==
    /\ chain \in Seq(Block)
    /\ mempool \subseteq Tx
    /\ minted \in Nat
    /\ recs \in [Assets -> Record]
    /\ queue \in Seq(Entry)
    /\ observed \subseteq Observation
    /\ job \in [Callers -> Job]

\* What a record claims about the chain.  The three claims of is_authoritative
\* go together: no record is canonical without an inclusion, none is confirmed
\* below its depth, and the block it names holds its transaction.
Consistent(a, r) ==
    /\ r.canonical <=> r.status \in OnChainStatuses
    /\ r.status = "CONFIRMED" => r.confs >= Depth[a]
    /\ r.status \in OnChainStatuses \cup {"RE_ANCHOR_REQUIRED"} => r.txid \in r.block.txs

\* A locally observed transaction is never a confirmed anchor (anchor.py:12):
\* of the stored records, and of every copy a pass is about to write back.
RecordsConsistent ==
    \A a \in Assets :
        /\ Consistent(a, recs[a])
        /\ \A c \in Callers : Consistent(a, job[c].copies[a])

\* verify_anchor_record, given the chain: accepted anchors of artifacts.
Accepted(a) ==
    LET r == recs[a]
    IN  /\ a \in Manifested
        /\ r.status = "CONFIRMED" /\ r.canonical
        /\ \E i \in Locations(r.txid) : IsLocation(r.txid, i) /\ chain[i] = r.block

\* With one caller, an accepted anchor that was not batched stands for its own
\* artifact: the canonical chain holds a transaction that commits to exactly
\* the record's commitment, whatever was re-recorded, re-broadcast or
\* reorganised meanwhile.  A second caller that records the artifact anew while
\* the broadcaster runs breaks it.
AcceptedIsAnchored ==
    \A a \in Assets :
        Accepted(a) /\ ~recs[a].txid.batch =>
            \E i \in DOMAIN chain : SoloTx(a, recs[a].commitment) \in chain[i].txs

\* A record that waits to be anchored again has its lost inclusion among the
\* retained observations: mods/btc_anchor/README.md:55.
DeposedIsObserved ==
    \A a \in Assets : recs[a].status = "RE_ANCHOR_REQUIRED" =>
        \E o \in observed : o.asset = a /\ o.block = recs[a].block.id

\* The record's transaction, where tx_location finds it, is buried deep enough.
Deep(a) ==
    \E i \in Locations(recs[a].txid) :
        IsLocation(recs[a].txid, i) /\ Confirmations(i) >= Depth[a]

\* The step that confirms a record is taken only while the chain buries its
\* transaction at least confirmation_depth deep, and nothing else confirms.
ConfirmedOnlyWhenDeep ==
    [][\A a \in Assets :
         recs[a].status # "CONFIRMED" /\ recs'[a].status = "CONFIRMED" => Deep(a)']_vars

\* "Never delete a historical observation" (anchor.py:473), for artifacts:
\* every later reorg, of any caller, adds to what was retained.
ObservationsKept ==
    [][\A o \in observed : o.asset \in Manifested => o \in observed']_vars

\* With one caller, stored statuses move along the lifecycle's TRANSITIONS.
\* One write is not in that table (anchor.py:453): CONFIRMED goes back to
\* INCLUDED.  It is taken only while the chain still holds the transaction and
\* buries it less than confirmation_depth deep, which takes a reorg.
DropsBelowDepth(a) ==
    /\ recs[a].status = "CONFIRMED" /\ recs'[a].status = "INCLUDED"
    /\ OnChain(recs[a].txid) /\ ~Deep(a)
LifecycleOrShallow ==
    [][\A a \in Assets : Lifecycle!Moved(a) \/ DropsBelowDepth(a)]_vars

\* Clocks keep being read, and every read syncs the records; a pass that was
\* begun goes on.
Fairness ==
    \A c \in Callers :
        /\ SF_vars(ChainProgress(c))
        /\ WF_vars(BroadcastItem(c))
        /\ WF_vars(UpgradeItem(c))
        /\ WF_vars(BatchItem(c))
        /\ \A a \in Assets : WF_vars(SyncRecord(c, a))

FairSpec == Spec /\ Fairness

\* An anchor that stays deep enough is confirmed in the end, as long as the
\* limits of list_anchors leave room for every record.
DeepIsConfirmed ==
    \A a \in Assets : Deep(a) ~> (recs[a].status = "CONFIRMED" \/ ~Deep(a) \/ ~AllListed)

=============================================================================
