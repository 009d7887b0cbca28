# Verification of aurora-swarm

TLA+ models of the parts of aurora-swarm-btc whose correctness depends on the
order in which things happen: several threads and nodes over one Redis, a
Bitcoin chain that reorganises, gateways and routes that expire, callers that
crash or retry. TLC checks the models on small instances; TLAPS proves the most
important properties for every instance.

## How to run it

    tlc -workers 2 -config anchor_callers.cfg MCAssetAnchor
    tlapm AssetAnchorProofs.tla

`PROJECT.json` lists the components, runs, theorems, findings and hazards, maps
every definition that models code to the lines it stands for, and names for
every property a mutation of a mapped definition that breaks it. Operators whose
names end in `Mutant` are those mutations; no specification uses them.

## The system

Aurora is a swarm of Python nodes. Every node runs a dashboard process (HTTP
handlers in threads plus background loops) and optionally a worker. What nodes
share is in one Redis, reached through `CommsLayer`: keys, some with an expiry,
and publish/subscribe channels. There are no transactions: a component that
updates a structure reads it, changes it and writes it back.

| Component | State | Operations | Interacts with | Hard behaviour | What makes it correct | Models |
|---|---|---|---|---|---|---|
| Bitcoin anchor service `mods/btc_anchor` | anchor records, broadcast queue, retained observations (Redis) | record, request_broadcast, process_queue(_batched), apply_chain_progress, handle_reorg | chain view, artifact clock, epoch ticker, BVL attestation | stale copies written back, reorgs, illegal transitions midway through a pass | a record never claims what the chain does not hold; lost inclusions stay observed; deep anchors are confirmed | `AssetAnchor`, `AnchorLifecycle` |
| Chain view `mods/btc_anchor/chain.py` | blocks, mempool | mine, reorg, tx_location, confirmations | anchor service | reorgs to shorter branches that drop transactions | assumed environment of the above | `BitcoinChain` |
| Mesh delivery `comms/routing/service.py`, `connection.py`, `delivery.py` | peer health, calls under way | mesh_send_to, connect, ingest_acknowledgment | route table, the transport given to it | interleaved callers, late or foreign acknowledgments, retry budget | DELIVERED only when delivered; failed routes rest | `MeshDelivery` |
| Route table `comms/routing/route.py` | routes, hysteresis | discover, select, report success and failure, refresh | gateway registry, node registry | rediscovery while others report; routes that outlive their source | a gateway route rests on an authenticated live advertisement | `RouteTable` |
| Gateway registry `comms/routing/gateway.py` | advertisements, sequence floors | ingest, refresh, trim | route table | replay after expiry or trimming | sequence numbers only rise | `GatewayRegistry` |
| Resolver, address policy, egress `comms/routing/{destination,policy,egress}.py` | DNS cache, counters | classify, resolve, decide | delivery | stale address decisions | decisions are functions of their input | not modelled: string and address classification |
| Value ledger `mods/bvl`, tips `mods/ln_tips`, mining provenance `mods/mining_provenance` | balances, supply, claims, tip list, events, index (Redis) | reward_*, transfer, settle_to_sats, upgrade_evidence | dashboards, uptime loops, pools | non-atomic updates by several nodes, dropped events, crash between credit and claim | a claim that is set was paid; nothing is overdrawn; while calls come one by one, rewards are paid once and balances add up to the supply | `SwarmEconomy`, `ValueLedger`, `AtomicBooks` |
| Torrent protocol, verify-on-receive `mods/torrent_protocol` | dictionaries and files of a torrent, outstanding requests | create, announce, request, receive, maintain, assemble, resume | fabric, publish/subscribe | loss, damage, expiry against late answers, two threads, crashes while files are written | only verified pieces are held and none is lost; downloads finish | `TorrentSwarm`, `PieceStore` |
| Challenges, possession, repair `mods/asset_fabric/{challenge,possession_verify,peer_evidence,repair,repair_executor,topology}.py` | pending challenges, peer evidence, possession, topology | challenge, respond, list, plan, place | torrent protocol, node directory | late and foreign answers, timeouts, plans on stale listings | possession is what was verified; plans serve the policy | `PieceChallenge`, `RepairPlan` |
| Artifact history, manifests, clock `mods/asset_fabric/{fabric,history,btc_clock,artifact_clock}.py` | list of events per asset, manifest, claims (Redis); tracker | publish, ensure, anchor, complete, reorg | anchor service, torrent protocol | concurrent read-modify-write, operations cut short | gapless sequence numbers; only overlaps lose events | `AssetFabric` |
| Bitcoin epochs `mods/asset_fabric/{epoch,epoch_tick}.py` | epoch cursor, last snapshot | tick | anchor service | epochs skipped or ticked twice | one snapshot per epoch | not modelled: one call of the modelled `record` per epoch |
| Stratum client `mods/mining_engine/stratum_cpu.py` | current job and header, pending submissions, hit queue, counters | connect, handle lines, find, submit, reconnect, stop | pool, hash processes | four threads, a job change between hit and submission, late answers, reconnects | counters match the pool; a share is one job's; a lost connection returns | `StratumClient` |
| Mining engine, front end, governor `mods/{mining_engine,mine_governor}`, `dashboard/mining_standalone.py` | flags, cached engine, backend, command key | start, stop, rebuild, supervise, apply a command | Stratum client | starts that take seconds and stops that do not wait | never two sets of processes (which fails) | `MiningControl` |
| Control plane `control`, `dashboard/control_ops.py` | entities, adapters, desired and observed state, action results | register, heartbeat, quarantine, revoke, submit_action, reconcile, list | adapters, dashboard threads | listings on pool threads overlap the event loop; retries | a listing shows nothing silent as working; out of service stays so; retries change nothing | `ControlPlane`, `ControlState` |
| AEGIS-42 `mods/aegis_42` | seen ids, queue, identities, limits, audit chain | ingest, evaluate, contain, verify | lifecycle events, operators | full queue, forgotten ids, trimmed chain, events of a quarantined actor | events are accepted once; a quarantine lasts; the chain verifies exactly | `Aegis42`, `AegisPolicy`, `AuditChain` |
| Discovery, mesh join `comms/{discovery,mesh_join}.py`, `dashboard/mesh_heartbeat.py` | peers heard of, offers, current Redis, node records | beacon, listen, choose, join, heartbeat | comms layer | several joining threads, partial and old views, restarts, outages | moves lead one way; nodes converge | `MeshJoin` |
| Comms layer `comms/layer.py`, chat | node keys with expiry, lists | register, heartbeat, list, publish, reconnect | everything | expiry against heartbeat | listed nodes are alive | in `MeshJoin` and `PieceChallenge`; chat and commands not |
| Job ledger, share pipeline, pool connector `mods/mining_engine` | second path to a pool | submit, judge | pool | — | — | not modelled |
| Octopie boundary, viewer sessions `comms/{octopie,viewer}` | trust decisions, revocations, sessions | ingest, snapshot, create, evict | dashboard | decisions after revocations, full store | a revoked node is not trusted | not modelled yet |
| Evidence integrity, cross-repo contracts | dictionary by content hash | append, replicate | — | none: one process, idempotent keys | — | not modelled |
| Erasure coding, Merkle pieces, commitments, identity keys | none | encode, hash, sign | — | arithmetic and cryptography | — | not modelled: values of the other models |
| Dashboard, API, scheduler, sensing, loader, bridge, deployment | views and loops | HTTP, telemetry | everything | — | — | not modelled: their threads are the callers of the models |

`PROJECT.json` has the same list with the source files, and the hazards at their
lines; a hazard without a property has a note that says why.

## Bitcoin anchors

**Modules.** `BitcoinChain` is `SimulatedBitcoinChain`: the canonical chain as a
sequence of blocks, each a number nobody else has and the set of transactions it
holds; `Mine` and `Reorg` are `mine` and `reorg` with the mempool they empty.
`SeqFilter` has the list filtering of the queue, written so that it can be proved
about. `AssetAnchor` extends both. Its variables are the three kinds of Redis keys
(`recs`, `queue`, `observed`) and `job`, what each caller is in the middle of.

**Correspondence.** `RecordAsset`, `RequestBroadcast`, `ProcessQueue`,
`ProcessBatch` and `ChainProgress` are the methods of the same names. A pass takes
its list (the pending entries, or all records) once and holds it in `job`; each
item is a step of its own, and `BroadcastItem` stops where the broadcaster, an
external call, takes over: `UpgradeItem` is what follows its answer. `SyncRecord`
is `_sync_record_with_chain` on the copy the pass took, which is where stale
writes come from. `transition()` raises in the code; here the pass ends with
whatever was done before (the queue entry marked, the proof stored, nothing
submitted). Within one such step the code's several Redis commands are taken to
be atomic: that is the grain of the model.

A transaction is what it commits to, a commitment is the epoch it binds; hashing
and payload layout are left out. The null and command-line broadcasters are the
outcomes "fails" and "answers". `AnchorLifecycle` is the abstract specification:
the documented status machine of `lifecycle.py`, with readers seeing at most two
edges between readings; that a single caller's `AssetAnchor` implements it is both
checked and proved.

**Runs.**

| Run | Shows | Instance |
|---|---|---|
| `anchor_callers` | with two callers and stale copies: records never contradict themselves (`RecordsConsistent`), a lost inclusion is retained before it is forgotten (`DeposedIsObserved`), only burial to the confirmation depth confirms (`ConfirmedOnlyWhenDeep`) | 1 artifact, 2 callers, 3 blocks, depth 2 |
| `anchor_reorgs` | with one caller: accepted anchors commit to their own artifact (`AcceptedIsAnchored`), the lifecycle is implemented, observations accumulate, deep anchors are confirmed in the end | 1 artifact, 1 caller, 5 blocks, depth 2 |

*Bounds.* Three blocks are genesis, an inclusion and its replacement, enough for a
reorg that deposes a confirmed or included record while another caller holds a
copy of it; five allow re-anchoring and a second reorg, and reorgs that leave the
transaction on the chain but shallower. `QueueCap` 1 instead of 200 makes eviction
happen; one artifact suffices because records do not read each other, and the
theorems below hold for any number. Symmetry is used only among callers, in a run
without liveness properties. Deadlock is not checked: the bounds on blocks and
epochs stop the system.

*Fairness.* `DeepIsConfirmed` assumes strong fairness of `ChainProgress` and weak
fairness of the steps of a pass. Every reading of an asset's clock
(`get_asset_clock`) calls `apply_chain_progress` and the dashboard reads clocks as
long as it runs; strong fairness is needed because the caller may be busy with
another operation each time, and a pass that has begun runs to its end in the
same thread. Broadcasting is not assumed to happen.

**Proved** (`AssetAnchorProofs`), for any assets, callers,
depths, caps and bounds:

- `TypeCorrect`: the type invariant, strengthened with "a pass over the queue has
  an item left" (without it `Head` of the list has no type).
- `RecordsAreConsistent`: the invariant covers the stored records and every copy
  held by a pass, since a copy may be written back at any later time. The lemma
  `CopiesStep` says where a copy comes from, `RecsStep` (`Written`) every form a
  stored record can take in a step.
- `DeposedAreObserved`, from the two above and `ObservedStep`; keys name blocks
  (`KeyNamesBlock`), so a new observation replaces only one of the same block.
- `ConfirmsOnlyWhenDeep` and `ObservationsAreKept`, action properties from the same
  invariant.
- `AcceptedAreAnchored`, for one caller: `OwnInv` says that the transaction on the
  record and the one in the broadcaster's hands are the record's own or a batch,
  which needs that nobody re-records during the external call.
- `ServiceImplementsLifecycle`, for one caller: every step maps to a step of
  `AnchorLifecycle` or leaves the statuses alone. A status alone does not show why the
  next one is allowed, so the invariant adds that the copies a pass over the records has
  still to look at are the stored ones (`CopiesAreCurrent`; with several callers they are
  not, which is why the property is about one), and that an artifact without a record has
  no transaction (`NoneIsBare`). `LifecycleEdges` lists the edges the operations use, and
  each operation is one lemma on top of it.

*Only model-checked:* `DeepIsConfirmed` (liveness).

## Mesh delivery, routes and gateways

**Modules.** `GatewayRegistry` (advertisements, the sequence floor), extended by
`RouteTable` (routes, hysteresis), extended by `MeshDelivery` (peer health, the
delivery loop of `service.py`, the probe loop of `connection.py`). Time is
relative: advertisements, routes, cooldowns and holds carry the time they have
left and `Time` lowers them together.

**Correspondence.** A caller of `_deliver_with_recovery` runs from one call of
`mesh_send` to the next in one step: `NoMeshRoute`, `Dismiss`, `PassOver` and
`Transmit` are the ways a pass of the loop goes (each with the `select_route` it
begins with, which refreshes the registry and discovers routes again), `Refused`
and `Answered` what it makes of the answer. `ProbeRoute`, `ProbeAnother`,
`ProbeSucceeds`, `ProbeFails` and `ProbeNothing` are `ConnectionManager.connect`.
The tables are shared by all threads of the process. What `mesh_send` answers is
open: acceptance, a relay's or the recipient's claim, an acknowledgment of this
message or of another, one that does not verify; recipients are honest about
having a message, and a call that failed may have got through.

**Runs.**

| Run | Shows | Instance |
|---|---|---|
| `routing_callers` | `DeliveredArrived`: no acknowledgment of another message, relay or acceptance is taken for delivery; `FailedRoutesRest`: no caller uses a failed route again within its backoff, whoever discovers it anew; `RoutesRestOnAds`: gateway routes live on authenticated advertisements; `SequencesRise`: no replay enters the registry | a sender, a prober, one node, a mesh and a TCP gateway with room for one advertisement |

*Bounds.* Times are scaled: one unit of backoff, hold and lifetime and a route life
of two, so that every expiry falls before, with and after every other. The
thresholds of peer health (3 and 5 failures) are scaled to 1 and 2 and the retry
budget from 2 to 1. One sequence number per gateway already makes replay after
trimming and expiry possible; the theorem covers any number. `MaxMessages` 2 is
what an acknowledgment of an earlier message needs. Deadlock is not checked: messages are bounded.

**Proved** (`MeshProofs`), for any gateways, nodes, threads, times and bounds:

- `RoutesRestOnAdvertisements` and `SequenceNumbersRise`. The inductive invariant `IInv`
  joins `RegistryInv` (types, the floor covers everything ever listed, a listed
  authenticated advertisement lives no longer than the history `backed` says), `RouteInv`
  (a trusted gateway route lives no longer than `backed`) and `CallInv` (callers work on
  routes of the table). The route part needs the registry part because discovery copies
  lifetimes from advertisements. Each operation is reduced to one of four effects on the
  two tables (`SelectionStep`, `ReportStep`, an ingestion, time), so the operations of a
  caller need only one short lemma each.
- `FailedRoutesAlwaysRest`, with the invariant `Rests`: a route that according to
  the history has backoff left cools down in the table at least as long. Discovery is the
  step that might forget it; it merges with what the table has (`discover_routes`).
- `DeliveredMeansArrived`, with `Told`: outcomes are only ever set from an answer, and an
  answer that verifies for this message is one its recipient gave.

All properties of the run are proved.

## Value ledger, tips and mining evidence

**Modules.** `ValueLedger` has the keys of `mods/bvl` and the list of tips, and how
each is written. `SwarmEconomy` has the threads: those on which an `EconomyReactor` is
handed messages or its `pulse_uptime` is called, and every dashboard's event loop.
Its handlers await nothing, so one dashboard is one thread; reactor and dashboard
of one node, and all nodes, share only Redis. `CommsLayer` itself only subscribes:
the loop that hands messages to handlers is not in the repository, and is taken to
pass on `SwarmMessage` objects, as `subscribe` declares and the tests' bus does.
The reactor's handlers look for dictionaries, so `HearsEvent` pays nothing.
`AtomicBooks` is the abstract specification: a reward, a settlement and a transfer
each happen in one step, and a claim is rewarded once.

**Correspondence.** A step is one Redis command with the computing up to the next.
`calls[c]` is the call a thread is in: `at` names the command it is about to send,
`seen` and the three lists hold what it has read and will write back changed. A
reward goes `CheckClaim`, `ReadCredit`, `WriteCredit`, `ReadSupply`, `StoreSupply`,
`ReadEntries`, `WriteEntries`, `MarkClaim` (`reward_seed` with `_credit` and
`append`); a settlement debits, burns, tips and appends a second entry; a transfer
debits one node and credits another before the fee is burned. Upgrading mining
evidence writes the event and the index and then becomes a reward whose claim
names the event and its level (`maybe_credit_bvl`). `CutShort` is a process that
stops, or an exception nobody catches, between any two commands; the other steps
of `Fails` are the exceptions the code swallows, each with what it goes on with.

Amounts are whole units (the code has floats; the smallest policy value can be
taken as the unit), the index is one of the event lists in it, and the rejection
of malformed or oversized amounts happens before the first step. `paid`, `again`
and `orderly` are history: which claims were credited to a balance, which more than
once, and whether calls so far came one by one and ran to their end.

**Runs.**

| Run | Shows | Instance |
|---|---|---|
| `economy_callers` | under any overlap and failure: `NeverOverdrawn`, `ClaimsWerePaid`. While calls are orderly: `PaidOnce`, `BooksBalance` (the supply is the sum of the balances), `EntriesExplainBalances` (the ledger's entries recompute every balance), `EvidencePaysItsLevel`, and `LedgerIsAtomic`, the refinement of `AtomicBooks` | 2 nodes, a reactor and two dashboards, one with a fee, 3 calls, one asset, hour and event, failures |

*What is promised when.* The code takes no lock across nodes and repairs nothing,
so the books of overlapping or interrupted calls may be wrong, and two dashboards
that overlap can grant one claim twice (`ledger_service.py:148`); the properties say
so with `orderly` instead of leaving overlap out: the same run has the
overlaps and failures, and the unconditional properties hold through them.

*Bounds.* Three calls are what it takes to earn and spend, or to observe a share,
upgrade it and upgrade it again; two dashboards overlap any pair of calls, two
debits of one balance included. Rewards of 1 and 2, levels that pay 0 to 3, amounts of 1 and a fee of 1 at
one node make balances that cover an amount and not its fee. `MaxEntries` 3 and
`MaxTips` 1 let the lists overflow; `EntriesExplainBalances` stops where entries
may have been dropped. Deadlock is not checked: calls are bounded. No liveness is
claimed: nothing in the code retries.

**Refinement.** `LedgerIsAtomic` maps a call to the moment of its first balance
write: until its last write of balance and supply the mapping adds what is still
to come (`BalanceToBe`, `SupplyToBe`). `kept` of `AtomicBooks` is `orderly`; once it is
lost nothing is promised.

**Proved** (`SwarmEconomyProofs`), for any finite set of nodes and any threads, fees,
rewards, amounts, events and bounds: all properties of the run.

- `BalancesNeverOverdrawn`, `MarkedClaimsWerePaid` and `OrderlyClaimsArePaidOnce`, from
  `IInv`: `TypeOK` with three parts that neither property has by itself. `DebitInv`: a
  thread about to write a debit has read at least what it owes. `ClaimInv`: a thread
  beyond its credit carries a claim that was paid. `OnceInv`: while orderly at most one
  thread is busy, whatever is paid is claimed but for the claim it carries, and one that
  has passed the check carries an unpaid claim. Steps are proved through a few lemmas
  about the ways a call moves on (`Advance`, `GoesOn`, `StartKeeps`, `NothingPassed`).
- `EvidenceIsPaid`, with `EvidenceInv`: an event's claims name its owner and no level
  above the one it stands at, and the claim of that level is set or owed by the call
  under way (`Owes`).
- `SupplyIsHeld` and `EntriesExplain`, with `BooksInv`: between the commands of a call
  the books are off by exactly what the call has still to write (`ToPost`, `ToPay`,
  `ToList`), and what it has read is still there. Sums are over the nodes and over the
  entries of a list; `SumUpdate` and `ListedAppend` say what changing one balance or
  appending one entry does to them, and rest on the induction described under "What the provers do
  not reach".
- `CallsAreAtomic`: `SwarmEconomy` implements `AtomicBooks`. The refinement mapping shows
  a balance as it will be once the call is over, so each command but one is a stutter,
  and that one is the reward, transfer, burn or settlement in one step.

The assumptions on the constants are those of `ValueLedger` and `SwarmEconomy`: amounts
and rewards are positive, fees and credits natural, the first evidence level pays
nothing, the genesis matter is no event's, and the sentinels are no values.

## Torrent protocol

**Modules.** `PieceStore` is what one node keeps of one torrent: the dictionaries of its
`TorrentManager`, which a restart loses, and the files of its storage directory, with
what is read from them. `TorrentSwarm` has the nodes' threads and the messages between
them. Torrents share nothing but the message channels, so one is enough.

**Correspondence.** A node has a listener thread, which runs the message handlers one
at a time in the order messages come in, and workers: the maintenance thread, which is
also where a user's `ensure_asset` may run. (`CommsLayer` leaves the loop that hands
out messages to its host; the tests' bus has one.) They share the dictionaries without
a lock, so a method is cut where another thread can see what it did so far:
`start_download` is `Begin`, `Fetch`, `Adopt`, `Load`; `_fill_pipeline` is `FindStale`,
`Expire`, `Pick` and one `Ask` for each piece; the assembly is `Join`, `Forget`, one
`Unlink` for each piece file, `Save` and `Tell`; `create_torrent` and `announce` are `Create`,
`Keep`, `Record`, `Announce`. A pass of the maintenance thread goes `Tick`, `Settle`,
`Refill` around them. Every write of a file is a step, which may fail, and a crash
during it may leave the file short (`AfterCrash`); `Restart` is the constructor, which
finds what is on the disk and has missed the messages under way.

Bytes are "right" when their hash is the one of the metadata and "wrong" otherwise;
damaged bytes may come with a hash that fits them. Rarity only orders requests, so
`Pick` takes any of the missing pieces. Times are left open: a request may time out
whenever it was lost, and a bounded number of times when it was not.

**Run.** `torrent_swarm`: two nodes, one of which may have the original, two pieces, one
slot, two calls of users and two faults (a message lost or damaged, a write or a
publication that fails, a time-out too early, an expiry of the metadata key, a restart).

- `HeldCanBeServed`: whenever the listener is free, each piece in `have` is found right
  in memory, its piece file or the complete file, whatever was assembled, interrupted
  or damaged. While the assembly is between forgetting and unlinking this is not so for
  a piece whose file could not be written; nobody reads then.
- `PiecesStayOnDisk`: a piece that reached the disk stays there through assembly and
  crashes, unless the file it is in is being written again.
- `SavedIsHeldOrWanted`: a node with a metadata file holds every piece or wants the
  rest, after any restart. The file is written only when a torrent is created or
  finished: an unfinished download is forgotten by a restart, although
  `mods/torrent_protocol/README.md` lists a persistent wanted set and resuming.
- `CompletionIsPossession`: asset.complete, published even after a failed assembly, is
  published by a node that can serve every piece.
- `DownloadEnds`: a node that wants a torrent it knows, while another has all of it,
  does not wait for ever.

*The exception.* `create_torrent` may meet the assembly of the same torrent, on another
thread: the assembly empties the dictionary the create has filled, and the create's own
write of the complete file may then fail and leave it short. Such a node says it has a
torrent that it cannot send. `raced` remembers which creates met an assembly and
`Overwritten` names this state, which every property but `SavedIsHeldOrWanted` excepts. It
was the attempt to prove `HeldCanBeServed` that showed the case.

*Bounds.* One slot and two pieces make the threads compete for the slot and the second
piece wait for it; two faults are a crash and a failed write, a loss and an early
time-out, or two crashes in one assembly. The second node may publish the torrent while
it downloads it (`Creators`), and the first has the original or not (`Seeds`). Two calls
are a publication and a download, a request to the others, or publishing twice.
Calls and faults together are at most three (`MaxSteps`).
Deadlock is not checked: calls are bounded and everything may be done.

*Fairness.* Weak fairness of each thread, and of the time-outs and backoffs of a node
taken together: handlers do not
block, the maintenance thread passes every eight seconds and catches what a pass
raises. No fairness of users; the metadata key may expire (two hours) before a node
that wants the torrent has read it, which is why `DownloadEnds` asks that it is known.

**Proved** (`TorrentSwarmProofs`), for any nodes, pieces, threads and numbers of calls and
faults: `HeldIsServed`, `SavedIsKept`, `CompletionIsBacked` and `DiskKeepsPieces`. No
property is inductive, because each looks at a moment when somebody reads. The invariant
says where the bytes of every piece are at each stage: `Held`, in memory until the
assembly has put them in the complete file, then there and in no piece file that would
hide it unless it is about to be unlinked; `Assembly`, what the listener has done by the
stage it is in; `Creation`, what a create rests on while it is not raced; `Saved`, what a
metadata file stands for. Most operations do not touch pieces or files: they are shown
to move quietly (`MovesQuietly`, `Leaves`) and one lemma covers them all. *Only
model-checked:* `DownloadEnds` (liveness).

## Possession challenges and repair

**Modules.** `RepairPlan` has the planning: availability against the policy, repair
targets, shard placement over failure domains. They are functions of who is verified,
of the candidates and of the topology. `PieceChallenge` is one node's knowledge of one
asset: challenges, what they verify, scores, the directory of nodes in Redis, and the
repairs made of them.

**Correspondence.** `challenge()` blocks its thread: `Challenge` is what it does up to
the wait, `Finish` and `Expire` are the two ends of the wait. `_on_response` is cut
where the thread may come in between: `Receive` pops the pending challenge, `Judge`
verifies, scores and sets the event. An answer judged after its challenge has timed
out counts for its sender all the same, and both a success and a time-out are noted, as
in the code. `ListCandidates` and `StrikeStale` are `get_active_nodes`, `RunRepair` and
`PlaceShards` the executor, on whatever is verified by then. What is verified of a
node is never taken back when its pieces are lost (`Spoil`). A node that published no
place counts as domain "unknown". Nothing in `src/` calls `challenge()` itself, so
who is challenged, when and how often is open. The metadata of the asset is taken to
be known to the node that judges.

**Run.** `piece_challenges`: three peers (two in one failure domain, one of them unknown
to the topology) and the node itself, one piece, two challenges or transfers, one
repair, one passage of time and one loss or damage.

- `VerifiedWasProved`: what is verified of a node it has once sent undamaged, whatever
  is late, lost, damaged or sent by somebody else.
- `TrueIsOfTarget`: a challenge that returns true verified its own piece at its own
  target.
- `PlansServeThePolicy`: a repair asks as many candidates as the holders lack and no
  more, somebody when a floor is missed, and places shards on distinct nodes, new sites
  first.

*Bounds.* Two challenges let an answer of one meet the other's deadline; one record
that ages makes the listing stale between listing and striking. Deadlock is not
checked: everything is bounded. No liveness is claimed: nothing retries a challenge.

**Proved** (`FabricProofs`), for any nodes, pieces, topologies, policies and bounds:

- `HoldersProvedIt` and `TrueVerdictsAreOfTheTarget`. Neither property is inductive: the
  invariant adds that every message about a challenge, on its way or in the listener's
  hands, names the challenge's target and piece, and that a proving answer's piece is
  among those its sender has proved.
- `PlansAreSound`, that plans serve the policy. `TheBestFew` says that the members of a
  finite ordered set with fewer than `k` before them are `k`, or all of them; gain and
  name order the candidates, so the targets fill the gap (`TargetsFillTheGap`). For
  placements (`PlacementsAreGreedy`, `PlacementsSpread`): a node of a site not used yet gains 13, one of a
  used site at most 9, and it was a candidate at every earlier place. This needs
  `NestedSites`, that nodes of different sites share no power, network or rack; where
  they do, a node of a used site may gain more than one of a new site, and the code is
  meant to take it.

All properties of the run are proved.

## Artifact history

**Module.** `AssetFabric` is the facade of `fabric.py` for one asset: manifest, history,
claims in Redis, the tracker of each node. The anchor record moves as `AnchorLifecycle`
allows, which `AssetAnchor` is shown to implement; it is the interface of the two.

**Correspondence.** An operation is the list of steps it still has to do (`job[c].todo`),
and an append to the history is two, `Read` and `Write`. The clock an event is stamped
with is read when the operation begins, or again after anchoring, as in the code.
`StoreManifest` may do nothing: `_store_manifest` swallows exceptions. `Fails` and
`Restart` end an operation anywhere.

**Run.** `asset_history`: two threads of one node and one of another with its clock
switched off, two operations, one move of the anchor, of an expiry or a restart.

- `SequenceIsPosition`: however appends overlap, stop or fail, sequence numbers have
  neither gap nor duplicate.
- `LossNeedsOverlap`: events disappear only when two appends were between their read
  and their write. That they do then is the code's behaviour.

*Bounds.* Two operations are what an overlap takes, and each makes up to four events.
Deadlock is not checked: operations are bounded.

**Proved** (`FabricProofs`), for any nodes, threads, moves of the anchor and failures:
`HistoriesAreNumbered` and `HistoriesOnlyGrow`. The invariant `HistoryInv`: the stored
list is numbered by place, and so is the copy of every thread between its read and its
write; unless appends have overlapped there is one such copy and it is the stored list.
Reading sorts the list; no induction is needed, since a numbered list is in order and
sorting it by rank gives it back (`GetIsHistory`).

## Stratum client and mining control

**Modules.** `StratumClient` is `StratumCpuMiner` with its reader, watch and submitter
threads, the hash processes and a pool. `MiningControl` is what starts and stops it:
the front end's flags, the cached engine, the backend, the supervising loop, the
governor's command. Of a miner it keeps only what `running()` looks at.

**Correspondence.** In `StratumClient` a step goes from one call to the next, for only
`_job`, the header parts and the extranonce are under a lock: `HandleNotify` leaves
the reader in "rebuild", holding the lock, until `RebuildPrefix`; `TakeHit` reads the job
under it, `SubmitShare` sends, `NoteShare` enters the pending share when the answer may
be there already. A hit remembers the header it was found on. `MiningControl` cuts
`request_start`, `request_stop`, `rebuild_engine`, `MiningEngine.start` and
`CpuStratumBackend.start` and `stop` wherever another thread can come in, which is
nearly everywhere: `connect` takes up to twelve seconds. Offline mode, hashrates,
intensity, status texts, the bfgminer backend and automatic mining at start-up are left
out, and so is a header read while its bytes are being replaced.

**Runs.**

| Run | Shows | Instance |
|---|---|---|
| `stratum_client` | `CountedWasJudged`: counters never exceed what the pool judged, across reconnects; `ShareIsOneJob`; `HitIsNotPredated`: a hit never goes out as work of an older job; `Reconnects`: a lost connection is made again unless the miner is stopped | 2 connections, 2 jobs, of which the second may not parse, one change of difficulty, 2 hits, a queue of 1, one unread line |
| `mining_stacked` | violation: two sets of hash processes | an HTTP thread and the governor, 2 starts, engines and miners, 3 calls |

*Bounds.* Two connections and jobs make a late answer of the old connection meet a new
one, and a hit outlive its job; the queue of 1 drops hits. Deadlock is not checked:
connections, jobs and hits are bounded and `stop` ends the threads.

*Fairness.* Weak fairness of the watch, reader and submitter threads, which do not block
for ever (each wait has a time-out), and strong fairness of `Connect`, that the pool
takes a connection now and then; the pool never closes the last one. No fairness of the
pool's other actions, of hits or of `stop`.

**Proved** (`StratumClientProofs`), for any numbers of connections, jobs, hits and queue
places, and any order of answers: `CountsAreThePools`, `SharesAreOfOneJob` and
`HitsAreNotPredated`. The invariant adds what is on its way. `Counted`: the answers to
shares that wait in the inbox can be numbered so that each will be counted as the pool
judged it. `Numbered`: unread lines announce jobs newer than the current one, in order.
`Built`: the last header is of the last job announced, unless that did not parse or the
reader is about to build. `Hits`: what is hashed or queued is not newer than the header,
and has its extranonce only if it is of its job. `Ids`: a greeting never has the id of a
share, which is why its answer is not counted. *Only model-checked:* `Reconnects`
(liveness). Nothing is proved of `MiningControl`: its property fails.

## Control plane

**Modules.** `ControlState` has the store of desired and observed state and
`reconcile()`; `ControlPlane` the registry, the actions and the routes.

**Correspondence.** The POST handlers are coroutines that await only the request's
body: each is one step of the event loop (`Register`, `Heartbeat`, `ReportObserved`,
`RequestDesired`, `SubmitAction`). The GET handlers are plain functions, which FastAPI
runs on pool threads: a listing reads the time (`StartList`), looks at each record
(`Look`), writes what it found silent in a later step (`WriteSilence`) and answers with
the records as they are by then. `objects` holds every record ever made, since a
listing may write into one that has been replaced. `FindNoPlane` and `AssignPlane` are
`get_control_plane`, which looks and assigns without a lock: a plane made late replaces
the one the event loop has filled. Capabilities, content hashes and the audit of
anything but actions are left out.

**Run.** `control_callers`: two entities (symmetric), one listing thread, a threshold of
one tick in four, two things stored.

- `ListedWasHeard`: what a listing is about to show as working was heard within the
  threshold before the listing began, whatever happens to the record meanwhile.
- `OutUntilRegistered`: quarantine and revocation outlast heartbeats, observations and
  listings, but for one race the property names: a listing that looked at the entity
  before writes it back as silent.
- `RetriesChangeNothing`: a request with a known idempotency key changes no
  reconciliation, until a plane is made anew.

*Bounds.* Two ticks of silence and one more beyond twice the threshold reach both
kinds of silence. Deadlock is not checked: time and stores are bounded. The code
promises no liveness here.

**Proved** (`ControlPlaneProofs`), for any entities, readers, keys, thresholds and
bounds: `ListingsAreHeard`, `OutOfServiceLasts`, `RetriesAreHarmless`. The first needs that
no listing began later than now and nothing was heard later than now: then a record
that is beaten while it is listed is beaten in time.

## AEGIS-42

**Modules.** `AegisPolicy` (the default rules), `AuditChain` (the hash-chained log with its
cap), `Aegis42` (intake, identities, containment, operators).

**Correspondence.** `ingest()` runs to its end on its caller's thread, so `Ingest` and
`OnWorkerCreated` are one step each, with the decision, its containment and the audit
records. `Handle` keeps the order of the code: the limit an actor is under comes before
the policy. An id is remembered before the queue is looked at, so that an event dropped
by a full queue counts as seen. When too many ids are remembered an arbitrary half
stays (`Remembered`). The queue is never drained: no function of `src/` takes an event
off it. In `src/` the events come from the lifecycle hooks, the rest from tests; the
model ingests any, again and again. A record's hash is the number of its append and
`intact` says whether it still hashes to what it stores. The watchdog's advice, which
no decision uses, counters and the disabled instance are left out.

**Run.** `aegis_callers`: one worker, an event of each of four kinds (creation, use of a
tool, a forged message, a start), a queue and a memory of 3, a log of 3, a quarantine
of one tick, two ticks.

- `AcceptedOnce`: no event is in the queue twice, although ids are forgotten.
- `QuarantineHolds`: within the time of a quarantine every decision about the actor is
  a rate limit, unless an operator has set another limit.
- `IntegrityIsExact`: the chain verifies exactly as long as no record was changed and
  none was dropped; after the log was once trimmed it never verifies again.

*Bounds.* Four appends overflow the log; four events overflow queue and memory.
Deadlock is not checked: appends and time are bounded. The code promises no liveness.

**Proved** (`Aegis42Proofs`), for any events, identities, durations and capacities:

- `ChainVerifiesExactly`: record `i` of the log has number `head - Len(log) + i`, which an
  append, trimming included, preserves (`AppendChains`).
- `QuarantinesLast`: the log does not show limits, so the invariant joins them: until a
  quarantine is over the actor's limit holds at least as long. `AppendKeeps` says what a
  record may be for the log to stay good, and every operation appends such records.
- `NothingIsAcceptedTwice`: while the queue has room every id in it is remembered, since
  the memory is no smaller than the queue (`QueueAssumption`, true of 1000 and 5000) and
  forgets nothing before it is full.

## Mesh join

**Module.** `MeshJoin`: beacons, the choice of a leader, the move to its Redis, the
records of nodes. A node is its rank in the order of ids, a Redis the node it runs on.

**Correspondence.** `try_join_mesh` runs in several threads of a node: the loop and one
thread for each peer heard of for the first time, which forces the move. `Decide` is
the choice from what is known at that time, `Join` the move under the lock, later.
`Offer` keeps what a beacon carried when it was heard, which its sender may have left.
The loop does not leave a Redis with other active nodes (`OnSharedRedis`); a first
sighting before the hook is registered starts nothing (`FireNothing`). The joined url is
the one the comms layer has. `AURORA_MESH_REDIS`, which overrides the choice, is not set,
joining is switched on, and beacons are authentic. The run begins with nodes that have
started and not heard of one another.

**Run.** `mesh_join`: three nodes; two settings of loopback and LAN urls without faults,
one of LAN urls with a restart, an outage or a silence.

- `MovesLeadOneWay`: no node is on, or offers, the Redis of a node behind it.
- `ConvergesUnlessInCompany`: all end on the first node's Redis, unless two nodes keep
  one another company on another. That this split can be permanent is the code's
  behaviour, although `mesh_join.py:2` speaks of converging onto one Redis.

*Bounds.* Three nodes are the fewest of which two can stay apart from the leader.
Deadlock is not checked; beacons go on.

*Fairness.* Weak fairness of beacons, of the start of the loops, of a node's joining
threads, of records growing old, and of a Redis coming back: the loops pass every few
seconds whatever happens. Faults are bounded and not fair.

**Proved** (`MeshProofs`): `MovesAlwaysLeadOneWay`, for any number of nodes, settings and
faults. The invariant adds types, and that what peers have offered and where threads
mean to go is not behind the node either. *Only model-checked:*
`ConvergesUnlessInCompany` (liveness).

## Findings

The violation run is a place where the code does otherwise than a comment or a
document beside it says; `PROJECT.json` quotes both.

- `mining_stacked`: `MiningEngine.start` says "Idempotent — never stack duplicate
  worker threads." (`engine.py:87`), which `stratum_guard.py` is there to ensure. A stop
  between the connect and the spawning of a miner leaves processes that no engine
  holds, and the next start spawns a second set.

The models behave in further ways that a text beside the code does not expect. They
have no run of their own; the properties are stated so as to hold of what the code does.

- `anchor.py:452` takes a confirmed record back to INCLUDED when a reorg leaves it
  shallower, without `transition()`: `lifecycle.py:59` has no such edge.
  `AnchorLifecycle` has it.
- `mods/bvl/README.md:15`: each claim "is granted **at most once**". Lookup, credit and
  mark are separate Redis commands, so two threads or a crash between them grant it
  twice. `PaidOnce` promises it for calls that come one by one and finish.
- `mods/bvl/README.md:11`: `asset.complete` is rewarded. The reactor's handlers look for
  dictionaries (`economy.py:57`); of the `SwarmMessage` that `byzantine_receive.py:169`
  publishes they make an empty payload. `HearsEvent` pays nothing.
- `docs/ECOSYSTEM_CONTROL_PLANE.md:110`: "Actions against disconnected or quarantined
  entities are denied." `submit_action` denies quarantined and revoked ones
  (`plane.py:160`). `Verdict` does the same.
- `mods/aegis_42/policy.py:68`: "Quarantine on forged or invalid identity signatures". An
  actor that is rate-limited at the time gets the rate limit's answer before the policy
  is asked (`core.py:140`), and no quarantine follows. `Handle` has that order.

## What is not modelled, and why

Cryptography, hashing, erasure coding, string and address classification, HTTP,
templates and process management have no state that several actors share, and the
repository's unit tests reach them. Redis itself is taken to be sequentially
consistent and never to lose a write. The grain of atomicity is stated with each
module.

Of the parts with state, the trust boundary (`comms/octopie`) is a sequential
validator of what another system hands in, with a bounded table of sessions beside it,
and the job ledger with its share pipeline and pool connector is a second mining path
that the dashboard does not start: neither has been reached. The epoch ticker makes
one call of the anchor service for each epoch, and that call is modelled. Chat and the
workers' command lists are appended to and trimmed, and decide nothing.

## What the provers do not reach

Four properties of the passing runs are left to TLC: `DeepIsConfirmed`, `DownloadEnds`,
`Reconnects` and `ConvergesUnlessInCompany`. They are liveness properties, and fairness
means reasoning about when an action is ENABLED, which the backends do not do.
`NeverStacked`, the property of the violation run, is false.

Induction over data is out of reach as a rule, because the theorems of the library take
an operator as parameter. Where it was needed it is done in first order instead: if
the set of cases for which something fails is not empty, it has a least one (`LeastExists`,
`NatMin` for naturals, `NoSmallestBad` for subsets of a finite set; all from `WFMin` and
a well-foundedness theorem of the library). So it is proved that
`FoldFunction(+, 0, f)` does not depend on the order `CHOOSE` takes the elements in
(`SwarmEconomyProofs`), that choosing the best `k` of an ordered set yields `k`, and that
the recursive function of `Placements` is defined and greedy (`FabricProofs`).

Proof modules reach no recursive operator. Every theorem assumes no more of the constants than the
`ASSUME`s of the module it is about, which TLC evaluates in that module's run, except
three that name their hypothesis: `SingleCaller` (`AcceptedAreAnchored`,
`ServiceImplementsLifecycle`) and `NestedSites` (`PlansAreSound`). The instances of the
runs satisfy both.

## Plan

In this order, each with its own module or modules, instance and properties:

1. The trust boundary: decisions, revocations and snapshots of `comms/octopie`, and the
   table of viewer sessions at its limit.
2. Epochs on top of `AssetAnchor`: the cursor against reorgs and restarts.
3. The job ledger and share pipeline, and the bfgminer backend in `MiningControl`.

Abstract specifications worth stating: a download as a set of verified pieces that
only grows; an entity's standing as a function of the last decision about it. Theorems
worth proving, in the proof modules there are: that `TorrentSwarm` implements the first
and `ControlPlane` the second; the safety of `MiningControl` without a stop, where the
engines a backend holds are all there are; that routes a caller holds stay known.
