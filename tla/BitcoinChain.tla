---------------------------- MODULE BitcoinChain ----------------------------
(***************************************************************************)
(* The chain view of mods/btc_anchor/chain.py: SimulatedBitcoinChain, the  *)
(* only chain of the repository that can include a transaction.            *)
(*                                                                         *)
(* A block hash covers the block's parent, height, transactions and nonce, *)
(* and no two blocks with transactions share a parent and a nonce, so a    *)
(* block is modelled by a number nobody else has and by the transactions   *)
(* it holds; the hash is the block.  Transactions are opaque here.  Timestamps and work are      *)
(* informational in the code and are left out.                             *)
(***************************************************************************)
EXTENDS Naturals, Sequences

CONSTANTS
    MaxBlocks   \* bound: blocks ever produced, the genesis block included

ASSUME MaxBlocksAssumption == MaxBlocks \in Nat \ {0}

VARIABLES
    chain,      \* _canonical: the blocks from genesis to the tip
    mempool,    \* transactions submitted and not yet in a block
    minted      \* how many blocks exist, canonical and orphaned

chainVars == <<chain, mempool, minted>>

Genesis == [id |-> 1, txs |-> {}]

ChainInit ==
    /\ chain = <<Genesis>>
    /\ mempool = {}
    /\ minted = 1

TipHeight == Len(chain)

\* The positions at which a transaction is on the canonical chain.
Locations(tx) == {i \in DOMAIN chain : tx \in chain[i].txs}

\* tx_location searches from the tip down: the highest position wins.
IsLocation(tx, i) == i \in Locations(tx) /\ \A j \in Locations(tx) : j <= i

Confirmations(i) == TipHeight - i + 1

OnChain(tx) == Locations(tx) # {}

\* n new blocks numbered after those that exist: mine() empties the mempool,
\* so only the first of them holds transactions.
NewBlocks(n) ==
    [i \in 1..n |-> [id |-> minted + i, txs |-> IF i = 1 THEN mempool ELSE {}]]

\* mine and mine_n, one block at a time.
Mine ==
    /\ minted < MaxBlocks
    /\ chain' = chain \o NewBlocks(1)
    /\ mempool' = {}
    /\ minted' = minted + 1

\* reorg(fork_height, new_length): the blocks above the fork point leave the
\* canonical chain, their transactions are not put back, and the new branch
\* need not be longer than the old one.
Reorg(fork, n) ==
    /\ fork < TipHeight
    /\ minted + n <= MaxBlocks
    /\ chain' = SubSeq(chain, 1, fork) \o NewBlocks(n)
    /\ mempool' = {}
    /\ minted' = minted + n

ChainNext ==
    \/ Mine
    \/ \E fork \in 1..MaxBlocks, n \in 1..MaxBlocks : Reorg(fork, n)

=============================================================================
