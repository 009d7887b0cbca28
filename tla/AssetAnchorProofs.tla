------------------------- MODULE AssetAnchorProofs -------------------------
(***************************************************************************)
(* Theorems about AssetAnchor, for any assets, callers, depths and bounds: *)
(* type correctness, the consistency of the records, the retained          *)
(* observation of a deposed anchor, and what confirms an anchor.           *)
(***************************************************************************)
EXTENDS AssetAnchor, Integers, WellFoundedInduction, TLAPS

-----------------------------------------------------------------------------
(* What the list operators of the queue return.  Kept is recursive, so its *)
(* type is proved by induction on the length of the list; the induction    *)
(* principle is stated for sets of naturals, and follows from the          *)
(* well-foundedness of < on them.                                          *)

\* Every set of naturals that is not empty has a least element.
LEMMA NatMin ==
    ASSUME NEW T \in SUBSET Nat, T # {}
    PROVE  \E x \in T : \A y \in T : x <= y
<1> DEFINE R == OpToRel(<, Nat)
<1>1. IsWellFoundedOn(R, Nat)
  BY NatLessThanWellFounded
<1>2. \E x \in T : \A y \in T : ~ (<<y, x>> \in R)
  <2> HIDE DEF R
  <2> QED BY <1>1, WFMin
<1>3. \A x, y \in T : <<y, x>> \notin R => x <= y
  BY DEF OpToRel
<1> QED
  BY <1>2, <1>3

\* A set that holds 0 and the successor of each natural it holds has them all.
LEMMA NatSetInduction ==
    ASSUME NEW S, 0 \in S, \A n \in Nat : n \in S => n + 1 \in S
    PROVE  \A n \in Nat : n \in S
<1> SUFFICES ASSUME NEW m \in Nat, m \notin S PROVE FALSE
  OBVIOUS
<1> DEFINE T == {n \in Nat : n \notin S}
<1>1. T \in SUBSET Nat /\ T # {}
  OBVIOUS
<1>2. PICK x \in T : \A y \in T : x <= y
  BY <1>1, NatMin
<1>3. x # 0 /\ x - 1 \in Nat
  BY <1>2
<1>4. x - 1 \notin T
  BY <1>2, <1>3
<1> QED
  BY <1>3, <1>4

\* Filtering keeps only elements of the list that are in the set.
LEMMA KeptType ==
    ASSUME NEW A, NEW s \in Seq(A), NEW T
    PROVE  Kept(s, T) \in Seq(A \cap T)
<1> DEFINE D == 0..Len(s)
           Step(g, i) == IF i = 0 THEN << >>
                         ELSE IF s[i] \in T THEN Append(g[i - 1], s[i]) ELSE g[i - 1]
           f == CHOOSE g : g = [i \in D |-> Step(g, i)]
           Good(n) == {g \in [0..n -> Seq(A \cap T)] : \A i \in 0..n : g[i] = Step(g, i)}
           S == {n \in Nat : n <= Len(s) => Good(n) # {}}
<1>0. Len(s) \in Nat /\ \A i \in 1..Len(s) : s[i] \in A  OBVIOUS
<1>1. 0 \in S
  <2>1. [i \in 0..0 |-> << >>] \in Good(0) OBVIOUS
  <2> QED BY <2>1
<1>2. \A n \in Nat : n \in S => n + 1 \in S
  <2> SUFFICES ASSUME NEW n \in Nat, n + 1 <= Len(s), Good(n) # {} PROVE Good(n + 1) # {}
    <3> HIDE DEF Good
    <3> QED BY <1>0
  <2>1. PICK g \in [0..n -> Seq(A \cap T)] : \A i \in 0..n : g[i] = Step(g, i) OBVIOUS
  <2> DEFINE h == [i \in 0..(n + 1) |-> IF i <= n THEN g[i] ELSE Step(g, n + 1)]
  <2>2. Step(g, n + 1) \in Seq(A \cap T)
    <3>1. g[n] \in Seq(A \cap T) /\ s[n + 1] \in A BY <2>1, <1>0
    <3>2. Step(g, n + 1) = IF s[n + 1] \in T THEN Append(g[n], s[n + 1]) ELSE g[n] OBVIOUS
    <3> QED BY <3>1, <3>2
  <2>3. h \in [0..(n + 1) -> Seq(A \cap T)] BY <2>1, <2>2
  <2>4. ASSUME NEW i \in 0..(n + 1) PROVE h[i] = Step(h, i)
    <3>1. CASE i <= n
      <4>0. i \in 0..n BY <3>1
      <4>3. h[i] = g[i] BY <4>0
      <4>1. h[i] = Step(g, i) BY <4>0, <4>3, <2>1
      <4>2. i # 0 => h[i - 1] = g[i - 1] BY <3>1
      <4> QED BY <4>1, <4>2
    <3>2. CASE i = n + 1
      <4>1. h[i - 1] = g[i - 1] BY <3>2
      <4> QED BY <3>2, <4>1
    <3> QED BY <3>1, <3>2
  <2> QED BY <2>3, <2>4
<1>3. Good(Len(s)) # {}
  <2>1. \A n \in Nat : n \in S
    <3> HIDE DEF S
    <3> QED BY <1>1, <1>2, NatSetInduction
  <2>2. Len(s) \in S BY <2>1, <1>0
  <2> HIDE DEF Good
  <2> QED BY <2>2
<1>4. f = [i \in D |-> Step(f, i)]
  <2>1. PICK g : g \in Good(Len(s)) BY <1>3
  <2>2. g = [i \in D |-> Step(g, i)] BY <2>1
  <2> QED BY <2>2
<1> HIDE DEF f
<1>5. \A i \in D : f[i] = Step(f, i) BY <1>4
<1> DEFINE P == {n \in Nat : n <= Len(s) => f[n] \in Seq(A \cap T)}
<1>6. 0 \in P
  <2>1. f[0] = << >> BY <1>5, <1>0
  <2>2. f[0] \in Seq(A \cap T) BY <2>1
  <2> QED BY <2>2
<1>7. \A n \in Nat : n \in P => n + 1 \in P
  <2> SUFFICES ASSUME NEW n \in Nat, n + 1 <= Len(s), f[n] \in Seq(A \cap T)
               PROVE  f[n + 1] \in Seq(A \cap T)
    BY <1>0
  <2>1. f[n + 1] = IF s[n + 1] \in T THEN Append(f[n], s[n + 1]) ELSE f[n] BY <1>5, <1>0
  <2> QED BY <2>1, <1>0
<1>8. \A n \in Nat : n \in P
  <2> HIDE DEF P
  <2> QED BY <1>6, <1>7, NatSetInduction
<1>9. Kept(s, T) = f[Len(s)] BY DEF Kept, f
<1> QED BY <1>8, <1>9, <1>0

\* The first and the last entries of a list are entries of it.
LEMMA FirstOfType ==
    ASSUME NEW A, NEW s \in Seq(A), NEW n \in Nat
    PROVE  FirstOf(s, n) \in Seq(A)
BY DEF FirstOf

LEMMA LastOfType ==
    ASSUME NEW A, NEW s \in Seq(A), NEW n \in Nat
    PROVE  LastOf(s, n) \in Seq(A)
BY DEF LastOf

\* A list that has an entry has a first one.
LEMMA FirstOfNonempty ==
    ASSUME NEW A, NEW s \in Seq(A), NEW n \in Nat \ {0}, s # << >>
    PROVE  FirstOf(s, n) # << >>
<1>1. Len(s) \in Nat \ {0}
  OBVIOUS
<1>2. Len(s) > n => Len(SubSeq(s, 1, n)) = n
  BY <1>1
<1> QED
  BY <1>1, <1>2 DEF FirstOf

\* The tail of a list of more than one entry.
LEMMA TailNonempty ==
    ASSUME NEW A, NEW s \in Seq(A), s # << >>, Len(s) # 1
    PROVE  Tail(s) \in Seq(A) /\ Tail(s) # << >>
<1>0. Len(s) \in Nat \ {0}
  OBVIOUS
<1>1. Len(s) \in Nat /\ Len(s) > 1
  <2>1. \A n \in Nat \ {0} : n # 1 => n \in Nat /\ n > 1
    OBVIOUS
  <2> QED BY <1>0, <2>1
<1>2. Tail(s) \in Seq(A) /\ Len(Tail(s)) = Len(s) - 1
  OBVIOUS
<1>3. Len(Tail(s)) # Len(<< >>)
  BY <1>1, <1>2
<1> QED
  BY <1>2, <1>3

-----------------------------------------------------------------------------
(* Types of the helpers *)

LEMMA NoTxType == NoTx \in Tx
<1>1. << >> \in Seq(Leaf)
  OBVIOUS
<1> QED
  BY <1>1 DEF NoTx, Tx

LEMMA SoloTxType ==
    ASSUME NEW a \in Assets, NEW c \in Nat
    PROVE  SoloTx(a, c) \in Tx /\ ~SoloTx(a, c).batch /\ SoloTx(a, c) # NoTx
<1>1. <<LeafOf(a, c)>> \in Seq(Leaf) /\ <<LeafOf(a, c)>> # << >>
  <2>1. LeafOf(a, c) \in Leaf
    BY DEF LeafOf, Leaf
  <2> QED BY <2>1
<1> QED
  BY <1>1 DEF SoloTx, Tx, NoTx

LEMMA BatchTxType ==
    ASSUME NEW items \in Seq(Entry)
    PROVE  BatchTx(items) \in Tx /\ BatchTx(items).batch
<1>0. \A i \in 1..Len(items) : items[i] \in Entry
  OBVIOUS
<1>1. \A e \in Entry : LeafOf(e.asset, e.commitment) \in Leaf
  BY DEF Entry, LeafOf, Leaf
<1>2. [i \in 1..Len(items) |-> LeafOf(items[i].asset, items[i].commitment)] \in Seq(Leaf)
  BY <1>0, <1>1
<1> QED
  BY <1>2 DEF BatchTx, Tx

\* A fresh record, and the one that stands for no record, are records.
LEMMA FreshRecordType ==
    /\ \A c \in Nat : FreshRecord(c) \in Record
    /\ NoRecord \in Record
    /\ NoCopies \in [Assets -> Record]
<1>1. \A c \in Nat : FreshRecord(c) \in Record
  BY NoTxType DEF FreshRecord, Record, Statuses, Block, NoBlock
<1>2. NoRecord \in Record
  BY <1>1 DEF NoRecord, Record, Statuses
<1> QED
  BY <1>1, <1>2 DEF NoCopies

LEMMA IdleType == Idle \in Job
<1>1. << >> \in Seq(Entry)
  OBVIOUS
<1> QED
  BY <1>1, FreshRecordType, NoTxType DEF Idle, Job

LEMMA BroadcastRecordType ==
    ASSUME NEW r \in Record, NEW tx \in Tx
    PROVE  BroadcastRecord(r, tx) \in Record
BY DEF BroadcastRecord, Record, Statuses

LEMMA MarkedType ==
    ASSUME NEW assets, NEW s \in {"pending", "submitted"}, queue \in Seq(Entry)
    PROVE  Marked(queue, assets, s) \in Seq(Entry)
<1>1. \A i \in 1..Len(queue) : queue[i] \in Entry
  OBVIOUS
<1>2. \A e \in Entry : [e EXCEPT !.status = s] \in Entry
  BY DEF Entry
<1> HIDE DEF Entry
<1>3. \A i \in 1..Len(queue) :
        (IF queue[i].asset \in assets THEN [queue[i] EXCEPT !.status = s] ELSE queue[i]) \in Entry
  BY <1>1, <1>2
<1> QED
  BY <1>3 DEF Marked

LEMMA EnqueuedType ==
    ASSUME NEW a \in Assets, NEW c \in Nat, queue \in Seq(Entry)
    PROVE  Enqueued(a, c) \in Seq(Entry)
<1> DEFINE others == {e \in Entries(queue) : e.asset # a \/ e.status # "pending"}
           entry  == [asset |-> a, commitment |-> c, status |-> "pending"]
<1>1. Kept(queue, others) \in Seq(Entry \cap others)
  BY KeptType
<1>2. Kept(queue, others) \in Seq(Entry)
  <2> HIDE DEF others
  <2> QED BY <1>1
<1>3. entry \in Entry
  BY DEF Entry
<1>4. Append(Kept(queue, others), entry) \in Seq(Entry)
  <2> HIDE DEF others, entry
  <2> QED BY <1>2, <1>3
<1>5. QueueCap \in Nat
  BY AnchorAssumption
<1> HIDE DEF others, entry
<1>6. LastOf(Append(Kept(queue, others), entry), QueueCap) \in Seq(Entry)
  BY <1>4, <1>5, LastOfType
<1> QED
  BY <1>6 DEF Enqueued, others, entry

\* A pass takes entries of the queue, and at least one when one is pending.
LEMMA FirstPendingType ==
    ASSUME queue \in Seq(Entry)
    PROVE  /\ FirstPending \in Seq(Entry)
           /\ Pending # << >> => FirstPending # << >>
<1> DEFINE T == {e \in Entries(queue) : e.status = "pending"}
<1>1. Kept(queue, T) \in Seq(Entry \cap T)
  BY KeptType
<1>2. Pending \in Seq(Entry)
  <2>1. Kept(queue, T) \in Seq(Entry)
    <3> HIDE DEF T
    <3> QED BY <1>1
  <2> QED BY <2>1 DEF Pending
<1>3. MaxItems \in Nat \ {0}
  BY AnchorAssumption
<1> QED
  BY <1>2, <1>3, FirstOfType, FirstOfNonempty DEF FirstPending

-----------------------------------------------------------------------------
(* Type correctness *)

\* TypeOK is inductive once a pass over the queue is known to have items left.
PassHasItems ==
    \A c \in Callers : job[c].op \in {"queue", "batch"} => job[c].items # << >>

TypeInv == TypeOK /\ PassHasItems

ChainTypeOK == chain \in Seq(Block) /\ mempool \subseteq Tx /\ minted \in Nat

LEMMA NewBlocksType ==
    ASSUME NEW n \in Nat, ChainTypeOK
    PROVE  NewBlocks(n) \in Seq(Block)
<1>1. \A i \in 1..n : [id |-> minted + i, txs |-> IF i = 1 THEN mempool ELSE {}] \in Block
  BY DEF ChainTypeOK, Block
<1> QED
  BY <1>1 DEF NewBlocks

LEMMA ChainNextType ==
    ASSUME ChainTypeOK, ChainNext
    PROVE  ChainTypeOK'
<1>1. CASE Mine
  <2>1. NewBlocks(1) \in Seq(Block)
    BY NewBlocksType
  <2> QED BY <1>1, <2>1 DEF Mine, ChainTypeOK
<1>2. ASSUME NEW fork \in 1..MaxBlocks, NEW n \in 1..MaxBlocks, Reorg(fork, n)
      PROVE  ChainTypeOK'
  <2>0. fork \in Nat \ {0} /\ n \in Nat
    BY MaxBlocksAssumption
  <2>1. NewBlocks(n) \in Seq(Block)
    BY <2>0, NewBlocksType
  <2>2. SubSeq(chain, 1, fork) \in Seq(Block)
    <3>1. Len(chain) \in Nat /\ fork <= Len(chain)
      BY <1>2, <2>0 DEF Reorg, ChainTypeOK, TipHeight
    <3> QED BY <2>0, <3>1 DEF ChainTypeOK
  <2> QED BY <1>2, <2>0, <2>1, <2>2 DEF Reorg, ChainTypeOK
<1> QED
  BY <1>1, <1>2 DEF ChainNext

LEMMA InitTypeInv == Init => TypeInv
<1> SUFFICES ASSUME Init PROVE TypeInv
  OBVIOUS
<1>1. Genesis \in Block
  BY DEF Genesis, Block
<1>2. chain \in Seq(Block) /\ mempool \subseteq Tx /\ minted \in Nat
  BY <1>1 DEF Init, ChainInit
<1>3. queue \in Seq(Entry) /\ observed \subseteq Observation
  BY DEF Init
<1>4. recs \in [Assets -> Record] /\ job \in [Callers -> Job]
  BY FreshRecordType, IdleType DEF Init
<1>5. PassHasItems
  BY DEF Init, PassHasItems, Idle
<1> QED
  BY <1>2, <1>3, <1>4, <1>5 DEF TypeInv, TypeOK

\* A caller that ends a pass, or drops its first item, keeps a well-typed job.
LEMMA AfterItemType ==
    ASSUME NEW c \in Callers, NEW tx \in Tx, job[c] \in Job, job[c].items # << >>
    PROVE  /\ AfterItem(c, tx) \in Job
           /\ AfterItem(c, tx).op \in {"queue", "batch"} => AfterItem(c, tx).items # << >>
<1> DEFINE s == job[c].items
<1>1. s \in Seq(Entry) /\ s # << >>
  BY DEF Job
<1>2. Len(s) # 1 => Tail(s) \in Seq(Entry) /\ Tail(s) # << >>
  <2> HIDE DEF s
  <2> QED BY <1>1, TailNonempty
<1>3. CASE Len(s) = 1
  BY <1>3, IdleType DEF AfterItem, Idle
<1>4. CASE Len(s) # 1
  <2>1. AfterItem(c, tx) = [job[c] EXCEPT !.items = Tail(s), !.tx = tx]
    BY <1>4 DEF AfterItem
  <2> HIDE DEF s
  <2> QED BY <2>1, <1>2, <1>4 DEF Job
<1> QED
  BY <1>3, <1>4

\* The steps that change neither the queue passes nor the chain.
LEMMA RecordsType ==
    ASSUME TypeInv, NEW c \in Callers, NEW a \in Assets,
           \/ \E request \in BOOLEAN : RecordAsset(c, a, request)
           \/ RequestBroadcast(c, a)
    PROVE  TypeInv'
<1>0. TypeOK /\ PassHasItems
  BY DEF TypeInv
<1>1. ASSUME NEW request \in BOOLEAN, RecordAsset(c, a, request) PROVE TypeInv'
  <2> DEFINE commitment == CommitmentNow(a)
  <2>1. commitment \in Nat
    BY <1>0 DEF TypeOK, TipHeight, CommitmentNow
  <2>2. recs' \in [Assets -> Record]
    <3>1. recs' = [recs EXCEPT ![a] = FreshRecord(commitment)]
      BY <1>1 DEF RecordAsset
    <3> HIDE DEF commitment
    <3> QED BY <3>1, <2>1, <1>0, FreshRecordType DEF TypeOK
  <2>3. queue' \in Seq(Entry)
    <3>1. queue' = IF request THEN Enqueued(a, commitment) ELSE queue
      BY <1>1 DEF RecordAsset
    <3> HIDE DEF commitment
    <3> QED BY <3>1, <2>1, <1>0, EnqueuedType DEF TypeOK
  <2>4. UNCHANGED <<chain, mempool, minted, observed, job>>
    BY <1>1 DEF RecordAsset, chainVars
  <2> QED BY <2>2, <2>3, <2>4, <1>0 DEF TypeInv, TypeOK, PassHasItems
<1>2. ASSUME RequestBroadcast(c, a) PROVE TypeInv'
  <2>1. recs[a].commitment \in Nat /\ CommitmentNow(a) \in Nat
    BY <1>0 DEF TypeOK, Record, TipHeight, CommitmentNow
  <2>2. queue' \in Seq(Entry)
    <3>1. queue' = Enqueued(a, recs[a].commitment) \/ queue' = Enqueued(a, CommitmentNow(a))
      BY <1>2 DEF RequestBroadcast
    <3> QED BY <3>1, <2>1, <1>0, EnqueuedType DEF TypeOK
  <2>3. Requested(recs[a]) \in Record
    BY <1>0 DEF TypeOK, Record, Statuses, Requested
  <2>4. recs' \in [Assets -> Record]
    <3>1. \/ recs' = recs
          \/ recs' = [recs EXCEPT ![a] = Requested(recs[a])]
      BY <1>2, <1>0 DEF RequestBroadcast, TypeOK
    <3> QED BY <3>1, <2>3, <1>0 DEF TypeOK
  <2>5. UNCHANGED <<chain, mempool, minted, observed, job>>
    BY <1>2 DEF RequestBroadcast, chainVars
  <2> QED BY <2>2, <2>4, <2>5, <1>0 DEF TypeInv, TypeOK, PassHasItems
<1> QED
  BY <1>1, <1>2

\* What a step of a pass over the queue works on.
LEMMA HeadItem ==
    ASSUME TypeInv, NEW c \in Callers, job[c].op \in {"queue", "batch"}
    PROVE  /\ job[c] \in Job /\ job[c].tx \in Tx
           /\ job[c].items \in Seq(Entry) /\ job[c].items # << >>
           /\ Head(job[c].items).asset \in Assets
           /\ Head(job[c].items).commitment \in Nat
<1>1. job[c] \in Job /\ job[c].items # << >>
  BY DEF TypeInv, TypeOK, PassHasItems
<1>2. job[c].items \in Seq(Entry) /\ job[c].tx \in Tx
  BY <1>1 DEF Job
<1>3. Head(job[c].items) \in Entry
  BY <1>1, <1>2
<1>4. \A e \in Entry : e.asset \in Assets /\ e.commitment \in Nat
  BY DEF Entry
<1> QED
  BY <1>1, <1>2, <1>3, <1>4

\* What an upgrade writes: nothing when nothing is stored, else what the
\* lifecycle allows.
LEMMA UpgradeWrites ==
    ASSUME NEW a, NEW r, NEW tx, Upgrades(a)
    PROVE  \/ Upgraded(a, r, tx) = recs[a]
           \/ /\ Lifecycle!CanTransition(recs[a].status, "BROADCAST")
              /\ Upgraded(a, r, tx) = BroadcastRecord(r, tx)
BY DEF Upgrades, Upgraded

LEMMA QueueStepType ==
    ASSUME TypeInv, NEW c \in Callers,
           ProcessQueue(c) \/ BroadcastItem(c) \/ UpgradeItem(c)
    PROVE  TypeInv'
<1>0. TypeOK /\ PassHasItems
  BY DEF TypeInv
<1>1. CASE ProcessQueue(c)
  <2> DEFINE j == [Idle EXCEPT !.op = "queue", !.items = FirstPending]
  <2>1. job' = [job EXCEPT ![c] = j] /\ UNCHANGED <<chain, mempool, minted, recs, queue, observed>>
    BY <1>1 DEF ProcessQueue, chainVars
  <2>2. j \in Job /\ j.items # << >>
    <3>1. FirstPending \in Seq(Entry) /\ FirstPending # << >>
      BY <1>0, <1>1, FirstPendingType DEF ProcessQueue, TypeOK
    <3> QED BY <3>1, IdleType DEF Job, Idle
  <2> HIDE DEF j
  <2> QED BY <2>1, <2>2, <1>0 DEF TypeInv, TypeOK, PassHasItems
<1>2. CASE BroadcastItem(c)
  <2> DEFINE a == Head(job[c].items).asset
  <2>1. job[c].op = "queue" /\ UNCHANGED <<chain, mempool, minted, recs, observed>>
    BY <1>2 DEF BroadcastItem, chainVars
  <2>2. a \in Assets /\ job[c] \in Job /\ job[c].items # << >>
    BY <2>1, HeadItem
  <2>3. CASE queue' = Marked(queue, {a}, "pending") /\ job' = [job EXCEPT ![c] = AfterItem(c, NoTx)]
    <3>1. queue' \in Seq(Entry)
      BY <2>3, <1>0, MarkedType DEF TypeOK
    <3> QED BY <3>1, <2>1, <2>2, <2>3, <1>0, NoTxType, AfterItemType DEF TypeInv, TypeOK, PassHasItems
  <2>4. CASE queue' = queue /\ job' = [job EXCEPT ![c].tx = BroadcastTx(c)]
    <3>1. BroadcastTx(c) \in Tx
      <4>1. recs[a].commitment \in Nat /\ Head(job[c].items).commitment \in Nat
        BY <2>1, <2>2, <1>0, HeadItem DEF TypeOK, Record
      <4> QED BY <4>1, <2>2, SoloTxType DEF BroadcastTx
    <3> DEFINE j == [job[c] EXCEPT !.tx = BroadcastTx(c)]
    <3>2. j \in Job /\ j.items = job[c].items
      BY <3>1, <2>2 DEF Job
    <3>3. job' = [job EXCEPT ![c] = j]
      BY <2>4
    <3> HIDE DEF j
    <3> QED BY <3>2, <3>3, <2>1, <2>2, <2>4, <1>0 DEF TypeInv, TypeOK, PassHasItems
  <2> QED BY <1>2, <2>3, <2>4 DEF BroadcastItem
<1>3. CASE UpgradeItem(c)
  <2> DEFINE a == Head(job[c].items).asset
  <2>1. /\ job[c].op = "queue"
        /\ queue' = Marked(queue, {a}, "submitted")
        /\ UNCHANGED <<chain, minted, observed>>
    BY <1>3 DEF UpgradeItem
  <2>2. a \in Assets /\ job[c] \in Job /\ job[c].items # << >> /\ job[c].tx \in Tx
    BY <2>1, HeadItem
  <2>3. queue' \in Seq(Entry)
    BY <2>1, <1>0, MarkedType DEF TypeOK
  <2>4. recs' \in [Assets -> Record] /\ mempool' \subseteq Tx
    <3>1. \/ recs' = [recs EXCEPT ![a] = BroadcastRecord(recs[a], job[c].tx)]
             /\ mempool' = mempool \cup {job[c].tx}
          \/ /\ recs' = [recs EXCEPT ![a] = recs[a]]
             /\ mempool' = mempool \cup {job[c].tx}
          \/ recs' = recs /\ mempool' = mempool
      BY <1>3, UpgradeWrites DEF UpgradeItem
    <3> QED BY <3>1, <2>2, <1>0, BroadcastRecordType DEF TypeOK
  <2>5. job' \in [Callers -> Job] /\ PassHasItems'
    <3>1. job' = [job EXCEPT ![c] = AfterItem(c, NoTx)] \/ job' = [job EXCEPT ![c] = Idle]
      BY <1>3 DEF UpgradeItem
    <3>2. Idle.op \notin {"queue", "batch"}
      BY DEF Idle
    <3> QED BY <3>1, <3>2, <2>2, <1>0, NoTxType, AfterItemType, IdleType DEF TypeOK, PassHasItems
  <2> QED BY <2>1, <2>3, <2>4, <2>5, <1>0 DEF TypeInv, TypeOK
<1> QED
  BY <1>1, <1>2, <1>3

LEMMA BatchStepType ==
    ASSUME TypeInv, NEW c \in Callers, ProcessBatch(c) \/ BatchItem(c)
    PROVE  TypeInv'
<1>0. TypeOK /\ PassHasItems
  BY DEF TypeInv
<1>1. CASE ProcessBatch(c)
  <2> DEFINE items == FirstPending
             j == [Idle EXCEPT !.op = "batch", !.items = items, !.tx = BatchTx(items)]
  <2>1. UNCHANGED <<chain, mempool, minted, recs, observed>>
    BY <1>1 DEF ProcessBatch, chainVars
  <2>2. CASE queue' = Marked(queue, {items[i].asset : i \in DOMAIN items}, "pending") /\ job' = job
    <3>1. queue' \in Seq(Entry)
      BY <2>2, <1>0, MarkedType DEF TypeOK
    <3> QED BY <3>1, <2>1, <2>2, <1>0 DEF TypeInv, TypeOK, PassHasItems
  <2>3. CASE job' = [job EXCEPT ![c] = j] /\ queue' = queue
    <3>1. items \in Seq(Entry) /\ items # << >>
      BY <1>0, <1>1, FirstPendingType DEF ProcessBatch, TypeOK
    <3>2. BatchTx(items) \in Tx
      BY <3>1, BatchTxType
    <3>3. j \in Job /\ j.items # << >>
      <4> HIDE DEF items
      <4> QED BY <3>1, <3>2, IdleType DEF Job, Idle
    <3> HIDE DEF j
    <3> QED BY <3>3, <2>1, <2>3, <1>0 DEF TypeInv, TypeOK, PassHasItems
  <2> QED BY <1>1, <2>2, <2>3 DEF ProcessBatch
<1>2. CASE BatchItem(c)
  <2> DEFINE a == Head(job[c].items).asset
             withProof == WithProof(recs[a], job[c].tx)
  <2>1. /\ job[c].op = "batch"
        /\ queue' = Marked(queue, {a}, "submitted")
        /\ UNCHANGED <<chain, minted, observed>>
    BY <1>2 DEF BatchItem
  <2>2. a \in Assets /\ job[c] \in Job /\ job[c].items # << >> /\ job[c].tx \in Tx
    BY <2>1, HeadItem
  <2>3. queue' \in Seq(Entry)
    BY <2>1, <1>0, MarkedType DEF TypeOK
  <2>4. recs' \in [Assets -> Record] /\ mempool' \subseteq Tx
    <3>1. withProof \in Record
      BY <2>2, <1>0 DEF TypeOK, Record, WithProof
    <3>2. \/ recs' = [recs EXCEPT ![a] = BroadcastRecord(withProof, job[c].tx)]
          \/ recs' = [recs EXCEPT ![a] = recs[a]]
          \/ recs' = [recs EXCEPT ![a] = withProof]
      BY <1>2, UpgradeWrites DEF BatchItem
    <3>3. mempool' = mempool \cup {job[c].tx} \/ mempool' = mempool
      BY <1>2 DEF BatchItem
    <3> HIDE DEF withProof
    <3> QED BY <3>1, <3>2, <3>3, <2>2, <1>0, BroadcastRecordType DEF TypeOK
  <2>5. job' \in [Callers -> Job] /\ PassHasItems'
    <3>1. job' = [job EXCEPT ![c] = AfterItem(c, job[c].tx)] \/ job' = [job EXCEPT ![c] = Idle]
      BY <1>2 DEF BatchItem
    <3>2. Idle.op \notin {"queue", "batch"}
      BY DEF Idle
    <3> QED BY <3>1, <3>2, <2>2, <1>0, AfterItemType, IdleType DEF TypeOK, PassHasItems
  <2> QED BY <2>1, <2>3, <2>4, <2>5, <1>0 DEF TypeInv, TypeOK
<1> QED
  BY <1>1, <1>2

LEMMA SyncStepType ==
    ASSUME TypeInv, NEW c \in Callers,
           ChainProgress(c) \/ \E a \in Assets : SyncRecord(c, a)
    PROVE  TypeInv'
<1>0. TypeOK /\ PassHasItems
  BY DEF TypeInv
<1>1. CASE ChainProgress(c)
  <2> PICK listed \in Listings :
        /\ job' = [job EXCEPT ![c] = [Idle EXCEPT !.op = "sync",
                     !.copies = [a \in Assets |-> IF a \in listed THEN recs[a] ELSE NoRecord]]]
        /\ UNCHANGED <<chain, mempool, minted, recs, queue, observed>>
    BY <1>1 DEF ChainProgress, chainVars
  <2> DEFINE copies == [a \in Assets |-> IF a \in listed THEN recs[a] ELSE NoRecord]
             j == [Idle EXCEPT !.op = "sync", !.copies = copies]
  <2>1. job' = [job EXCEPT ![c] = j] /\ UNCHANGED <<chain, mempool, minted, recs, queue, observed>>
    OBVIOUS
  <2>3. copies \in [Assets -> Record]
    BY <1>0, FreshRecordType DEF TypeOK
  <2> HIDE DEF copies
  <2>2. j \in Job /\ j.op \notin {"queue", "batch"}
    BY <1>0, <2>3, IdleType DEF TypeOK, Job, Idle
  <2> HIDE DEF j
  <2> QED BY <2>1, <2>2, <1>0 DEF TypeInv, TypeOK, PassHasItems
<1>2. ASSUME NEW a \in Assets, SyncRecord(c, a) PROVE TypeInv'
  <2> DEFINE r == job[c].copies[a]
  <2>1. job[c].op = "sync" /\ job' = [job EXCEPT ![c] = AfterSync(c, a)]
        /\ UNCHANGED <<chain, mempool, minted, queue>>
    BY <1>2 DEF SyncRecord, chainVars
  <2>2. job[c] \in Job /\ job[c].copies \in [Assets -> Record] /\ r \in Record
    BY <1>0 DEF TypeOK, Job
  <2>3. AfterSync(c, a) \in Job /\ AfterSync(c, a).op \notin {"queue", "batch"}
    <3>1. [job[c].copies EXCEPT ![a] = NoRecord] \in [Assets -> Record]
      BY <2>2, FreshRecordType
    <3>2. [job[c] EXCEPT !.copies[a] = NoRecord] \in Job
          /\ [job[c] EXCEPT !.copies[a] = NoRecord].op = "sync"
      BY <3>1, <2>1, <2>2 DEF Job
    <3>3. Idle.op \notin {"queue", "batch"}
      BY DEF Idle
    <3> QED BY <3>2, <3>3, IdleType DEF AfterSync
  <2>4. recs' \in [Assets -> Record] /\ observed' \subseteq Observation
    <3>1. ASSUME NEW i \in Locations(r.txid), recs' = [recs EXCEPT ![a] = Settled(a, r, i)],
                 observed' = observed
          PROVE  recs' \in [Assets -> Record] /\ observed' \subseteq Observation
      <4>1. i \in 1..Len(chain) /\ Len(chain) \in Nat /\ chain[i] \in Block
        BY <3>1, <1>0 DEF Locations, TypeOK
      <4>2. Confirmations(i) \in Nat
        BY <4>1 DEF Confirmations, TipHeight
      <4>3. Settled(a, r, i) \in Record
        BY <4>1, <4>2, <2>2 DEF Settled, Record, Statuses, OnChainStatuses
      <4> QED BY <3>1, <4>3, <1>0 DEF TypeOK
    <3>2. ASSUME recs' = [recs EXCEPT ![a] = Deposed(r)], observed' = Retained(a, r)
          PROVE  recs' \in [Assets -> Record] /\ observed' \subseteq Observation
      <4>1. Deposed(r) \in Record
        BY <2>2 DEF Deposed, Record, Statuses
      <4>2. [asset |-> a, key |-> ObservationKey(a, r), block |-> r.block.id] \in Observation
        BY <2>2 DEF ObservationKey, Observation, Record, Block
      <4>3. observed' \subseteq Observation
        BY <3>2, <4>2, <1>0 DEF Retained, TypeOK
      <4> QED BY <3>2, <4>1, <4>3, <1>0 DEF TypeOK
    <3> QED BY <1>2, <3>1, <3>2, <1>0 DEF SyncRecord, TypeOK
  <2> QED BY <2>1, <2>3, <2>4, <1>0 DEF TypeInv, TypeOK, PassHasItems
<1> QED
  BY <1>1, <1>2

LEMMA NextTypeInv == TypeInv /\ [Next]_vars => TypeInv'
<1> SUFFICES ASSUME TypeInv, [Next]_vars PROVE TypeInv'
  OBVIOUS
<1>1. CASE ChainNext /\ UNCHANGED anchorVars
  <2>1. ChainTypeOK'
    BY <1>1, ChainNextType DEF TypeInv, TypeOK, ChainTypeOK
  <2> QED BY <1>1, <2>1 DEF TypeInv, TypeOK, ChainTypeOK, PassHasItems, anchorVars
<1>2. CASE UNCHANGED vars
  BY <1>2 DEF TypeInv, TypeOK, PassHasItems, vars
<1> QED
  BY <1>1, <1>2, RecordsType, QueueStepType, BatchStepType, SyncStepType DEF Next

\* Every variable keeps its type, and a pass over the queue that has begun
\* still has an item to work on: Head(items) is always defined.
THEOREM TypeCorrect == Spec => []TypeOK
<1>1. Init => TypeInv
  BY InitTypeInv
<1>2. TypeInv /\ [Next]_vars => TypeInv'
  BY NextTypeInv
<1>3. TypeInv => TypeOK
  BY DEF TypeInv
<1> QED
  BY <1>1, <1>2, <1>3, PTL DEF Spec

-----------------------------------------------------------------------------
(* What a step writes *)

\* The copies a pass holds are the records as they were, or were blanked.
LEMMA CopiesStep ==
    ASSUME TypeInv, [Next]_vars, NEW d \in Callers, NEW b \in Assets
    PROVE  job'[d].copies[b] \in {job[d].copies[b], recs[b], NoRecord}
<1>0. job \in [Callers -> Job] /\ \A c \in Callers : job[c].copies \in [Assets -> Record]
  BY DEF TypeInv, TypeOK, Job
<1>1. Idle.copies[b] = NoRecord
  BY DEF Idle, NoCopies
<1>2. \A c \in Callers : \A tx :
        AfterItem(c, tx).copies[b] \in {job[c].copies[b], NoRecord}
  BY <1>0, <1>1 DEF AfterItem, Job
<1>3. CASE UNCHANGED job
  BY <1>3
<1>4. ASSUME NEW c \in Callers,
             ProcessQueue(c) \/ BroadcastItem(c) \/ UpgradeItem(c) \/ ProcessBatch(c) \/ BatchItem(c)
      PROVE  job'[d].copies[b] \in {job[d].copies[b], recs[b], NoRecord}
  <2>1. CASE ProcessQueue(c)
    BY <2>1, <1>0, <1>1 DEF ProcessQueue, Idle
  <2>2. CASE BroadcastItem(c)
    <3>1. \A tx : [job[c] EXCEPT !.tx = tx].copies = job[c].copies
      BY DEF TypeInv, TypeOK, Job
    <3>2. CASE job' = [job EXCEPT ![c] = AfterItem(c, NoTx)]
      BY <3>2, <1>0, <1>2
    <3>3. ASSUME NEW tx, job' = [job EXCEPT ![c] = [job[c] EXCEPT !.tx = tx]]
          PROVE  job'[d].copies[b] \in {job[d].copies[b], recs[b], NoRecord}
      BY <3>1, <3>3, <1>0
    <3> QED BY <2>2, <3>2, <3>3 DEF BroadcastItem
  <2>3. CASE UpgradeItem(c)
    <3>1. job' = [job EXCEPT ![c] = AfterItem(c, NoTx)] \/ job' = [job EXCEPT ![c] = Idle]
      BY <2>3 DEF UpgradeItem
    <3> QED BY <3>1, <1>0, <1>1, <1>2
  <2>4. CASE ProcessBatch(c)
    BY <2>4, <1>0, <1>1 DEF ProcessBatch, Idle
  <2>5. CASE BatchItem(c)
    <3>1. job' = [job EXCEPT ![c] = AfterItem(c, job[c].tx)] \/ job' = [job EXCEPT ![c] = Idle]
      BY <2>5 DEF BatchItem
    <3> QED BY <3>1, <1>0, <1>1, <1>2
  <2> QED BY <1>4, <2>1, <2>2, <2>3, <2>4, <2>5
<1>5. ASSUME NEW c \in Callers, ChainProgress(c)
      PROVE  job'[d].copies[b] \in {job[d].copies[b], recs[b], NoRecord}
  BY <1>5, <1>0 DEF ChainProgress, Idle
<1>6. ASSUME NEW c \in Callers, NEW a \in Assets, SyncRecord(c, a)
      PROVE  job'[d].copies[b] \in {job[d].copies[b], recs[b], NoRecord}
  <2>1. job' = [job EXCEPT ![c] = AfterSync(c, a)]
    BY <1>6 DEF SyncRecord
  <2>2. AfterSync(c, a) \in {Idle, [job[c] EXCEPT !.copies[a] = NoRecord]}
    BY DEF AfterSync
  <2>3. [job[c] EXCEPT !.copies[a] = NoRecord].copies[b] \in {job[c].copies[b], NoRecord}
    BY <1>0 DEF Job
  <2> QED BY <2>1, <2>2, <2>3, <1>0, <1>1
<1>7. ASSUME NEW c \in Callers, NEW a \in Assets,
             (\E request \in BOOLEAN : RecordAsset(c, a, request)) \/ RequestBroadcast(c, a)
      PROVE  UNCHANGED job
  BY <1>7 DEF RecordAsset, RequestBroadcast
<1>8. CASE ChainNext /\ UNCHANGED anchorVars
  BY <1>8, <1>3 DEF anchorVars
<1>9. CASE UNCHANGED vars
  BY <1>9, <1>3 DEF vars
<1> QED
  BY <1>3, <1>4, <1>5, <1>6, <1>7, <1>8, <1>9 DEF Next

\* What a step may write to a record: the services never write anything else.
Written(b, r) ==
    \/ r = recs[b]
    \/ \E n \in Nat : r = FreshRecord(n)
    \/ /\ recs[b].status \in WaitingToBroadcast
       /\ r = Requested(recs[b])
    \/ \E c \in Callers :
         /\ job[c].op = "queue" /\ job[c].tx # NoTx /\ b = Head(job[c].items).asset
         /\ Lifecycle!CanTransition(recs[b].status, "BROADCAST")
         /\ r = BroadcastRecord(recs[b], job[c].tx)
    \/ \E c \in Callers :
         /\ job[c].op = "batch" /\ b = Head(job[c].items).asset
         /\ \/ r = WithProof(recs[b], job[c].tx)
            \/ /\ Lifecycle!CanTransition(recs[b].status, "BROADCAST")
               /\ r = BroadcastRecord(WithProof(recs[b], job[c].tx), job[c].tx)
    \/ \E c \in Callers :
         /\ job[c].op = "sync" /\ b \in ToSync(c)
         /\ \E i \in Locations(job[c].copies[b].txid) :
              /\ IsLocation(job[c].copies[b].txid, i)
              /\ r = Settled(b, job[c].copies[b], i)
              /\ UNCHANGED <<chain, observed>>
    \/ \E c \in Callers :
         /\ job[c].op = "sync" /\ b \in ToSync(c)
         /\ job[c].copies[b].status \in OnChainStatuses
         /\ r = Deposed(job[c].copies[b])
         /\ observed' = Retained(b, job[c].copies[b])

LEMMA RecsStep ==
    ASSUME TypeInv, [Next]_vars, NEW b \in Assets
    PROVE  Written(b, recs'[b])
<1>0. recs \in [Assets -> Record]
  BY DEF TypeInv, TypeOK
<1>1. CASE UNCHANGED recs
  BY <1>1 DEF Written
<1>2. ASSUME NEW c \in Callers, NEW a \in Assets, NEW request \in BOOLEAN, RecordAsset(c, a, request)
      PROVE  Written(b, recs'[b])
  <2> DEFINE n == CommitmentNow(a)
  <2>1. n \in Nat
    BY DEF TypeInv, TypeOK, TipHeight, CommitmentNow
  <2>2. recs' = [recs EXCEPT ![a] = FreshRecord(n)]
    BY <1>2 DEF RecordAsset
  <2> HIDE DEF n
  <2>3. recs'[b] = recs[b] \/ recs'[b] = FreshRecord(n)
    BY <2>2, <1>0
  <2> QED BY <2>1, <2>3 DEF Written
<1>3. ASSUME NEW c \in Callers, NEW a \in Assets, RequestBroadcast(c, a)
      PROVE  Written(b, recs'[b])
  <2>1. \/ recs' = recs
        \/ /\ recs[a].status \in WaitingToBroadcast
           /\ recs' = [recs EXCEPT ![a] = Requested(recs[a])]
    BY <1>3, <1>0 DEF RequestBroadcast
  <2> QED BY <2>1, <1>0 DEF Written
<1>4. ASSUME NEW c \in Callers, UpgradeItem(c)
      PROVE  Written(b, recs'[b])
  <2> DEFINE a == Head(job[c].items).asset
  <2>1. /\ job[c].op = "queue" /\ job[c].tx # NoTx
        /\ \/ recs' = recs
           \/ recs' = [recs EXCEPT ![a] = recs[a]]
           \/ /\ Lifecycle!CanTransition(recs[a].status, "BROADCAST")
              /\ recs' = [recs EXCEPT ![a] = BroadcastRecord(recs[a], job[c].tx)]
    BY <1>4, UpgradeWrites DEF UpgradeItem
  <2>2. \/ recs'[b] = recs[b]
        \/ /\ b = a /\ Lifecycle!CanTransition(recs[b].status, "BROADCAST")
           /\ recs'[b] = BroadcastRecord(recs[b], job[c].tx)
    BY <2>1, <1>0
  <2> QED BY <2>1, <2>2 DEF Written
<1>5. ASSUME NEW c \in Callers, BatchItem(c)
      PROVE  Written(b, recs'[b])
  <2> DEFINE a == Head(job[c].items).asset
             withProof == WithProof(recs[a], job[c].tx)
  <2>1. /\ job[c].op = "batch"
        /\ \/ recs' = [recs EXCEPT ![a] = withProof]
           \/ recs' = [recs EXCEPT ![a] = recs[a]]
           \/ /\ Lifecycle!CanTransition(recs[a].status, "BROADCAST")
              /\ recs' = [recs EXCEPT ![a] = BroadcastRecord(withProof, job[c].tx)]
    BY <1>5, UpgradeWrites DEF BatchItem
  <2> HIDE DEF withProof
  <2>2. \/ recs'[b] = recs[b]
        \/ b = a /\ recs'[b] = withProof
        \/ /\ b = a /\ Lifecycle!CanTransition(recs[b].status, "BROADCAST")
           /\ recs'[b] = BroadcastRecord(withProof, job[c].tx)
    BY <2>1, <1>0
  <2> QED BY <2>1, <2>2 DEF Written, withProof
<1>6. ASSUME NEW c \in Callers, NEW a \in Assets, SyncRecord(c, a)
      PROVE  Written(b, recs'[b])
  <2> DEFINE r == job[c].copies[a]
  <2>0. job[c].op = "sync" /\ a \in ToSync(c) /\ chain' = chain
    BY <1>6 DEF SyncRecord, chainVars
  <2>1. ASSUME NEW i \in Locations(r.txid), IsLocation(r.txid, i), observed' = observed,
               recs' = [recs EXCEPT ![a] = Settled(a, r, i)]
        PROVE  Written(b, recs'[b])
    <3>1. recs'[b] = recs[b] \/ (b = a /\ recs'[b] = Settled(a, r, i))
      BY <2>1, <1>0
    <3>2. CASE recs'[b] = recs[b]
      BY <3>2 DEF Written
    <3>3. CASE b = a /\ recs'[b] = Settled(a, r, i)
      BY <3>3, <2>0, <2>1 DEF Written
    <3> QED BY <3>1, <3>2, <3>3
  <2>2. ASSUME r.status \in OnChainStatuses, recs' = [recs EXCEPT ![a] = Deposed(r)],
               observed' = Retained(a, r)
        PROVE  Written(b, recs'[b])
    <3>1. recs'[b] = recs[b] \/ (b = a /\ recs'[b] = Deposed(r))
      BY <2>2, <1>0
    <3> QED BY <3>1, <2>0, <2>2 DEF Written
  <2> QED BY <1>1, <1>6, <2>1, <2>2 DEF SyncRecord
<1>7. ASSUME NEW c \in Callers,
             ProcessQueue(c) \/ BroadcastItem(c) \/ ProcessBatch(c) \/ ChainProgress(c)
      PROVE  UNCHANGED recs
  BY <1>7 DEF ProcessQueue, BroadcastItem, ProcessBatch, ChainProgress
<1>8. CASE ChainNext /\ UNCHANGED anchorVars
  BY <1>8, <1>1 DEF anchorVars
<1>9. CASE UNCHANGED vars
  BY <1>9, <1>1 DEF vars
<1> QED
  BY <1>1, <1>2, <1>3, <1>4, <1>5, <1>6, <1>7, <1>8, <1>9 DEF Next

\* Only the step that deposes a record touches the retained observations.
LEMMA ObservedStep ==
    ASSUME TypeInv, [Next]_vars
    PROVE  \/ observed' = observed
           \/ \E a \in Assets, c \in Callers :
                /\ job[c].copies[a].status \in OnChainStatuses
                /\ recs' = [recs EXCEPT ![a] = Deposed(job[c].copies[a])]
                /\ observed' = Retained(a, job[c].copies[a])
<1>1. ASSUME NEW c \in Callers, NEW a \in Assets, SyncRecord(c, a)
      PROVE  \/ observed' = observed
             \/ /\ job[c].copies[a].status \in OnChainStatuses
                /\ recs' = [recs EXCEPT ![a] = Deposed(job[c].copies[a])]
                /\ observed' = Retained(a, job[c].copies[a])
  BY <1>1 DEF SyncRecord
<1>2. ASSUME NEW c \in Callers, NEW a \in Assets,
             (\E request \in BOOLEAN : RecordAsset(c, a, request)) \/ RequestBroadcast(c, a)
      PROVE  observed' = observed
  BY <1>2 DEF RecordAsset, RequestBroadcast
<1>3. ASSUME NEW c \in Callers,
             \/ ProcessQueue(c) \/ BroadcastItem(c) \/ UpgradeItem(c)
             \/ ProcessBatch(c) \/ BatchItem(c) \/ ChainProgress(c)
      PROVE  observed' = observed
  BY <1>3 DEF ProcessQueue, BroadcastItem, UpgradeItem, ProcessBatch, BatchItem, ChainProgress
<1> QED
  BY <1>1, <1>2, <1>3 DEF Next, vars, anchorVars

\* What the writes above leave and what they change.
LEMMA WriteFacts ==
    ASSUME NEW r \in Record, NEW b \in Assets
    PROVE  /\ \A n : FreshRecord(n).status = "COMMITMENT_PENDING"
           /\ \A tx : /\ WithProof(r, tx).status = r.status
                      /\ WithProof(r, tx).block = r.block
                      /\ WithProof(r, tx).txid = r.txid
                      /\ WithProof(r, tx).commitment = r.commitment
           /\ Requested(r).status = "COMMITMENT_PENDING"
           /\ \A tx : BroadcastRecord(r, tx).status = "BROADCAST"
           /\ \A tx : BroadcastRecord(WithProof(r, tx), tx).status = "BROADCAST"
           /\ \A i : Settled(b, r, i).status \in OnChainStatuses
           /\ Deposed(r).status = "RE_ANCHOR_REQUIRED" /\ Deposed(r).block = r.block
BY DEF Record, FreshRecord, Requested, WithProof, BroadcastRecord, Settled, Deposed,
       OnChainStatuses

-----------------------------------------------------------------------------
(* The records *)

LEMMA FreshConsistent ==
    ASSUME NEW b \in Assets, NEW n
    PROVE  Consistent(b, FreshRecord(n)) /\ Consistent(b, NoRecord)
BY DEF Consistent, FreshRecord, NoRecord, OnChainStatuses

LEMMA NextConsistent ==
    ASSUME TypeInv, RecordsConsistent, [Next]_vars
    PROVE  RecordsConsistent'
<1> SUFFICES ASSUME NEW b \in Assets
             PROVE  /\ Consistent(b, recs'[b])
                    /\ \A d \in Callers : Consistent(b, job'[d].copies[b])
  BY DEF RecordsConsistent, Consistent
<1>0. /\ recs[b] \in Record /\ Consistent(b, recs[b])
      /\ \A d \in Callers : job[d].copies[b] \in Record /\ Consistent(b, job[d].copies[b])
  BY DEF TypeInv, TypeOK, Job, RecordsConsistent
<1>1. \A d \in Callers : Consistent(b, job'[d].copies[b])
  BY <1>0, CopiesStep, FreshConsistent
<1>2. Consistent(b, recs'[b])
  <2> DEFINE r == recs'[b]
  <2>0. Written(b, r)
    BY RecsStep
  <2>1. CASE r = recs[b]
    BY <2>1, <1>0
  <2>2. ASSUME NEW n \in Nat, r = FreshRecord(n) PROVE Consistent(b, r)
    BY <2>2, FreshConsistent
  <2>3. CASE /\ recs[b].status \in WaitingToBroadcast
             /\ r = Requested(recs[b])
    BY <2>3, <1>0 DEF Consistent, OnChainStatuses, WaitingToBroadcast, Requested, Record
  <2>4. ASSUME NEW tx,
               r \in {BroadcastRecord(recs[b], tx), BroadcastRecord(WithProof(recs[b], tx), tx)}
        PROVE  Consistent(b, r)
    BY <2>4, <1>0 DEF Consistent, OnChainStatuses, BroadcastRecord, WithProof, Record
  <2>5. ASSUME NEW tx, r = WithProof(recs[b], tx) PROVE Consistent(b, r)
    BY <2>5, <1>0 DEF Consistent, WithProof, Record
  <2>6. ASSUME NEW c \in Callers, NEW i \in Locations(job[c].copies[b].txid),
               r = Settled(b, job[c].copies[b], i)
        PROVE  Consistent(b, r)
    <3>1. job[c].copies[b].txid \in chain[i].txs
      BY <2>6 DEF Locations
    <3> QED BY <3>1, <2>6, <1>0 DEF Consistent, OnChainStatuses, Settled, Record
  <2>7. ASSUME NEW c \in Callers, job[c].copies[b].status \in OnChainStatuses,
               r = Deposed(job[c].copies[b])
        PROVE  Consistent(b, r)
    BY <2>7, <1>0 DEF Consistent, OnChainStatuses, Deposed, Record
  <2> QED BY <2>0, <2>1, <2>2, <2>3, <2>4, <2>5, <2>6, <2>7 DEF Written
<1> QED
  BY <1>1, <1>2

\* A record claims canonical, confirmed or deposed only together with what
\* backs the claim, whichever callers wrote it, from however stale a copy.
THEOREM RecordsAreConsistent == Spec => []RecordsConsistent
<1> DEFINE Inv == TypeInv /\ RecordsConsistent
<1>1. Init => Inv
  BY InitTypeInv, FreshConsistent DEF Init, RecordsConsistent, NoCopies, Idle
<1>2. Inv /\ [Next]_vars => Inv'
  BY NextTypeInv, NextConsistent
<1>3. Inv => RecordsConsistent
  OBVIOUS
<1> QED
  BY <1>1, <1>2, <1>3, PTL DEF Spec

LEMMA NextDeposedIsObserved ==
    ASSUME TypeInv, RecordsConsistent, DeposedIsObserved, [Next]_vars
    PROVE  DeposedIsObserved'
<1> SUFFICES ASSUME NEW b \in Assets, recs'[b].status = "RE_ANCHOR_REQUIRED"
             PROVE  \E o \in observed' : o.asset = b /\ o.block = recs'[b].block.id
  BY DEF DeposedIsObserved
<1>0. recs \in [Assets -> Record] /\ \A d \in Callers : job[d].copies[b] \in Record
  BY DEF TypeInv, TypeOK, Job
<1>1. CASE recs[b].status = "RE_ANCHOR_REQUIRED" /\ recs'[b].block = recs[b].block
           /\ observed' = observed
  BY <1>1 DEF DeposedIsObserved
<1>3. ASSUME NEW r \in Record, recs'[b] = Deposed(r), observed' = Retained(b, r)
      PROVE  \E o \in observed' : o.asset = b /\ o.block = recs'[b].block.id
  <2>1. Deposed(r).block = r.block
    BY DEF Deposed, Record
  <2> DEFINE o == [asset |-> b, key |-> ObservationKey(b, r), block |-> r.block.id]
  <2>2. o \in observed'
    BY <1>3 DEF Retained
  <2>3. o.asset = b /\ o.block = recs'[b].block.id
    BY <1>3, <2>1
  <2> QED BY <2>2, <2>3
<1>4. CASE observed' = observed
  <2>0. Written(b, recs'[b])
    BY RecsStep
  <2>1. \/ recs'[b] = recs[b]
        \/ \E c \in Callers : recs'[b] = WithProof(recs[b], job[c].tx)
        \/ \E c \in Callers :
             /\ job[c].copies[b].status \in OnChainStatuses
             /\ recs'[b] = Deposed(job[c].copies[b])
             /\ observed' = Retained(b, job[c].copies[b])
    BY <2>0, <1>0, WriteFacts DEF Written, OnChainStatuses
  <2>2. CASE recs'[b] = recs[b]
    BY <2>2, <1>1, <1>4
  <2>3. ASSUME NEW c \in Callers, recs'[b] = WithProof(recs[b], job[c].tx)
        PROVE  \E o \in observed' : o.asset = b /\ o.block = recs'[b].block.id
    BY <2>3, <1>0, <1>1, <1>4, WriteFacts
  <2> QED BY <2>1, <2>2, <2>3, <1>0, <1>3
<1>5. ASSUME NEW a \in Assets, NEW c \in Callers,
             recs' = [recs EXCEPT ![a] = Deposed(job[c].copies[a])],
             observed' = Retained(a, job[c].copies[a])
      PROVE  \E o \in observed' : o.asset = b /\ o.block = recs'[b].block.id
  <2>1. CASE a = b
    BY <2>1, <1>5, <1>0, <1>3
  <2>2. CASE a # b
    <3>1. recs'[b] = recs[b]
      BY <2>2, <1>5, <1>0
    <3>2. PICK o \in observed : o.asset = b /\ o.block = recs[b].block.id
      BY <3>1 DEF DeposedIsObserved
    <3>3. o \in observed'
      BY <3>2, <2>2, <1>5 DEF Retained
    <3> QED BY <3>1, <3>2, <3>3
  <2> QED BY <2>1, <2>2
<1> QED
  BY <1>4, <1>5, ObservedStep

\* A record that has to be anchored again has its lost inclusion retained, for
\* artifacts and bare commitments alike and under any interleaving of callers.
THEOREM DeposedAreObserved == Spec => []DeposedIsObserved
<1> DEFINE Inv == TypeInv /\ RecordsConsistent /\ DeposedIsObserved
<1>1. Init => Inv
  <2>1. Init => DeposedIsObserved
    BY DEF Init, DeposedIsObserved, NoCopies, NoRecord, FreshRecord
  <2> QED BY <2>1, InitTypeInv, FreshConsistent DEF Init, RecordsConsistent, NoCopies, Idle
<1>2. Inv /\ [Next]_vars => Inv'
  BY NextTypeInv, NextConsistent, NextDeposedIsObserved
<1>3. Inv => DeposedIsObserved
  OBVIOUS
<1> QED
  BY <1>1, <1>2, <1>3, PTL DEF Spec

-----------------------------------------------------------------------------
(* Steps *)

LEMMA ConfirmingStep ==
    ASSUME TypeInv, [Next]_vars, NEW a \in Assets,
           recs[a].status # "CONFIRMED", recs'[a].status = "CONFIRMED"
    PROVE  Deep(a)'
<1>0. recs[a] \in Record /\ \A d \in Callers : job[d].copies[a] \in Record
  BY DEF TypeInv, TypeOK, Job
<1>1. PICK c \in Callers :
        \E i \in Locations(job[c].copies[a].txid) :
          /\ IsLocation(job[c].copies[a].txid, i)
          /\ recs'[a] = Settled(a, job[c].copies[a], i)
          /\ chain' = chain
  <2>1. Written(a, recs'[a])
    BY RecsStep
  <2> QED BY <2>1, <1>0, WriteFacts DEF Written
<1> PICK i \in Locations(job[c].copies[a].txid) :
          /\ IsLocation(job[c].copies[a].txid, i)
          /\ recs'[a] = Settled(a, job[c].copies[a], i)
          /\ chain' = chain
  BY <1>1
<1>2. /\ recs'[a].txid = job[c].copies[a].txid
      /\ Confirmations(i) >= Depth[a]
  BY <1>0 DEF Settled, Record
<1>3. /\ i \in Locations(recs[a].txid)' /\ IsLocation(recs[a].txid, i)'
      /\ Confirmations(i)' >= Depth[a]
  BY <1>2 DEF Locations, IsLocation, Confirmations, TipHeight
<1> QED
  BY <1>3 DEF Deep

\* No step, of any caller and however old the record it works from, confirms
\* an anchor that the chain does not bury confirmation_depth deep at that step.
THEOREM ConfirmsOnlyWhenDeep == Spec => ConfirmedOnlyWhenDeep
<1>1. Init => TypeInv
  BY InitTypeInv
<1>2. TypeInv /\ [Next]_vars => TypeInv'
  BY NextTypeInv
<1>3. TypeInv /\ [Next]_vars =>
        [\A a \in Assets :
           recs[a].status # "CONFIRMED" /\ recs'[a].status = "CONFIRMED" => Deep(a)']_vars
  BY ConfirmingStep
<1> QED
  BY <1>1, <1>2, <1>3, PTL DEF Spec, ConfirmedOnlyWhenDeep

\* The anchor id of an artifact's observation names the observed block, so an
\* observation is only ever overwritten by itself.
KeyNamesBlock ==
    \A o \in observed : o.asset \in Manifested => o.key.block = o.block

LEMMA NextKeyNamesBlock ==
    ASSUME TypeInv, KeyNamesBlock, [Next]_vars
    PROVE  /\ KeyNamesBlock'
           /\ \A o \in observed : o.asset \in Manifested => o \in observed'
<1>1. CASE observed' = observed
  BY <1>1 DEF KeyNamesBlock
<1>2. ASSUME NEW a \in Assets, NEW c \in Callers, observed' = Retained(a, job[c].copies[a])
      PROVE  /\ KeyNamesBlock'
             /\ \A o \in observed : o.asset \in Manifested => o \in observed'
  <2> DEFINE r == job[c].copies[a]
             new == [asset |-> a, key |-> ObservationKey(a, r), block |-> r.block.id]
  <2>1. new.asset = a /\ new.block = r.block.id
        /\ (a \in Manifested => new.key.block = r.block.id)
    BY DEF ObservationKey
  <2>2. observed' = {o \in observed : o.asset # a \/ o.key # new.key} \cup {new}
    BY <1>2 DEF Retained
  <2>3. ASSUME NEW o \in observed, o.asset \in Manifested, o \notin observed'
        PROVE  FALSE
    <3>1. o.asset = a /\ o.key = new.key /\ o \in Observation
      BY <2>2, <2>3 DEF TypeInv, TypeOK
    <3>2. o.block = new.block
      BY <2>1, <2>3, <3>1 DEF KeyNamesBlock
    <3>3. o = [asset |-> o.asset, key |-> o.key, block |-> o.block]
      BY <3>1 DEF Observation
    <3>4. o = new
      BY <2>1, <3>1, <3>2, <3>3
    <3> QED BY <2>2, <2>3, <3>4
  <2> HIDE DEF new
  <2>4. KeyNamesBlock'
    BY <2>1, <2>2 DEF KeyNamesBlock
  <2> QED BY <2>3, <2>4
<1> QED
  BY <1>1, <1>2, ObservedStep

\* The observations of artifacts are never deleted and never overwritten.
THEOREM ObservationsAreKept == Spec => ObservationsKept
<1> DEFINE Inv == TypeInv /\ KeyNamesBlock
<1>1. Init => Inv
  BY InitTypeInv DEF Init, KeyNamesBlock
<1>2. Inv /\ [Next]_vars => Inv'
  BY NextTypeInv, NextKeyNamesBlock
<1>3. Inv /\ [Next]_vars => [\A o \in observed : o.asset \in Manifested => o \in observed']_vars
  BY NextKeyNamesBlock
<1> QED
  BY <1>1, <1>2, <1>3, PTL DEF Spec, ObservationsKept

-----------------------------------------------------------------------------
(* One caller: accepted anchors *)

SingleCaller == \A c, d \in Callers : c = d

\* A record's transaction, unless a batch wrote it, commits to the record's own
\* commitment; and only a record with a transaction is on the chain.
OwnTx(a, r) ==
    /\ r.txid # NoTx /\ ~r.txid.batch => r.txid = SoloTx(a, r.commitment)
    /\ r.status \in OnChainStatuses => r.txid # NoTx

\* What the broadcaster was given is still what the record, if one is stored,
\* commits to when it is upgraded: here one caller is needed.
PassIsCurrent ==
    \A c \in Callers :
        LET a == Head(job[c].items).asset
        IN  /\ job[c].op = "queue" /\ job[c].tx # NoTx /\ recs[a].status # "NONE" =>
                 job[c].tx = SoloTx(a, recs[a].commitment)
            /\ job[c].op = "batch" => job[c].tx.batch

OwnInv ==
    /\ \A a \in Assets :
         OwnTx(a, recs[a]) /\ \A c \in Callers : OwnTx(a, job[c].copies[a])
    /\ PassIsCurrent

LEMMA FreshOwnTx ==
    ASSUME NEW b \in Assets, NEW n
    PROVE  OwnTx(b, FreshRecord(n)) /\ OwnTx(b, NoRecord)
BY DEF OwnTx, FreshRecord, NoRecord, OnChainStatuses

\* Writing an inclusion, a loss or a proof leaves what the record stands for.
LEMMA KeepsOwnTx ==
    ASSUME NEW b \in Assets, NEW r \in Record, OwnTx(b, r)
    PROVE  /\ OwnTx(b, Deposed(r))
           /\ r.status \in WaitingToBroadcast => OwnTx(b, Requested(r))
           /\ \A tx : OwnTx(b, WithProof(r, tx))
           /\ \A i : r.txid # NoTx => OwnTx(b, Settled(b, r, i))
BY DEF OwnTx, Deposed, Requested, WithProof, Settled, Record, OnChainStatuses

\* A broadcast transaction is the record's own, or a batch's.
LEMMA BroadcastOwnTx ==
    ASSUME NEW b \in Assets, NEW r \in Record, NEW tx, tx.batch \/ tx = SoloTx(b, r.commitment)
    PROVE  OwnTx(b, BroadcastRecord(r, tx))
BY DEF OwnTx, BroadcastRecord, Record, OnChainStatuses

LEMMA NextOwnRecords ==
    ASSUME TypeInv, OwnInv, [Next]_vars, NEW b \in Assets
    PROVE  OwnTx(b, recs'[b]) /\ \A d \in Callers : OwnTx(b, job'[d].copies[b])
<1>0. /\ recs[b] \in Record /\ OwnTx(b, recs[b])
      /\ \A d \in Callers : job[d].copies[b] \in Record /\ OwnTx(b, job[d].copies[b])
  BY DEF TypeInv, TypeOK, Job, OwnInv
<1>1. \A d \in Callers : OwnTx(b, job'[d].copies[b])
  BY <1>0, CopiesStep, FreshOwnTx
<1>2. OwnTx(b, recs'[b])
  <2>0. Written(b, recs'[b])
    BY RecsStep
  <2>1. ASSUME NEW c \in Callers, job[c].op = "queue", job[c].tx # NoTx,
               b = Head(job[c].items).asset, recs'[b] = BroadcastRecord(recs[b], job[c].tx),
               Lifecycle!CanTransition(recs[b].status, "BROADCAST")
        PROVE  OwnTx(b, recs'[b])
    <3>0. recs[b].status # "NONE"
      BY <2>1 DEF Lifecycle!CanTransition, Lifecycle!Transitions, Lifecycle!Statuses
    <3>1. job[c].tx = SoloTx(b, recs[b].commitment)
      BY <2>1, <3>0 DEF OwnInv, PassIsCurrent
    <3> QED BY <3>1, <2>1, <1>0, BroadcastOwnTx
  <2>2. ASSUME NEW c \in Callers, job[c].op = "batch",
               recs'[b] = BroadcastRecord(WithProof(recs[b], job[c].tx), job[c].tx)
        PROVE  OwnTx(b, recs'[b])
    <3>1. job[c].tx.batch /\ job[c].tx \in Tx
      BY <2>2 DEF OwnInv, PassIsCurrent, TypeInv, TypeOK, Job
    <3>2. WithProof(recs[b], job[c].tx) \in Record
      BY <3>1, <1>0 DEF WithProof, Record
    <3> QED BY <3>1, <3>2, <2>2, BroadcastOwnTx
  <2>3. ASSUME NEW c \in Callers, NEW i, b \in ToSync(c), recs'[b] = Settled(b, job[c].copies[b], i)
        PROVE  OwnTx(b, recs'[b])
    BY <2>3, <1>0, KeepsOwnTx DEF ToSync
  <2>4. ASSUME NEW c \in Callers, recs'[b] = Deposed(job[c].copies[b])
        PROVE  OwnTx(b, recs'[b])
    BY <2>4, <1>0, KeepsOwnTx
  <2>5. ASSUME NEW c \in Callers, recs'[b] = WithProof(recs[b], job[c].tx)
        PROVE  OwnTx(b, recs'[b])
    BY <2>5, <1>0, KeepsOwnTx
  <2>6. CASE \/ recs'[b] = recs[b]
             \/ \E n \in Nat : recs'[b] = FreshRecord(n)
             \/ recs[b].status \in WaitingToBroadcast /\ recs'[b] = Requested(recs[b])
    BY <2>6, <1>0, FreshOwnTx, KeepsOwnTx
  <2> QED BY <2>0, <2>1, <2>2, <2>3, <2>4, <2>5, <2>6 DEF Written
<1> QED
  BY <1>1, <1>2

LEMMA NextPassIsCurrent ==
    ASSUME SingleCaller, TypeInv, OwnInv, [Next]_vars
    PROVE  PassIsCurrent'
<1>0. job \in [Callers -> Job] /\ PassIsCurrent /\ ~NoTx.batch /\ Idle.op = "idle"
  BY DEF TypeInv, TypeOK, OwnInv, NoTx, Idle
<1>1. CASE UNCHANGED <<job, recs>>
  BY <1>0, <1>1 DEF PassIsCurrent
<1>2. ASSUME NEW c \in Callers, job'[c].op \notin {"queue", "batch"}
      PROVE  PassIsCurrent'
  BY <1>2 DEF PassIsCurrent, SingleCaller
<1>3. ASSUME NEW c \in Callers, NEW j, job' = [job EXCEPT ![c] = j],
             \/ j.op = "queue" /\ j.tx = NoTx
             \/ j.op = "batch" /\ j.tx.batch
      PROVE  PassIsCurrent'
  <2>1. job'[c] = j
    BY <1>0, <1>3
  <2> QED BY <2>1, <1>3 DEF PassIsCurrent, SingleCaller
<1>4. ASSUME NEW c \in Callers, job[c].op \in {"queue", "batch"},
             NEW tx, job' = [job EXCEPT ![c] = AfterItem(c, tx)],
             \/ job[c].op = "queue" /\ tx = NoTx
             \/ job[c].op = "batch" /\ tx.batch
      PROVE  PassIsCurrent'
  <2>1. CASE AfterItem(c, tx) = Idle
    <3>1. job'[c] = Idle
      BY <2>1, <1>0, <1>4
    <3> QED BY <3>1, <1>0, <1>2
  <2>2. CASE AfterItem(c, tx) = [job[c] EXCEPT !.items = Tail(@), !.tx = tx]
    <3>1. AfterItem(c, tx).op = job[c].op /\ AfterItem(c, tx).tx = tx
      BY <2>2, <1>0 DEF Job
    <3> QED BY <3>1, <1>3, <1>4
  <2> QED BY <2>1, <2>2 DEF AfterItem
<1>5. ASSUME NEW c \in Callers, NEW a \in Assets,
             \/ \E request \in BOOLEAN : RecordAsset(c, a, request)
             \/ RequestBroadcast(c, a)
      PROVE  PassIsCurrent'
  <2>1. job'[c].op = "idle"
    BY <1>5 DEF RecordAsset, RequestBroadcast
  <2> QED BY <2>1, <1>2
<1>6. ASSUME NEW c \in Callers, ProcessQueue(c)
      PROVE  PassIsCurrent'
  <2> DEFINE j == [Idle EXCEPT !.op = "queue", !.items = FirstPending]
  <2>1. job' = [job EXCEPT ![c] = j] /\ j.op = "queue" /\ j.tx = NoTx
    BY <1>6 DEF ProcessQueue, Idle
  <2> HIDE DEF j
  <2> QED BY <2>1, <1>3
<1>7. ASSUME NEW c \in Callers, BroadcastItem(c)
      PROVE  PassIsCurrent'
  <2> DEFINE a == Head(job[c].items).asset
             j == [job[c] EXCEPT !.tx = BroadcastTx(c)]
  <2>1. job[c].op = "queue" /\ recs' = recs
    BY <1>7 DEF BroadcastItem
  <2>2. CASE job' = [job EXCEPT ![c] = AfterItem(c, NoTx)]
    BY <2>1, <2>2, <1>4
  <2>3. CASE job' = [job EXCEPT ![c] = j]
    <3>0. recs[a].status # "NONE" => BroadcastTx(c) = SoloTx(a, recs[a].commitment)
      BY DEF BroadcastTx
    <3>1. /\ j.op = "queue" /\ j.items = job[c].items
          /\ recs[a].status # "NONE" => j.tx = SoloTx(a, recs[a].commitment)
      BY <2>1, <3>0, <1>0 DEF Job
    <3> HIDE DEF j
    <3>2. job'[c] = j
      BY <2>3, <1>0
    <3> QED BY <3>1, <3>2, <2>1 DEF PassIsCurrent, SingleCaller
  <2> QED BY <1>7, <2>2, <2>3 DEF BroadcastItem
<1>8. ASSUME NEW c \in Callers, UpgradeItem(c)
      PROVE  PassIsCurrent'
  <2>1. job[c].op = "queue"
        /\ (job' = [job EXCEPT ![c] = AfterItem(c, NoTx)] \/ job' = [job EXCEPT ![c] = Idle])
    BY <1>8 DEF UpgradeItem
  <2>2. CASE job' = [job EXCEPT ![c] = Idle]
    BY <2>2, <1>0, <1>2
  <2> QED BY <2>1, <2>2, <1>4
<1>9. ASSUME NEW c \in Callers, ProcessBatch(c)
      PROVE  PassIsCurrent'
  <2> DEFINE j == [Idle EXCEPT !.op = "batch", !.items = FirstPending, !.tx = BatchTx(FirstPending)]
  <2>1. UNCHANGED <<job, recs>> \/ job' = [job EXCEPT ![c] = j]
    BY <1>9 DEF ProcessBatch
  <2>2. j.op = "batch" /\ j.tx.batch
    BY DEF Idle, BatchTx
  <2> HIDE DEF j
  <2> QED BY <2>1, <2>2, <1>1, <1>3
<1>10. ASSUME NEW c \in Callers, BatchItem(c)
       PROVE  PassIsCurrent'
  <2>1. job[c].op = "batch"
        /\ (job' = [job EXCEPT ![c] = AfterItem(c, job[c].tx)] \/ job' = [job EXCEPT ![c] = Idle])
    BY <1>10 DEF BatchItem
  <2>2. job[c].tx.batch
    BY <2>1, <1>0 DEF PassIsCurrent
  <2>3. CASE job' = [job EXCEPT ![c] = Idle]
    BY <2>3, <1>0, <1>2
  <2> QED BY <2>1, <2>2, <2>3, <1>4
<1>11. ASSUME NEW c \in Callers, ChainProgress(c)
       PROVE  PassIsCurrent'
  <2>1. job'[c].op = "sync"
    BY <1>11, <1>0 DEF ChainProgress, Idle
  <2> QED BY <2>1, <1>2
<1>12. ASSUME NEW c \in Callers, NEW a \in Assets, SyncRecord(c, a)
       PROVE  PassIsCurrent'
  <2>1. job[c].op = "sync" /\ job' = [job EXCEPT ![c] = AfterSync(c, a)]
    BY <1>12 DEF SyncRecord
  <2>2. AfterSync(c, a).op \in {"idle", "sync"}
    BY <2>1, <1>0 DEF AfterSync, Job
  <2>3. job'[c].op \in {"idle", "sync"}
    BY <2>1, <2>2, <1>0
  <2> QED BY <2>3, <1>2
<1> QED
  BY <1>1, <1>5, <1>6, <1>7, <1>8, <1>9, <1>10, <1>11, <1>12 DEF Next, vars, anchorVars

\* With one caller, an accepted anchor that no batch wrote has a transaction on
\* the canonical chain that commits to exactly the record's commitment.
THEOREM AcceptedAreAnchored ==
    ASSUME SingleCaller
    PROVE  Spec => []AcceptedIsAnchored
<1> DEFINE Inv == TypeInv /\ OwnInv
<1>1. Init => Inv
  <2>1. Init => OwnInv
    <3>1. \A a \in Assets : NoCopies[a] = NoRecord /\ Idle.copies[a] = NoRecord
      BY DEF NoCopies, Idle
    <3>2. Idle.op = "idle"
      BY DEF Idle
    <3> QED BY <3>1, <3>2, FreshOwnTx DEF Init, OwnInv, PassIsCurrent
  <2> QED BY <2>1, InitTypeInv
<1>2. Inv /\ [Next]_vars => Inv'
  <2> SUFFICES ASSUME TypeInv, OwnInv, [Next]_vars PROVE Inv'
    OBVIOUS
  <2>1. TypeInv'
    BY NextTypeInv
  <2>2. PassIsCurrent'
    BY NextPassIsCurrent
  <2>3. \A b \in Assets : OwnTx(b, recs'[b]) /\ \A d \in Callers : OwnTx(b, job'[d].copies[b])
    BY NextOwnRecords
  <2> QED BY <2>1, <2>2, <2>3 DEF OwnInv, OwnTx
<1>3. Inv => AcceptedIsAnchored
  BY DEF OwnInv, OwnTx, AcceptedIsAnchored, Accepted, OnChainStatuses, Locations
<1> QED
  BY <1>1, <1>2, <1>3, PTL DEF Spec

-----------------------------------------------------------------------------
(* One caller: the lifecycle *)

\* A pass over the records holds them as they are stored; nothing but a pass
\* that knows the transaction gives a status to an asset that has none.
CopiesAreCurrent ==
    \A c \in Callers : job[c].op = "sync" => \A b \in ToSync(c) : job[c].copies[b] = recs[b]

NoneIsBare == \A b \in Assets : recs[b].status = "NONE" => recs[b].txid = NoTx

StatusInv == CopiesAreCurrent /\ NoneIsBare

\* The edges of the lifecycle that the operations use.
LEMMA LifecycleEdges ==
    /\ \A s \in Statuses : Lifecycle!CanTransition(s, "BROADCAST") =>
          s = "BROADCAST" \/ s \in WaitingToBroadcast
    /\ \A s \in WaitingToBroadcast \cup {"BROADCAST"} : "INCLUDED" \in Lifecycle!Transitions[s]
    /\ \A s \in WaitingToBroadcast : "BROADCAST" \in Lifecycle!Transitions[s]
    /\ \A s \in OnChainStatuses : "REORGED" \in Lifecycle!Transitions[s]
    /\ "CONFIRMED" \in Lifecycle!Transitions["INCLUDED"]
    /\ "RE_ANCHOR_REQUIRED" \in Lifecycle!Transitions["REORGED"]
    /\ Statuses \subseteq Lifecycle!Statuses /\ "REORGED" \in Lifecycle!Statuses
BY DEF Statuses, OnChainStatuses, WaitingToBroadcast,
       Lifecycle!CanTransition, Lifecycle!Transitions, Lifecycle!Statuses

\* What the lifecycle allows of one status.
Allowed(s, t) ==
    \/ t = "COMMITMENT_PENDING"
    \/ /\ s # "NONE"
       /\ \E u \in Lifecycle!Statuses :
            u \in Lifecycle!Transitions[s] /\ Lifecycle!CanTransition(u, t)

LEMMA AllowedMoves ==
    /\ \A s \in WaitingToBroadcast : Allowed(s, "BROADCAST")
    /\ \A s \in Statuses \ {"NONE"}, t \in OnChainStatuses :
          s = t \/ Allowed(s, t) \/ (s = "CONFIRMED" /\ t = "INCLUDED")
    /\ \A s \in OnChainStatuses : Allowed(s, "RE_ANCHOR_REQUIRED")
<1>1. \A s \in WaitingToBroadcast : Allowed(s, "BROADCAST")
  BY LifecycleEdges DEF Allowed, WaitingToBroadcast, Lifecycle!CanTransition, Statuses
<1>2. \A s \in WaitingToBroadcast \cup {"BROADCAST"}, t \in OnChainStatuses : Allowed(s, t)
  BY LifecycleEdges DEF Allowed, WaitingToBroadcast, OnChainStatuses, Lifecycle!CanTransition, Statuses
<1>3. Allowed("INCLUDED", "CONFIRMED")
  BY LifecycleEdges DEF Allowed, OnChainStatuses, Lifecycle!CanTransition, Statuses
<1>4. \A s \in OnChainStatuses : Allowed(s, "RE_ANCHOR_REQUIRED")
  BY LifecycleEdges DEF Allowed, OnChainStatuses, Lifecycle!CanTransition, Statuses
<1> QED
  BY <1>1, <1>2, <1>3, <1>4 DEF Statuses, OnChainStatuses, WaitingToBroadcast

\* What a step makes of one status.
LEMMA StatusStep ==
    ASSUME TypeInv, StatusInv, SingleCaller, [Next]_vars, NEW b \in Assets
    PROVE  /\ \/ recs'[b].status = recs[b].status
              \/ Allowed(recs[b].status, recs'[b].status)
              \/ DropsBelowDepth(b)
           /\ recs'[b].status = "NONE" => recs'[b].txid = NoTx
<1> DEFINE r == recs[b]
<1>0. r \in Record /\ r.status \in Statuses
  BY DEF TypeInv, TypeOK, Record
<1>1. Written(b, recs'[b])
  BY RecsStep
<1>2. CASE recs'[b] = r
  BY <1>2 DEF StatusInv, NoneIsBare
<1>3. ASSUME NEW n \in Nat, recs'[b] = FreshRecord(n)
      PROVE  recs'[b].status = "COMMITMENT_PENDING"
  BY <1>3 DEF FreshRecord
<1>4. CASE recs'[b] = Requested(r)
  BY <1>0, <1>4 DEF Requested, Allowed, Record
<1>5. ASSUME NEW tx, recs'[b] = WithProof(r, tx)
      PROVE  recs'[b].status = r.status /\ recs'[b].txid = r.txid
  BY <1>0, <1>5 DEF WithProof, Record
<1>6. ASSUME NEW tx, Lifecycle!CanTransition(r.status, "BROADCAST"),
             recs'[b] = BroadcastRecord(r, tx) \/ recs'[b] = BroadcastRecord(WithProof(r, tx), tx)
      PROVE  /\ recs'[b].status = "BROADCAST"
             /\ r.status = "BROADCAST" \/ Allowed(r.status, "BROADCAST")
  <2>1. recs'[b].status = "BROADCAST"
    BY <1>0, <1>6 DEF WithProof, BroadcastRecord, Record
  <2> QED BY <2>1, <1>0, <1>6, LifecycleEdges, AllowedMoves
<1>7. ASSUME NEW c \in Callers, job[c].op = "sync", b \in ToSync(c),
             NEW i \in Locations(job[c].copies[b].txid), IsLocation(job[c].copies[b].txid, i),
             recs'[b] = Settled(b, job[c].copies[b], i)
      PROVE  /\ recs'[b].status \in OnChainStatuses
             /\ \/ recs'[b].status = r.status \/ Allowed(r.status, recs'[b].status)
                \/ DropsBelowDepth(b)
  <2>1. job[c].copies[b] = r /\ r.txid # NoTx
    BY <1>7 DEF StatusInv, CopiesAreCurrent, ToSync
  <2>2. r.status # "NONE"
    BY <2>1 DEF StatusInv, NoneIsBare
  <2>3. recs'[b].status \in OnChainStatuses
    BY <1>0, <1>7, <2>1 DEF Settled, OnChainStatuses, Record
  <2>4. ASSUME recs'[b].status = "INCLUDED" PROVE OnChain(r.txid) /\ ~Deep(b)
    <3>1. ~(Confirmations(i) >= Depth[b])
      BY <1>0, <1>7, <2>1, <2>4 DEF Settled, Record
    <3>2. ASSUME NEW k \in Locations(r.txid), IsLocation(r.txid, k) PROVE k = i
      <4>1. k \in Nat /\ i \in Nat
        BY <1>7, <2>1 DEF Locations, TypeInv, TypeOK
      <4> QED BY <1>7, <2>1, <3>2, <4>1 DEF IsLocation
    <3> QED BY <1>7, <2>1, <3>1, <3>2 DEF Deep, OnChain
  <2> QED BY <2>2, <2>3, <2>4, <1>0, AllowedMoves DEF DropsBelowDepth
<1>8. ASSUME NEW c \in Callers, job[c].op = "sync", b \in ToSync(c),
             job[c].copies[b].status \in OnChainStatuses, recs'[b] = Deposed(job[c].copies[b])
      PROVE  recs'[b].status = "RE_ANCHOR_REQUIRED" /\ Allowed(r.status, "RE_ANCHOR_REQUIRED")
  <2>1. job[c].copies[b] = r
    BY <1>8 DEF StatusInv, CopiesAreCurrent
  <2>2. recs'[b].status = "RE_ANCHOR_REQUIRED"
    BY <1>0, <1>8, <2>1 DEF Deposed, Record
  <2> QED BY <1>8, <2>1, <2>2, AllowedMoves
<1> QED
  BY <1>1, <1>2, <1>3, <1>4, <1>5, <1>6, <1>7, <1>8 DEF Written, StatusInv, NoneIsBare, Allowed, OnChainStatuses

LEMMA NextCopiesAreCurrent ==
    ASSUME SingleCaller, TypeInv, CopiesAreCurrent, [Next]_vars
    PROVE  CopiesAreCurrent'
<1>0. job \in [Callers -> Job] /\ recs \in [Assets -> Record] /\ NoRecord.txid = NoTx
  BY DEF TypeInv, TypeOK, NoRecord, FreshRecord
<1>1. CASE UNCHANGED <<job, recs>>
  BY <1>1 DEF CopiesAreCurrent, ToSync
<1>2. ASSUME NEW c \in Callers, job'[c].op # "sync"
      PROVE  CopiesAreCurrent'
  BY <1>2 DEF CopiesAreCurrent, SingleCaller
<1>3. ASSUME NEW c \in Callers, ChainProgress(c)
      PROVE  CopiesAreCurrent'
  <2>1. recs' = recs /\ \A b \in Assets : job'[c].copies[b] \in {recs[b], NoRecord}
    BY <1>0, <1>3 DEF ChainProgress, Idle
  <2> QED BY <2>1, <1>0 DEF CopiesAreCurrent, ToSync, SingleCaller
<1>4. ASSUME NEW c \in Callers, NEW a \in Assets, SyncRecord(c, a)
      PROVE  CopiesAreCurrent'
  <2>1. /\ job[c].op = "sync" /\ job'[c] = AfterSync(c, a)
        /\ recs' = recs \/ \E r : recs' = [recs EXCEPT ![a] = r]
    BY <1>0, <1>4 DEF SyncRecord
  <2>2. CASE job'[c] = Idle
    BY <1>2, <2>2 DEF Idle
  <2>3. CASE job'[c] = [job[c] EXCEPT !.copies[a] = NoRecord]
    <3>1. /\ job'[c].copies[a] = NoRecord
          /\ \A b \in Assets \ {a} : job'[c].copies[b] = job[c].copies[b]
      BY <1>0, <2>3 DEF Job
    <3>2. ASSUME NEW b \in Assets, job'[c].copies[b].txid # NoTx
          PROVE  job'[c].copies[b] = recs'[b]
      <4>1. b # a
        BY <1>0, <3>1, <3>2
      <4>2. job'[c].copies[b] = job[c].copies[b] /\ recs'[b] = recs[b]
        BY <1>0, <2>1, <3>1, <4>1
      <4> QED BY <2>1, <3>2, <4>2 DEF CopiesAreCurrent, ToSync
    <3> QED BY <3>2 DEF CopiesAreCurrent, ToSync, SingleCaller
  <2> QED BY <2>1, <2>2, <2>3 DEF AfterSync
<1>5. ASSUME NEW c \in Callers, NEW a \in Assets,
             \/ \E request \in BOOLEAN : RecordAsset(c, a, request)
             \/ RequestBroadcast(c, a)
      PROVE  CopiesAreCurrent'
  <2>1. job'[c].op = "idle"
    BY <1>5 DEF RecordAsset, RequestBroadcast
  <2> QED BY <2>1, <1>2
<1>6. ASSUME NEW c \in Callers,
             ProcessQueue(c) \/ BroadcastItem(c) \/ UpgradeItem(c) \/ ProcessBatch(c) \/ BatchItem(c)
      PROVE  CopiesAreCurrent'
  <2>1. ASSUME NEW tx, job[c].op # "sync" PROVE AfterItem(c, tx).op # "sync"
    BY <1>0, <2>1 DEF AfterItem, Idle, Job
  <2>2. CASE ProcessQueue(c) \/ ProcessBatch(c)
    <3>1. job'[c].op # "sync"
      BY <1>0, <2>2 DEF ProcessQueue, ProcessBatch, Idle
    <3> QED BY <3>1, <1>2
  <2>3. CASE BroadcastItem(c)
    <3>1. job[c].op = "queue"
      BY <2>3 DEF BroadcastItem
    <3>2. \/ job' = [job EXCEPT ![c] = AfterItem(c, NoTx)]
          \/ job' = [job EXCEPT ![c].tx = BroadcastTx(c)]
      BY <2>3 DEF BroadcastItem
    <3>3. job'[c] = AfterItem(c, NoTx) \/ job'[c] = [job[c] EXCEPT !.tx = BroadcastTx(c)]
      BY <1>0, <3>2
    <3>4. [job[c] EXCEPT !.tx = BroadcastTx(c)].op = job[c].op
      BY <1>0 DEF Job
    <3>5. job'[c].op # "sync"
      BY <2>1, <3>1, <3>3, <3>4
    <3> QED BY <3>5, <1>2
  <2>4. CASE UpgradeItem(c) \/ BatchItem(c)
    <3>1. job[c].op # "sync"
      BY <2>4 DEF UpgradeItem, BatchItem
    <3>2. job'[c] = Idle \/ \E tx : job'[c] = AfterItem(c, tx)
      BY <1>0, <2>4 DEF UpgradeItem, BatchItem
    <3>3. job'[c].op # "sync"
      BY <2>1, <3>1, <3>2 DEF Idle
    <3> QED BY <3>3, <1>2
  <2> QED BY <1>6, <2>2, <2>3, <2>4
<1> QED
  BY <1>1, <1>3, <1>4, <1>5, <1>6 DEF Next, vars, anchorVars

\* With one caller, every change of a stored status is a move of the documented
\* lifecycle (lifecycle.py, TRANSITIONS), whatever the chain does, except the
\* return of a confirmed anchor to INCLUDED, which only happens to one the chain
\* still holds and no longer buries deep enough.
THEOREM StatusesFollowTheLifecycle ==
    ASSUME SingleCaller
    PROVE  Spec => LifecycleOrShallow
<1> DEFINE Inv == TypeInv /\ StatusInv
<1>1. Init => Inv
  <2> SUFFICES ASSUME Init PROVE Inv
    OBVIOUS
  <2>1. \A b \in Assets : recs[b] = NoRecord
    BY DEF Init, NoCopies
  <2>2. NoRecord.txid = NoTx /\ Idle.op # "sync"
    BY DEF NoRecord, FreshRecord, Idle
  <2>3. StatusInv
    BY <2>1, <2>2 DEF StatusInv, NoneIsBare, CopiesAreCurrent, Init
  <2> QED BY <2>3, InitTypeInv
<1>2. Inv /\ [Next]_vars => Inv'
  <2> SUFFICES ASSUME Inv, [Next]_vars PROVE Inv'
    OBVIOUS
  <2>1. NoneIsBare'
    BY StatusStep DEF NoneIsBare
  <2> QED BY <2>1, NextTypeInv, NextCopiesAreCurrent DEF StatusInv
<1>3. Inv /\ [Next]_vars => [\A a \in Assets : Lifecycle!Moved(a) \/ DropsBelowDepth(a)]_vars
  <2> SUFFICES ASSUME Inv, [Next]_vars, NEW a \in Assets
               PROVE  Lifecycle!Moved(a) \/ DropsBelowDepth(a)
    OBVIOUS
  <2> DEFINE seen == [b \in Assets |-> recs[b].status]
  <2>1. seen[a] = recs[a].status /\ seen'[a] = recs'[a].status
    OBVIOUS
  <2>2. CASE recs'[a].status = recs[a].status
    BY <2>1, <2>2 DEF Lifecycle!Moved
  <2>3. CASE Allowed(recs[a].status, recs'[a].status)
    BY <2>1, <2>3 DEF Allowed, Lifecycle!Moved, Lifecycle!Commit, Lifecycle!Advance
  <2> QED BY <2>2, <2>3, StatusStep
<1> QED
  BY <1>1, <1>2, <1>3, PTL DEF Spec, LifecycleOrShallow

=============================================================================
