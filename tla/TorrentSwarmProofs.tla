------------------------- MODULE TorrentSwarmProofs -------------------------
(***************************************************************************)
(* What a node has of a torrent, and what its disk keeps, for any nodes,    *)
(* pieces, threads and numbers of calls and faults.  The invariant says     *)
(* where the bytes of every piece are at each stage of the assembly and of  *)
(* create_torrent, which run in different threads of a node.                *)
(***************************************************************************)
EXTENDS TorrentSwarm, FiniteSetTheorems, TLAPS

Fields      == {"known", "wanted", "have", "below", "data", "pending", "late", "backoff"}
Frame       == {"at", "then", "held", "free", "list", "piece"}
Back        == {"idle", "settle", "refill"}
Quiet       == Back \union {"begin", "fetch", "adopt", "load", "stale", "expire", "pick", "ask"}
AssemblyEnds == {"join", "forget", "unlink", "save", "tell"}
Making      == {"own", "fill", "keep", "record", "announce"}

TypesOf(n) ==
    /\ DOMAIN memory[n] = Fields
    /\ memory[n].have \subseteq Pieces /\ memory[n].below \subseteq Pieces /\ memory[n].late \subseteq Pieces
    /\ memory[n].data \in [Pieces -> {"none", "right"}]
    /\ DOMAIN disk[n] = {"piece", "file", "meta"}
    /\ disk[n].piece \in [Pieces -> Content] /\ disk[n].file \in Content

ThreadsOf(n) ==
    /\ DOMAIN thread[n] = Threads
    /\ \A t \in Threads : /\ DOMAIN thread[n][t] = Frame
                         /\ thread[n][t].then \in Back /\ thread[n][t].list \subseteq Pieces
    /\ thread[n]["listener"].at \in Quiet \union {"store"} \union AssemblyEnds
    /\ \A w \in Workers : thread[n][w].at \in Quiet \union Making

ListenerIn(n, stages) == thread[n]["listener"].at \in stages

InHand(n) == \A p \in memory[n].have : memory[n].data[p] = "right"
OnFile(n) == disk[n].file = "right" \/ Overwritten(n)

\* The bytes of a piece are in memory, until the assembly has put them in the file; but
\* between the assignments of create_torrent. What is in memory is a piece it has.
Held(n) ==
    /\ \A p \in memory[n].have :
          \/ memory[n].data[p] = "right"
          \/ Filling(n)
          \/ /\ memory[n].have = Pieces /\ OnFile(n)
             /\ disk[n].piece[p] = "none" \/ ListenerIn(n, {"unlink"})
    /\ \A p \in Pieces : memory[n].data[p] = "right" => p \in memory[n].have

\* Every piece it lacks is made up for by an index below zero.
MadeUp(n) == Cardinality(Pieces \ memory[n].have) <= Cardinality(memory[n].below)

\* What the listener has done at each stage of the assembly.
Assembly(n) ==
    /\ ListenerIn(n, {"store"}) /\ thread[n]["listener"].piece \in Pieces =>
          memory[n].data[thread[n]["listener"].piece] = "right"
    /\ ListenerIn(n, {"forget"}) => \A p \in Pieces : memory[n].data[p] = "right"
    /\ ListenerIn(n, {"forget", "unlink"}) => OnFile(n)
    /\ ListenerIn(n, {"forget", "unlink", "save"}) => memory[n].have = Pieces
    /\ ListenerIn(n, {"store"} \union AssemblyEnds) => memory[n].known
    /\ ListenerIn(n, AssemblyEnds) => MadeUp(n)

\* What create_torrent rests on: without a race no assembly begins, since an index
\* below zero only makes the number of pieces too large, and its pieces stay in memory.
Unassembled(n) ==
    /\ ~ListenerIn(n, {"join", "forget", "unlink"})
    /\ ListenerIn(n, {"store"}) => memory[n].below # {}

Creation(n) ==
    \A w \in Workers :
       /\ thread[n][w].at = "own" => memory[n].known
       /\ thread[n][w].at \in {"fill", "keep", "record"} => memory[n].known /\ memory[n].have = Pieces
       /\ thread[n][w].at \in {"fill", "keep"} /\ n \notin raced => Unassembled(n)
       /\ thread[n][w].at = "keep" /\ n \notin raced => InHand(n)

Saved(n) ==
    disk[n].meta =>
       memory[n].known /\ (memory[n].have = Pieces \/ memory[n].wanted \/ memory[n].below # {})

Good(n) == TypesOf(n) /\ ThreadsOf(n) /\ Held(n) /\ Assembly(n) /\ Creation(n) /\ Saved(n)

Shapes ==
    /\ DOMAIN memory = Nodes /\ DOMAIN disk = Nodes /\ DOMAIN thread = Nodes
    /\ inbox \in [Nodes -> Seq(Messages)]

IInv == Shapes /\ \A n \in Nodes : Good(n)

----------------------------------------------------------------------------
(* Counting pieces.                                                         *)

LEMMA PartsAreFinite ==
  ASSUME NEW S, S \subseteq Pieces
  PROVE  IsFiniteSet(S) /\ Cardinality(S) \in Nat /\ (Cardinality(S) = 0 <=> S = {})
  BY StoreAssumption, FS_Subset, FS_CardinalityType, FS_EmptySet

\* A node that counts all of its torrent has all of it, or an index below zero.
LEMMA CompleteMeans ==
  ASSUME NEW n \in Nodes, TypesOf(n), memory[n].known, Complete(n)
  PROVE  (memory[n].have = Pieces \/ memory[n].below # {}) /\ MadeUp(n)
<1> DEFINE have == memory[n].have
           below == memory[n].below
<1>1. have \subseteq Pieces /\ below \subseteq Pieces
  BY DEF TypesOf
<1>2. Cardinality(have) + Cardinality(below) = Cardinality(Pieces)
  BY DEF Complete
<1> HIDE DEF have, below
<1>3. Cardinality(have) \in Nat /\ Cardinality(below) \in Nat /\ (below = {} => Cardinality(below) = 0)
  BY <1>1, PartsAreFinite
<1>4. IsFiniteSet(Pieces) /\ IsFiniteSet(have) /\ Cardinality(Pieces) \in Nat
  BY <1>1, PartsAreFinite
<1>5. Pieces \cap have = have
  BY <1>1
<1>6. Cardinality(Pieces \ have) = Cardinality(Pieces) - Cardinality(have)
  BY <1>4, <1>5, FS_Difference
<1>7. below = {} => Cardinality(have) = Cardinality(Pieces)
  BY <1>2, <1>3, <1>4
<1>8. below = {} => have = Pieces
  BY <1>1, <1>4, <1>7, FS_Subset
<1>9. Cardinality(Pieces \ have) <= Cardinality(below)
  BY <1>2, <1>3, <1>4, <1>6
<1> QED BY <1>8, <1>9 DEF have, below, MadeUp

\* With every piece, an index below zero makes the number of pieces too large.
LEMMA TooMany ==
  ASSUME NEW n \in Nodes, TypesOf(n), memory[n].known, memory[n].have = Pieces, memory[n].below # {}
  PROVE  ~Complete(n)
<1>1. memory[n].below \subseteq Pieces
  BY DEF TypesOf
<1>2. Cardinality(memory[n].below) \in Nat /\ Cardinality(memory[n].below) # 0
  BY <1>1, PartsAreFinite
<1>3. Cardinality(Pieces) \in Nat
  BY PartsAreFinite
<1> QED BY <1>2, <1>3 DEF Complete

\* More pieces: what was made up for still is.
LEMMA MadeUpGrows ==
  ASSUME NEW n \in Nodes, MadeUp(n), memory[n].have \subseteq memory'[n].have,
         memory'[n].below = memory[n].below, memory[n].below \subseteq Pieces
  PROVE  MadeUp(n)'
<1>1. /\ IsFiniteSet(Pieces \ memory[n].have)
      /\ Cardinality(Pieces \ memory[n].have) \in Nat /\ Cardinality(memory[n].below) \in Nat
  BY PartsAreFinite
<1>2. Pieces \ memory'[n].have \subseteq Pieces \ memory[n].have
  OBVIOUS
<1>3. /\ Cardinality(Pieces \ memory'[n].have) \in Nat
      /\ Cardinality(Pieces \ memory'[n].have) <= Cardinality(Pieces \ memory[n].have)
  BY <1>1, <1>2, FS_Subset, FS_CardinalityType
<1> QED BY <1>1, <1>3 DEF MadeUp

----------------------------------------------------------------------------
(* Steps that touch neither the pieces nor the files of a node.             *)

MovesQuietly(n) ==
    /\ DOMAIN thread'[n] = Threads
    /\ \A t \in Threads :
          \/ thread'[n][t] = thread[n][t]
          \/ /\ thread[n][t].at \notin {"unlink", "fill"} /\ thread'[n][t].at \in Quiet
             /\ DOMAIN thread'[n][t] = Frame
             /\ thread'[n][t].then \in Back /\ thread'[n][t].list \subseteq Pieces

Leaves(n) ==
    /\ DOMAIN memory'[n] = Fields /\ memory'[n].late \subseteq Pieces
    /\ memory'[n].have = memory[n].have /\ memory'[n].below = memory[n].below
    /\ memory'[n].data = memory[n].data
    /\ memory[n].known => memory'[n].known
    /\ disk'[n] = disk[n]
    /\ disk[n].meta => memory[n].have = Pieces \/ memory'[n].wanted \/ memory[n].below # {}
    /\ n \in raced' <=> n \in raced

LEMMA ListenerIsNoWorker == "listener" \notin Workers /\ "listener" \in Threads
  BY SwarmAssumption DEF Threads

\* A thread goes to a quiet stage: no other thread moves.
LEMMA QuietThreads ==
  ASSUME NEW n \in Nodes, ThreadsOf(n), MovesQuietly(n)
  PROVE  /\ ThreadsOf(n)'
         /\ \A stages \in SUBSET ({"store"} \union AssemblyEnds) : ListenerIn(n, stages)' => ListenerIn(n, stages)
         /\ ListenerIn(n, {"unlink"}) => ListenerIn(n, {"unlink"})'
         /\ ListenerIn(n, {"store"})' => thread'[n]["listener"] = thread[n]["listener"]
         /\ \A w \in Workers, stage \in Making : thread'[n][w].at = stage => thread[n][w].at = stage
         /\ Filling(n)' <=> Filling(n)
<1> USE ListenerIsNoWorker
<1>1. \A t \in Threads : /\ DOMAIN thread'[n][t] = Frame
                         /\ thread'[n][t].then \in Back /\ thread'[n][t].list \subseteq Pieces
  BY DEF ThreadsOf, MovesQuietly
<1>2. /\ thread'[n]["listener"].at \in Quiet \union {"store"} \union AssemblyEnds
      /\ \A w \in Workers : thread'[n][w].at \in Quiet \union Making
  BY DEF ThreadsOf, MovesQuietly, Threads
<1>3. ThreadsOf(n)'
  BY <1>1, <1>2 DEF ThreadsOf, MovesQuietly
<1>4. \A stages \in SUBSET ({"store"} \union AssemblyEnds) : ListenerIn(n, stages)' => ListenerIn(n, stages)
  BY DEF ListenerIn, MovesQuietly, Quiet, Back, AssemblyEnds
<1>5. ListenerIn(n, {"unlink"}) => ListenerIn(n, {"unlink"})'
  BY DEF ListenerIn, MovesQuietly
<1>6. ListenerIn(n, {"store"})' => thread'[n]["listener"] = thread[n]["listener"]
  BY DEF ListenerIn, MovesQuietly, Quiet, Back
<1>7. \A w \in Workers, stage \in Making : thread'[n][w].at = stage => thread[n][w].at = stage
  BY DEF MovesQuietly, Threads, Quiet, Back, Making
<1>8. \A w \in Workers : thread'[n][w].at = "fill" <=> thread[n][w].at = "fill"
  BY DEF MovesQuietly, Threads, Quiet, Back
<1>9. Filling(n)' <=> Filling(n)
  BY <1>8 DEF Filling, At
<1> QED
  BY <1>3, <1>4, <1>5, <1>6, <1>7, <1>9

LEMMA QuietSteps ==
  ASSUME NEW n \in Nodes, Good(n), MovesQuietly(n), Leaves(n)
  PROVE  Good(n)'
<1>1. TypesOf(n)'
  BY DEF Good, TypesOf, Leaves
<1>2. /\ ThreadsOf(n)'
      /\ \A stages \in SUBSET ({"store"} \union AssemblyEnds) : ListenerIn(n, stages)' => ListenerIn(n, stages)
      /\ ListenerIn(n, {"unlink"}) => ListenerIn(n, {"unlink"})'
      /\ ListenerIn(n, {"store"})' => thread'[n]["listener"] = thread[n]["listener"]
      /\ \A w \in Workers, stage \in Making : thread'[n][w].at = stage => thread[n][w].at = stage
      /\ Filling(n)' <=> Filling(n)
  BY QuietThreads DEF Good
<1>3. (InHand(n)' <=> InHand(n)) /\ (OnFile(n)' <=> OnFile(n)) /\ (MadeUp(n)' <=> MadeUp(n))
  BY DEF InHand, OnFile, Overwritten, MadeUp, Leaves
<1>4. Held(n)'
  BY <1>2, <1>3 DEF Good, Held, Leaves
<1>5. Assembly(n)'
  BY <1>2, <1>3 DEF Good, Assembly, Leaves, AssemblyEnds
<1>6. Unassembled(n) => Unassembled(n)'
  BY <1>2 DEF Unassembled, Leaves, AssemblyEnds
<1>7. Creation(n)'
  <2> SUFFICES ASSUME NEW w \in Workers
               PROVE  /\ thread'[n][w].at = "own" => memory'[n].known
                      /\ thread'[n][w].at \in {"fill", "keep", "record"} =>
                            memory'[n].known /\ memory'[n].have = Pieces
                      /\ thread'[n][w].at \in {"fill", "keep"} /\ n \notin raced' => Unassembled(n)'
                      /\ thread'[n][w].at = "keep" /\ n \notin raced' => InHand(n)'
    BY DEF Creation
  <2> QED BY <1>2, <1>3, <1>6 DEF Good, Creation, Leaves, Making
<1>8. Saved(n)'
  BY DEF Good, Saved, Leaves
<1> QED
  BY <1>1, <1>2, <1>4, <1>5, <1>7, <1>8 DEF Good

\* A node that a step does not touch.
Same(n) == /\ memory'[n] = memory[n] /\ disk'[n] = disk[n] /\ thread'[n] = thread[n]
           /\ n \in raced' <=> n \in raced

LEMMA SameIsGood ==
  ASSUME NEW n \in Nodes, Good(n), Same(n)
  PROVE  Good(n)'
<1>1. MovesQuietly(n)
  BY DEF Same, MovesQuietly, Good, ThreadsOf
<1>2. Leaves(n)
  BY DEF Same, Leaves, Good, TypesOf, Saved
<1> QED
  BY <1>1, <1>2, QuietSteps

----------------------------------------------------------------------------
(* A step of one thread, and one change of a node's memory.                 *)

QuietFrame(th) ==
    DOMAIN th = Frame /\ th.at \in Quiet /\ th.then \in Back /\ th.list \subseteq Pieces
Sets(n, t, th) == thread' = [thread EXCEPT ![n][t] = th]

LEMMA SetsOne ==
  ASSUME Shapes, NEW n \in Nodes, ThreadsOf(n), NEW t \in Threads, NEW th, Sets(n, t, th)
  PROVE  /\ DOMAIN thread' = Nodes /\ DOMAIN thread'[n] = Threads
         /\ thread'[n][t] = th
         /\ \A u \in Threads \ {t} : thread'[n][u] = thread[n][u]
         /\ \A m \in Nodes \ {n} : thread'[m] = thread[m]
  BY DEF Sets, Shapes, ThreadsOf

LEMMA FramesOfReturns ==
  /\ QuietFrame(Resting)
  /\ \A th : th.then \in Back => QuietFrame(Returns(th))
  BY DEF QuietFrame, Resting, Returns, Frame, Quiet, Back

LEMMA SetsQuietly ==
  ASSUME IInv, NEW n \in Nodes, NEW t \in Threads, NEW th, QuietFrame(th), Sets(n, t, th),
         thread[n][t].at \notin {"unlink", "fill"}
  PROVE  DOMAIN thread' = Nodes /\ MovesQuietly(n) /\ \A m \in Nodes \ {n} : thread'[m] = thread[m]
  BY SetsOne DEF IInv, Good, QuietFrame, MovesQuietly

LEMMA ReturnsQuietly ==
  ASSUME IInv, NEW n \in Nodes, NEW t \in Threads, Return(n, t) \/ Abort(n, t), thread[n][t].at \notin {"unlink", "fill"}
  PROVE  DOMAIN thread' = Nodes /\ MovesQuietly(n) /\ \A m \in Nodes \ {n} : thread'[m] = thread[m]
<1>1. thread[n][t].then \in Back
  BY DEF IInv, Good, ThreadsOf
<1>2. CASE Return(n, t)
  <2>1. Sets(n, t, Returns(thread[n][t]))
    BY <1>2 DEF Return, Sets
  <2> QED BY <2>1, <1>1, FramesOfReturns, SetsQuietly
<1>3. CASE Abort(n, t)
  <2>1. Sets(n, t, Resting)
    BY <1>3 DEF Abort, Sets
  <2> QED BY <2>1, FramesOfReturns, SetsQuietly
<1> QED BY <1>2, <1>3

LEMMA GoesQuietly ==
  ASSUME IInv, NEW n \in Nodes, NEW t \in Threads, NEW stage \in Quiet, GoesTo(n, t, stage),
         thread[n][t].at \notin {"unlink", "fill"}
  PROVE  DOMAIN thread' = Nodes /\ MovesQuietly(n) /\ \A m \in Nodes \ {n} : thread'[m] = thread[m]
<1> DEFINE th == [thread[n][t] EXCEPT !.at = stage]
<1>1. DOMAIN thread[n][t] = Frame /\ thread[n][t].then \in Back /\ thread[n][t].list \subseteq Pieces
  BY DEF IInv, Good, ThreadsOf
<1>2. QuietFrame(th)
  BY <1>1 DEF QuietFrame, Frame
<1>3. Sets(n, t, th)
  BY DEF GoesTo, Sets
<1> QED BY <1>2, <1>3, SetsQuietly

\* The memory of one node is replaced.
LEMMA MemoryOfOne ==
  ASSUME Shapes, NEW n \in Nodes, NEW new, memory' = [memory EXCEPT ![n] = new]
  PROVE  DOMAIN memory' = Nodes /\ memory'[n] = new /\ \A m \in Nodes \ {n} : memory'[m] = memory[m]
  BY DEF Shapes

\* A step that is quiet in one node and does nothing in the others.
LEMMA QuietEverywhere ==
  ASSUME IInv, NEW n \in Nodes, MovesQuietly(n), Leaves(n),
         \A m \in Nodes \ {n} : memory'[m] = memory[m] /\ thread'[m] = thread[m],
         DOMAIN memory' = Nodes, DOMAIN thread' = Nodes,
         UNCHANGED <<disk, raced>>, inbox' \in [Nodes -> Seq(Messages)]
  PROVE  IInv'
<1>1. Good(n)'
  BY QuietSteps DEF IInv
<1>2. \A m \in Nodes \ {n} : Good(m)'
  BY SameIsGood DEF IInv, Same
<1>3. Shapes'
  BY DEF IInv, Shapes
<1> QED
  BY <1>1, <1>2, <1>3 DEF IInv

\* As before, with the memory unchanged.
LEMMA QuietThreadStep ==
  ASSUME IInv, NEW n \in Nodes, MovesQuietly(n), DOMAIN thread' = Nodes,
         \A m \in Nodes \ {n} : thread'[m] = thread[m],
         UNCHANGED <<memory, disk, raced>>, inbox' \in [Nodes -> Seq(Messages)]
  PROVE  IInv'
<1>1. Leaves(n)
  BY DEF IInv, Good, TypesOf, Saved, Leaves
<1> QED
  BY <1>1, QuietEverywhere DEF IInv, Shapes

----------------------------------------------------------------------------
(* Threads that download, and the maintenance thread.                       *)

\* Changes of memory that leave what the node knows and has.
LeavesPieces(m, new) ==
    /\ DOMAIN new = Fields /\ new.late \subseteq Pieces
    /\ new.have = m.have /\ new.below = m.below /\ new.data = m.data /\ new.known = m.known

LEMMA LeavesIf ==
  ASSUME IInv, NEW n \in Nodes, NEW new, LeavesPieces(memory[n], new),
         memory' = [memory EXCEPT ![n] = new],
         memory[n].wanted => new.wanted \/ (memory[n].known => memory[n].have = Pieces \/ memory[n].below # {}),
         UNCHANGED <<disk, raced>>
  PROVE  Leaves(n) /\ DOMAIN memory' = Nodes /\ \A m \in Nodes \ {n} : memory'[m] = memory[m]
<1>1. DOMAIN memory' = Nodes /\ memory'[n] = new /\ \A m \in Nodes \ {n} : memory'[m] = memory[m]
  BY MemoryOfOne DEF IInv
<1>2. disk[n].meta => memory[n].have = Pieces \/ memory'[n].wanted \/ memory[n].below # {}
  BY <1>1 DEF IInv, Good, Saved
<1> QED
  BY <1>1, <1>2 DEF Leaves, LeavesPieces

LEMMA BeginStep ==
  ASSUME IInv, NEW n \in Nodes, NEW t \in Threads, Begin(n, t)
  PROVE  IInv'
<1> DEFINE new == [memory[n] EXCEPT !.wanted = ~Complete(n)]
<1>1. LeavesPieces(memory[n], new)
  BY DEF LeavesPieces, IInv, Good, TypesOf, Fields
<1>2. memory[n].wanted => new.wanted \/ (memory[n].known => memory[n].have = Pieces \/ memory[n].below # {})
  <2>1. new.wanted = ~Complete(n)
    BY DEF IInv, Good, TypesOf, Fields
  <2> QED BY <2>1, CompleteMeans DEF IInv, Good
<1>3. memory' = [memory EXCEPT ![n] = new]
  BY DEF Begin
<1>4. Leaves(n) /\ DOMAIN memory' = Nodes /\ \A m \in Nodes \ {n} : memory'[m] = memory[m]
  <2> HIDE DEF new
  <2> QED BY <1>1, <1>2, <1>3, LeavesIf DEF Begin
<1>5. DOMAIN thread' = Nodes /\ MovesQuietly(n) /\ \A m \in Nodes \ {n} : thread'[m] = thread[m]
  BY ReturnsQuietly, GoesQuietly DEF Begin, At, Quiet
<1> QED
  BY <1>4, <1>5, QuietEverywhere DEF Begin, IInv, Shapes

LEMMA FetchStep ==
  ASSUME IInv, NEW n \in Nodes, NEW t \in Threads, Fetch(n, t)
  PROVE  IInv'
<1>0. DOMAIN thread[n][t] = Frame /\ thread[n][t].then \in Back /\ thread[n][t].list \subseteq Pieces
  BY DEF IInv, Good, ThreadsOf
<1>1. DOMAIN thread' = Nodes /\ MovesQuietly(n) /\ \A m \in Nodes \ {n} : thread'[m] = thread[m]
  <2>1. CASE ~published
    BY <2>1, ReturnsQuietly DEF Fetch, At
  <2>2. CASE published
    <3> DEFINE next == IF thread[n][t].then = "settle" THEN "begin" ELSE "adopt"
               th   == [thread[n][t] EXCEPT !.held = TRUE, !.at = next]
    <3>0. next \in Quiet
      BY DEF Quiet
    <3>1. thread' = [thread EXCEPT ![n][t].held = TRUE, ![n][t].at = next]
      BY <2>2 DEF Fetch
    <3> HIDE DEF next
    <3>2. Sets(n, t, th)
      BY <3>1 DEF Sets
    <3>3. QuietFrame(th)
      BY <1>0, <3>0 DEF QuietFrame, Frame
    <3> QED BY <3>2, <3>3, SetsQuietly DEF Fetch, At
  <2> QED BY <2>1, <2>2
<1> QED
  BY <1>1, QuietThreadStep DEF Fetch, OnlyStep, IInv, Shapes

LEMMA AdoptStep ==
  ASSUME IInv, NEW n \in Nodes, NEW t \in Threads, Adopt(n, t)
  PROVE  IInv'
<1> DEFINE new == [memory[n] EXCEPT !.known = TRUE]
           th  == [thread[n][t] EXCEPT !.at = "load", !.held = FALSE]
<1>1. memory' = [memory EXCEPT ![n] = new] /\ Sets(n, t, th)
  BY DEF Adopt, Sets
<1>2. DOMAIN memory' = Nodes /\ memory'[n] = new /\ \A m \in Nodes \ {n} : memory'[m] = memory[m]
  BY <1>1, MemoryOfOne DEF IInv
<1>3. Leaves(n)
  BY <1>2 DEF Leaves, IInv, Good, TypesOf, Fields, Saved, Adopt
<1>4. QuietFrame(th)
  BY DEF QuietFrame, IInv, Good, ThreadsOf, Frame, Quiet
<1>5. DOMAIN thread' = Nodes /\ MovesQuietly(n) /\ \A m \in Nodes \ {n} : thread'[m] = thread[m]
  BY <1>1, <1>4, SetsQuietly DEF Adopt, At
<1> QED
  BY <1>2, <1>3, <1>5, QuietEverywhere DEF Adopt, IInv, Shapes

LEMMA CountsIsQuiet ==
  ASSUME NEW th, DOMAIN th = Frame, th.then \in Back, NEW pending
  PROVE  QuietFrame(Counts(th, pending))
  BY FramesOfReturns DEF Counts, QuietFrame, Frame, Quiet

LEMMA FindStaleStep ==
  ASSUME IInv, NEW n \in Nodes, NEW t \in Threads, FindStale(n, t)
  PROVE  IInv'
<1> DEFINE th == IF memory[n].late = {} THEN Counts(thread[n][t], memory[n].pending)
                 ELSE [thread[n][t] EXCEPT !.at = "expire", !.list = memory[n].late]
<1>1. Sets(n, t, th)
  BY DEF FindStale, Sets
<1>2. /\ DOMAIN thread[n][t] = Frame /\ thread[n][t].then \in Back /\ thread[n][t].list \subseteq Pieces
      /\ memory[n].late \subseteq Pieces
  BY DEF IInv, Good, ThreadsOf, TypesOf
<1>3. QuietFrame(th)
  BY <1>2, CountsIsQuiet DEF QuietFrame, Frame, Quiet
<1>4. DOMAIN thread' = Nodes /\ MovesQuietly(n) /\ \A m \in Nodes \ {n} : thread'[m] = thread[m]
  BY <1>1, <1>3, SetsQuietly DEF FindStale, At
<1> QED
  BY <1>4, QuietThreadStep DEF FindStale, OnlyStep, IInv, Shapes

LEMMA ExpiredLeaves ==
  ASSUME IInv, NEW n \in Nodes, NEW gone
  PROVE  LeavesPieces(memory[n], Expired(memory[n], gone)) /\ Expired(memory[n], gone).wanted = memory[n].wanted
  BY DEF IInv, Good, TypesOf, LeavesPieces, Expired, Fields

LEMMA ExpireStep ==
  ASSUME IInv, NEW n \in Nodes, NEW t \in Threads, Expire(n, t)
  PROVE  IInv'
<1>0. DOMAIN thread[n][t] = Frame /\ thread[n][t].then \in Back /\ thread[n][t].list \subseteq Pieces
  BY DEF IInv, Good, ThreadsOf
<1>1. PICK gone : memory' = [memory EXCEPT ![n] = Expired(@, gone)]
  BY DEF Expire
<1>2. Leaves(n) /\ DOMAIN memory' = Nodes /\ \A m \in Nodes \ {n} : memory'[m] = memory[m]
  BY <1>1, ExpiredLeaves, LeavesIf DEF Expire
<1>3. DOMAIN thread' = Nodes /\ MovesQuietly(n) /\ \A m \in Nodes \ {n} : thread'[m] = thread[m]
  <2>1. CASE Abort(n, t)
    BY <2>1, ReturnsQuietly DEF Expire, At
  <2>2. CASE \E pending : Sets(n, t, Counts(thread[n][t], pending))
    BY <2>2, <1>0, CountsIsQuiet, SetsQuietly DEF Expire, At
  <2> QED BY <2>1, <2>2 DEF Expire, Sets
<1> QED
  BY <1>2, <1>3, QuietEverywhere DEF Expire, IInv, Shapes

LEMMA PickStep ==
  ASSUME IInv, NEW n \in Nodes, NEW t \in Threads, Pick(n, t)
  PROVE  IInv'
<1>0. DOMAIN thread[n][t] = Frame /\ thread[n][t].then \in Back /\ thread[n][t].list \subseteq Pieces
  BY DEF IInv, Good, ThreadsOf
<1>1. PICK list \in SUBSET Pieces : Sets(n, t, IF list = {} THEN Returns(thread[n][t])
                             ELSE [thread[n][t] EXCEPT !.at = "ask", !.free = 0, !.list = list])
  BY DEF Pick, Sets, Missing
<1>2. QuietFrame(IF list = {} THEN Returns(thread[n][t])
                 ELSE [thread[n][t] EXCEPT !.at = "ask", !.free = 0, !.list = list])
  BY <1>0, FramesOfReturns DEF QuietFrame, Frame, Quiet
<1>3. DOMAIN thread' = Nodes /\ MovesQuietly(n) /\ \A m \in Nodes \ {n} : thread'[m] = thread[m]
  BY <1>1, <1>2, SetsQuietly DEF Pick, At
<1> QED
  BY <1>3, QuietThreadStep DEF Pick, OnlyStep, IInv, Shapes

----------------------------------------------------------------------------
(* Messages.                                                                *)

LEMMA ToOthersTyped ==
  ASSUME IInv, NEW n \in Nodes, NEW msg \in Messages
  PROVE  ToOthers(n, msg) \in [Nodes -> Seq(Messages)]
  BY DEF IInv, Shapes, ToOthers

LEMMA HandedTyped ==
  ASSUME IInv, NEW n \in Nodes, inbox[n] # <<>>
  PROVE  /\ Head(inbox[n]) \in Messages
         /\ [inbox EXCEPT ![n] = Tail(@)] \in [Nodes -> Seq(Messages)]
<1>1. inbox[n] \in Seq(Messages)
  BY DEF IInv, Shapes
<1>2. Head(inbox[n]) \in Messages /\ Tail(inbox[n]) \in Seq(Messages)
  BY <1>1
<1> QED BY <1>2 DEF IInv, Shapes

LEMMA MessageFields ==
  ASSUME NEW msg \in Messages
  PROVE  /\ msg.type = "request" => msg.from \in Nodes /\ msg.piece \in Pieces
         /\ msg.type = "data" =>
               /\ msg.piece \in Pieces /\ msg.below \in BOOLEAN
               /\ msg.data \in Content /\ msg.hash \in Content
               /\ msg = PieceData(msg.piece, msg.below, msg.data, msg.hash)
  BY DEF Messages, Announcement, Need, Request, PieceData

LEMMA MadeMessages ==
  /\ Announcement \in Messages /\ Need \in Messages
  /\ \A n \in Nodes, p \in Pieces : Request(n, p) \in Messages
  /\ \A p \in Pieces, b \in BOOLEAN, d, h \in Content : PieceData(p, b, d, h) \in Messages
  BY DEF Messages

\* A message with damaged bytes, or with its index counted from the end.
LEMMA DamagedMessages ==
  ASSUME NEW msg \in Messages, msg.type = "data"
  PROVE  /\ \A hash \in {"right", "wrong"} : [msg EXCEPT !.data = "wrong", !.hash = hash] \in Messages
         /\ [msg EXCEPT !.below = TRUE] \in Messages
<1>1. PICK p \in Pieces, b \in BOOLEAN, d \in Content, h \in Content : msg = PieceData(p, b, d, h)
  BY MessageFields
<1>2. ASSUME NEW hash \in {"right", "wrong"}
      PROVE  [msg EXCEPT !.data = "wrong", !.hash = hash] = PieceData(p, b, "wrong", hash)
  <2> DEFINE new == [msg EXCEPT !.data = "wrong", !.hash = hash]
  <2>1. new \in [type: {"data"}, piece: {p}, below: {b}, data: {"wrong"}, hash: {hash}]
    BY <1>1 DEF PieceData
  <2> HIDE DEF new
  <2>2. new = PieceData(p, b, "wrong", hash)
    BY <2>1 DEF PieceData
  <2> QED BY <2>2 DEF new
<1>3. [msg EXCEPT !.below = TRUE] = PieceData(p, TRUE, d, h)
  <2> DEFINE new == [msg EXCEPT !.below = TRUE]
  <2>1. new \in [type: {"data"}, piece: {p}, below: {TRUE}, data: {d}, hash: {h}]
    BY <1>1 DEF PieceData
  <2> HIDE DEF new
  <2>2. new = PieceData(p, TRUE, d, h)
    BY <2>1 DEF PieceData
  <2> QED BY <2>2 DEF new
<1>4. \A hash \in {"right", "wrong"} : PieceData(p, b, "wrong", hash) \in Messages
  BY MadeMessages DEF Content
<1>5. PieceData(p, TRUE, d, h) \in Messages
  BY MadeMessages
<1> QED BY <1>2, <1>3, <1>4, <1>5

LEMMA AskStep ==
  ASSUME IInv, NEW n \in Nodes, NEW t \in Threads, Ask(n, t)
  PROVE  IInv'
<1>0. /\ DOMAIN thread[n][t] = Frame /\ thread[n][t].then \in Back /\ thread[n][t].list \subseteq Pieces
      /\ memory[n].late \subseteq Pieces
  BY DEF IInv, Good, ThreadsOf, TypesOf
<1> DEFINE Added(p) == [memory[n] EXCEPT !.pending = memory[n].pending \cup {p},
                                         !.late = memory[n].late \ {p}]
           Dropped(p) == [memory[n] EXCEPT !.pending = memory[n].pending \ {p},
                                           !.late = memory[n].late \ {p}]
<1>1. PICK p \in thread[n][t].list :
         /\ \/ /\ memory' = [memory EXCEPT ![n] = Added(p)]
               /\ inbox' = ToOthers(n, Request(n, p))
            \/ /\ memory' = [memory EXCEPT ![n] = Dropped(p)]
               /\ UNCHANGED inbox
         /\ Sets(n, t, Asked(thread[n][t], p))
  <2>1. PICK p \in thread[n][t].list :
         /\ \/ /\ memory' = [memory EXCEPT ![n].pending = @ \cup {p}, ![n].late = @ \ {p}]
               /\ inbox' = ToOthers(n, Request(n, p))
            \/ /\ memory' = [memory EXCEPT ![n].pending = @ \ {p}, ![n].late = @ \ {p}]
               /\ UNCHANGED inbox
         /\ thread' = [thread EXCEPT ![n][t] = Asked(@, p)]
    BY DEF Ask
  <2>2. Sets(n, t, Asked(thread[n][t], p))
    BY <2>1 DEF Sets
  <2>3. memory' = [memory EXCEPT ![n].pending = @ \cup {p}, ![n].late = @ \ {p}]
        => memory' = [memory EXCEPT ![n] = Added(p)]
    BY DEF IInv, Shapes, Good, TypesOf, Fields
  <2>4. memory' = [memory EXCEPT ![n].pending = @ \ {p}, ![n].late = @ \ {p}]
        => memory' = [memory EXCEPT ![n] = Dropped(p)]
    BY DEF IInv, Shapes, Good, TypesOf, Fields
  <2> QED BY <2>1, <2>2, <2>3, <2>4
<1>2. p \in Pieces
  BY <1>0
<1>3. PICK new \in {Added(p), Dropped(p)} : memory' = [memory EXCEPT ![n] = new]
  BY <1>1
<1>4. LeavesPieces(memory[n], new) /\ new.wanted = memory[n].wanted
  <2>1. LeavesPieces(memory[n], Added(p)) /\ Added(p).wanted = memory[n].wanted
    BY <1>0 DEF LeavesPieces, IInv, Good, TypesOf, Fields
  <2>2. LeavesPieces(memory[n], Dropped(p)) /\ Dropped(p).wanted = memory[n].wanted
    BY <1>0 DEF LeavesPieces, IInv, Good, TypesOf, Fields
  <2> QED BY <2>1, <2>2
<1>6. Leaves(n) /\ DOMAIN memory' = Nodes /\ \A m \in Nodes \ {n} : memory'[m] = memory[m]
  BY <1>3, <1>4, LeavesIf DEF Ask
<1>7. QuietFrame(Asked(thread[n][t], p))
  BY <1>0, FramesOfReturns DEF Asked, QuietFrame, Frame, Quiet, Ask, At
<1>8. DOMAIN thread' = Nodes /\ MovesQuietly(n) /\ \A m \in Nodes \ {n} : thread'[m] = thread[m]
  BY <1>1, <1>7, SetsQuietly DEF Ask, At
<1>9. inbox' \in [Nodes -> Seq(Messages)]
  BY <1>1, <1>2, MadeMessages, ToOthersTyped DEF IInv, Shapes
<1> QED
  BY <1>6, <1>8, <1>9, QuietEverywhere DEF Ask

LEMMA ListenerMoves ==
  ASSUME IInv, NEW n \in Nodes, NEW th, Listener(n, th), QuietFrame(th), At(n, "listener", "idle")
  PROVE  DOMAIN thread' = Nodes /\ MovesQuietly(n) /\ \A m \in Nodes \ {n} : thread'[m] = thread[m]
  BY ListenerIsNoWorker, SetsQuietly DEF Listener, Sets, At

LEMMA BeginFrames ==
  /\ QuietFrame([Resting EXCEPT !.at = "begin"]) /\ QuietFrame([Resting EXCEPT !.at = "stale"])
  /\ QuietFrame([Resting EXCEPT !.at = "begin", !.held = TRUE])
  BY DEF QuietFrame, Resting, Frame, Quiet, Back

\* A thread that does nothing moves quietly.
LEMMA StaysQuietly ==
  ASSUME IInv, NEW n \in Nodes, thread' = thread
  PROVE  DOMAIN thread' = Nodes /\ MovesQuietly(n) /\ \A m \in Nodes \ {n} : thread'[m] = thread[m]
  BY DEF IInv, Shapes, MovesQuietly, Good, ThreadsOf

LEMMA HearsAnnouncementStep ==
  ASSUME IInv, NEW n \in Nodes, HearsAnnouncement(n)
  PROVE  IInv'
<1>1. inbox' \in [Nodes -> Seq(Messages)]
  BY HandedTyped DEF HearsAnnouncement, Takes
<1>2. DOMAIN thread' = Nodes /\ MovesQuietly(n) /\ \A m \in Nodes \ {n} : thread'[m] = thread[m]
  BY ListenerMoves, BeginFrames, StaysQuietly DEF HearsAnnouncement, Takes
<1> QED
  BY <1>1, <1>2, QuietThreadStep DEF HearsAnnouncement

LEMMA WantedLeaves ==
  ASSUME IInv, NEW n \in Nodes
  PROVE  LeavesPieces(memory[n], [memory[n] EXCEPT !.wanted = TRUE])
         /\ [memory[n] EXCEPT !.wanted = TRUE].wanted
  BY DEF LeavesPieces, IInv, Good, TypesOf, Fields

LEMMA HearsNeedStep ==
  ASSUME IInv, NEW n \in Nodes, HearsNeed(n)
  PROVE  IInv'
<1>1. inbox' \in [Nodes -> Seq(Messages)]
  BY HandedTyped DEF HearsNeed, Takes
<1>2. CASE UNCHANGED <<memory, thread>>
  BY <1>1, <1>2, StaysQuietly, QuietThreadStep DEF HearsNeed
<1>3. CASE /\ memory' = [memory EXCEPT ![n].wanted = TRUE]
           /\ Listener(n, [Resting EXCEPT !.at = "begin"])
  <2>1. Leaves(n) /\ DOMAIN memory' = Nodes /\ \A m \in Nodes \ {n} : memory'[m] = memory[m]
    BY <1>3, WantedLeaves, LeavesIf DEF HearsNeed
  <2>2. DOMAIN thread' = Nodes /\ MovesQuietly(n) /\ \A m \in Nodes \ {n} : thread'[m] = thread[m]
    BY <1>3, ListenerMoves, BeginFrames DEF HearsNeed, Takes
  <2> QED BY <1>1, <2>1, <2>2, QuietEverywhere DEF HearsNeed
<1> QED BY <1>2, <1>3 DEF HearsNeed

LEMMA HearsRequestStep ==
  ASSUME IInv, NEW n \in Nodes, HearsRequest(n)
  PROVE  IInv'
<1> DEFINE msg == Head(inbox[n])
           bytes == Read(n, msg.piece)
           handed == [inbox EXCEPT ![n] = Tail(@)]
<1>1. msg \in Messages /\ handed \in [Nodes -> Seq(Messages)]
  BY HandedTyped DEF HearsRequest, Takes
<1>2. msg.type = "request" /\ msg.from \in Nodes /\ msg.piece \in Pieces
  BY <1>1, MessageFields DEF HearsRequest
<1>3. bytes \in Content
  BY <1>2 DEF IInv, Good, TypesOf, Read, Content
<1>4. PieceData(msg.piece, FALSE, bytes, bytes) \in Messages
  BY <1>2, <1>3, MadeMessages
<1>5. inbox' = handed \/ inbox' = [handed EXCEPT ![msg.from] = Append(@, PieceData(msg.piece, FALSE, bytes, bytes))]
  BY DEF HearsRequest
<1>6. inbox' \in [Nodes -> Seq(Messages)]
  <2>1. ASSUME inbox' = [handed EXCEPT ![msg.from] = Append(@, PieceData(msg.piece, FALSE, bytes, bytes))]
        PROVE  inbox' \in [Nodes -> Seq(Messages)]
    <3> DEFINE reply == PieceData(msg.piece, FALSE, bytes, bytes)
    <3>1. reply \in Messages /\ handed[msg.from] \in Seq(Messages)
      BY <1>1, <1>2, <1>4
    <3>3. inbox' = [handed EXCEPT ![msg.from] = Append(handed[msg.from], reply)]
      BY <2>1
    <3> HIDE DEF msg, handed, reply
    <3>2. Append(handed[msg.from], reply) \in Seq(Messages)
      BY <3>1
    <3> QED BY <3>2, <3>3, <1>1, <1>2
  <2> QED BY <2>1, <1>1, <1>5
<1> QED
  BY <1>6, StaysQuietly, QuietThreadStep DEF HearsRequest

LEMMA TravelStep ==
  ASSUME IInv, NEW n \in Nodes, Lose(n) \/ Damage(n) \/ AsksOthers(n) \/ MetadataExpires
  PROVE  IInv'
<1>1. CASE Lose(n)
  BY <1>1, HandedTyped, StaysQuietly, QuietThreadStep DEF Lose
<1>2. CASE Damage(n)
  <2> DEFINE msg == Head(inbox[n])
  <2>1. msg \in Messages /\ msg.type = "data" /\ inbox[n] \in Seq(Messages) /\ inbox[n] # <<>>
    BY <1>2, HandedTyped DEF Damage, IInv, Shapes
  <2>2. msg = inbox[n][1] /\ 1 \in DOMAIN inbox[n]
    BY <2>1
  <2>3. PICK new \in Messages : inbox' = [inbox EXCEPT ![n] = [inbox[n] EXCEPT ![1] = new]]
    <3>1. CASE \E hash \in {"right", "wrong"} :
                  inbox' = [inbox EXCEPT ![n][1].data = "wrong", ![n][1].hash = hash]
      <4>1. PICK hash \in {"right", "wrong"} :
                  inbox' = [inbox EXCEPT ![n][1].data = "wrong", ![n][1].hash = hash]
        BY <3>1
      <4> DEFINE new == [msg EXCEPT !.data = "wrong", !.hash = hash]
      <4>3. new \in Messages
        BY <2>1, DamagedMessages
      <4>4. inbox' = [inbox EXCEPT ![n] = [inbox[n] EXCEPT ![1] = new]]
        BY <2>1, <2>2, <4>1 DEF IInv, Shapes
      <4> QED BY <4>3, <4>4
    <3>2. CASE inbox' = [inbox EXCEPT ![n][1].below = TRUE]
      <4> DEFINE new == [msg EXCEPT !.below = TRUE]
      <4>3. new \in Messages
        BY <2>1, DamagedMessages
      <4>4. inbox' = [inbox EXCEPT ![n] = [inbox[n] EXCEPT ![1] = new]]
        BY <2>1, <2>2, <3>2 DEF IInv, Shapes
      <4> QED BY <4>3, <4>4
    <3> QED BY <1>2, <3>1, <3>2 DEF Damage
  <2>4. [inbox[n] EXCEPT ![1] = new] \in Seq(Messages)
    <3> HIDE DEF msg
    <3> QED BY <2>1, <2>2, <2>3
  <2>5. inbox' \in [Nodes -> Seq(Messages)]
    <3> HIDE DEF msg
    <3> QED BY <2>3, <2>4 DEF IInv, Shapes
  <2> QED BY <1>2, <2>5, StaysQuietly, QuietThreadStep DEF Damage
<1>3. CASE AsksOthers(n)
  BY <1>3, ToOthersTyped, MadeMessages, StaysQuietly, QuietThreadStep DEF AsksOthers
<1>4. CASE MetadataExpires
  BY <1>4, StaysQuietly, QuietThreadStep DEF MetadataExpires, IInv, Shapes
<1> QED BY <1>1, <1>2, <1>3, <1>4

\* A change of memory alone.
LEMMA MemoryStep ==
  ASSUME IInv, NEW n \in Nodes, NEW new, LeavesPieces(memory[n], new),
         memory[n].wanted => new.wanted, memory' = [memory EXCEPT ![n] = new],
         UNCHANGED <<disk, inbox, thread, raced>>
  PROVE  IInv'
  BY LeavesIf, StaysQuietly, QuietEverywhere DEF IInv, Shapes

LEMMA TimeStep ==
  ASSUME IInv, NEW n \in Nodes, NEW p \in Pieces, RequestTimesOut(n, p) \/ BackoffEnds(n, p)
  PROVE  IInv'
<1>1. CASE RequestTimesOut(n, p)
  <2> DEFINE new == [memory[n] EXCEPT !.late = memory[n].late \cup {p}]
  <2>1. LeavesPieces(memory[n], new) /\ new.wanted = memory[n].wanted
    BY DEF IInv, Good, TypesOf, LeavesPieces, Fields
  <2>2. memory' = [memory EXCEPT ![n] = new]
    BY <1>1 DEF RequestTimesOut
  <2> HIDE DEF new
  <2> QED BY <1>1, <2>1, <2>2, MemoryStep DEF RequestTimesOut
<1>2. CASE BackoffEnds(n, p)
  <2> DEFINE new == [memory[n] EXCEPT !.backoff = memory[n].backoff \ {p}]
  <2>1. LeavesPieces(memory[n], new) /\ new.wanted = memory[n].wanted
    BY DEF IInv, Good, TypesOf, LeavesPieces, Fields
  <2>2. memory' = [memory EXCEPT ![n] = new]
    BY <1>2 DEF BackoffEnds
  <2> HIDE DEF new
  <2> QED BY <1>2, <2>1, <2>2, MemoryStep DEF BackoffEnds
<1> QED BY <1>1, <1>2

LEMMA WorkersAreThreads == Workers \subseteq Threads
  BY DEF Threads

LEMMA TickStep ==
  ASSUME IInv, NEW n \in Nodes, NEW w \in Workers, Tick(n, w)
  PROVE  IInv'
<1>0. /\ w \in Threads /\ thread[n][w].at = "idle"
      /\ DOMAIN thread[n][w] = Frame /\ thread[n][w].then \in Back /\ thread[n][w].list \subseteq Pieces
  BY WorkersAreThreads DEF IInv, Good, ThreadsOf, Tick, At
<1> DEFINE th == [thread[n][w] EXCEPT !.at = "fetch", !.then = "settle"]
<1>1. DOMAIN thread' = Nodes /\ MovesQuietly(n) /\ \A m \in Nodes \ {n} : thread'[m] = thread[m]
  <2>1. CASE GoesTo(n, w, "settle")
    BY <1>0, <2>1, GoesQuietly DEF Quiet, Back
  <2>2. CASE thread' = [thread EXCEPT ![n][w].at = "fetch", ![n][w].then = "settle"]
    <3>1. Sets(n, w, th) BY <2>2 DEF Sets
    <3>2. QuietFrame(th) BY <1>0 DEF QuietFrame, Frame, Quiet, Back
    <3> QED BY <1>0, <3>1, <3>2, SetsQuietly
  <2> QED BY <2>1, <2>2 DEF Tick
<1> QED
  BY <1>1, QuietThreadStep DEF Tick, OnlyStep, IInv, Shapes

LEMMA RefillStep ==
  ASSUME IInv, NEW n \in Nodes, NEW w \in Workers, Refill(n, w)
  PROVE  IInv'
<1>0. w \in Threads /\ thread[n][w].at = "refill"
  BY WorkersAreThreads DEF Refill, At
<1>1. DOMAIN thread' = Nodes /\ MovesQuietly(n) /\ \A m \in Nodes \ {n} : thread'[m] = thread[m]
  BY <1>0, GoesQuietly, ReturnsQuietly DEF Refill, Quiet
<1> QED
  BY <1>1, QuietThreadStep DEF Refill, OnlyStep, IInv, Shapes

LEMMA SettleStep ==
  ASSUME IInv, NEW n \in Nodes, NEW w \in Workers, Settle(n, w)
  PROVE  IInv'
<1>0. /\ w \in Threads /\ thread[n][w].at = "settle"
      /\ DOMAIN thread[n][w] = Frame /\ thread[n][w].then \in Back /\ thread[n][w].list \subseteq Pieces
  BY WorkersAreThreads DEF IInv, Good, ThreadsOf, Settle, At
<1>1. CASE /\ Complete(n)
           /\ memory' = [memory EXCEPT ![n].wanted = FALSE]
           /\ Abort(n, w)
  <2> DEFINE new == [memory[n] EXCEPT !.wanted = FALSE]
  <2>1. LeavesPieces(memory[n], new)
    BY DEF LeavesPieces, IInv, Good, TypesOf, Fields
  <2>2. memory[n].known => memory[n].have = Pieces \/ memory[n].below # {}
    BY <1>1, CompleteMeans DEF IInv, Good
  <2>3. memory' = [memory EXCEPT ![n] = new]
    BY <1>1
  <2>4. Leaves(n) /\ DOMAIN memory' = Nodes /\ \A m \in Nodes \ {n} : memory'[m] = memory[m]
    <3> HIDE DEF new
    <3> QED BY <2>1, <2>2, <2>3, LeavesIf DEF Settle
  <2>5. DOMAIN thread' = Nodes /\ MovesQuietly(n) /\ \A m \in Nodes \ {n} : thread'[m] = thread[m]
    BY <1>0, <1>1, ReturnsQuietly
  <2> QED BY <2>4, <2>5, QuietEverywhere DEF Settle, IInv, Shapes
<1>2. CASE UNCHANGED memory /\ (Abort(n, w) \/ GoesTo(n, w, "stale"))
  <2>1. DOMAIN thread' = Nodes /\ MovesQuietly(n) /\ \A m \in Nodes \ {n} : thread'[m] = thread[m]
    BY <1>0, <1>2, ReturnsQuietly, GoesQuietly DEF Quiet
  <2> QED BY <1>2, <2>1, QuietThreadStep DEF Settle, IInv, Shapes
<1>3. CASE /\ memory' = [memory EXCEPT ![n].pending = {}, ![n].late = {}, ![n].backoff = {}]
           /\ thread' = [thread EXCEPT ![n][w].at = "stale", ![n][w].then = "refill"]
  <2> DEFINE new == [memory[n] EXCEPT !.pending = {}, !.late = {}, !.backoff = {}]
             th  == [thread[n][w] EXCEPT !.at = "stale", !.then = "refill"]
  <2>1. LeavesPieces(memory[n], new) /\ new.wanted = memory[n].wanted
    BY DEF LeavesPieces, IInv, Good, TypesOf, Fields
  <2>2. memory' = [memory EXCEPT ![n] = new]
    BY <1>3 DEF IInv, Shapes, Good, TypesOf, Fields
  <2>3. Leaves(n) /\ DOMAIN memory' = Nodes /\ \A m \in Nodes \ {n} : memory'[m] = memory[m]
    <3> HIDE DEF new
    <3> QED BY <2>1, <2>2, LeavesIf DEF Settle
  <2>4. Sets(n, w, th)
    BY <1>3 DEF Sets
  <2>5. QuietFrame(th)
    BY <1>0 DEF QuietFrame, Frame, Quiet, Back
  <2>6. DOMAIN thread' = Nodes /\ MovesQuietly(n) /\ \A m \in Nodes \ {n} : thread'[m] = thread[m]
    BY <1>0, <2>4, <2>5, SetsQuietly
  <2> QED BY <2>3, <2>6, QuietEverywhere DEF Settle, IInv, Shapes
<1> QED BY <1>1, <1>2, <1>3 DEF Settle

LEMMA EnsureStep ==
  ASSUME IInv, NEW n \in Nodes, NEW w \in Workers, Ensure(n, w)
  PROVE  IInv'
<1>0. w \in Threads /\ thread[n][w].at = "idle"
  BY WorkersAreThreads DEF Ensure, At
<1>1. Leaves(n) /\ DOMAIN memory' = Nodes /\ \A m \in Nodes \ {n} : memory'[m] = memory[m]
  BY WantedLeaves, LeavesIf DEF Ensure
<1>2. DOMAIN thread' = Nodes /\ MovesQuietly(n) /\ \A m \in Nodes \ {n} : thread'[m] = thread[m]
  BY <1>0, GoesQuietly DEF Ensure, Quiet
<1> QED
  BY <1>1, <1>2, QuietEverywhere DEF Ensure, IInv, Shapes

LEMMA TellStep ==
  ASSUME IInv, NEW n \in Nodes, Tell(n)
  PROVE  IInv'
  BY ListenerIsNoWorker, ReturnsQuietly, QuietThreadStep DEF Tell, At, OnlyStep, IInv, Shapes

LEMMA AnnounceStep ==
  ASSUME IInv, NEW n \in Nodes, NEW w \in Workers, Announce(n, w)
  PROVE  IInv'
  BY WorkersAreThreads, ReturnsQuietly, QuietThreadStep, ToOthersTyped, MadeMessages DEF Announce, At

----------------------------------------------------------------------------
(* Steps that move pieces.                                                  *)

LEMMA OneNode ==
  ASSUME IInv, NEW n \in Nodes, Good(n)', Shapes', \A m \in Nodes \ {n} : Same(m)
  PROVE  IInv'
  BY SameIsGood DEF IInv

\* The disk of one node is changed.
LEMMA DiskOfOne ==
  ASSUME Shapes, NEW n \in Nodes, NEW new, disk' = [disk EXCEPT ![n] = new]
  PROVE  DOMAIN disk' = Nodes /\ disk'[n] = new /\ \A m \in Nodes \ {n} : disk'[m] = disk[m]
  BY DEF Shapes

LEMMA LoadedFacts ==
  ASSUME NEW n \in Nodes, TypesOf(n), NEW gone
  PROVE  LET new == Loaded(memory[n], disk[n], gone)
         IN  /\ DOMAIN new = Fields /\ new.late = memory[n].late /\ new.below = memory[n].below
             /\ new.known = memory[n].known /\ new.wanted = memory[n].wanted
             /\ memory[n].have \subseteq new.have /\ new.have \subseteq Pieces
             /\ new.data \in [Pieces -> {"none", "right"}]
             /\ \A p \in Pieces : memory[n].data[p] = "right" => new.data[p] = "right"
             /\ \A p \in new.have \ memory[n].have : new.data[p] = "right"
             /\ \A p \in Pieces : new.data[p] = "right" => memory[n].data[p] = "right" \/ p \in new.have
<1> DEFINE found == {p \in Pieces \ gone : disk[n].piece[p] = "right"}
           data == [p \in Pieces |-> IF p \in found THEN "right" ELSE memory[n].data[p]]
           new == [memory[n] EXCEPT !.have = memory[n].have \cup found, !.data = data]
<1>1. Loaded(memory[n], disk[n], gone) = new
  BY DEF Loaded
<1>2. /\ DOMAIN new = Fields /\ new.late = memory[n].late /\ new.below = memory[n].below
      /\ new.known = memory[n].known /\ new.wanted = memory[n].wanted
      /\ new.have = memory[n].have \cup found /\ new.data = data
  <2> HIDE DEF found, data
  <2> QED BY DEF TypesOf, Fields
<1>3. data \in [Pieces -> {"none", "right"}]
  BY DEF TypesOf
<1> HIDE DEF new
<1> QED BY <1>1, <1>2, <1>3 DEF TypesOf

\* Piece files that cannot be read are gone.
LEMMA WithoutFacts ==
  ASSUME NEW d, DOMAIN d = {"piece", "file", "meta"}, d.piece \in [Pieces -> Content], NEW gone
  PROVE  /\ DOMAIN Without(d, gone) = {"piece", "file", "meta"}
         /\ Without(d, gone).file = d.file /\ Without(d, gone).meta = d.meta
         /\ Without(d, gone).piece \in [Pieces -> Content]
         /\ \A p \in Pieces : Without(d, gone).piece[p] = IF p \in gone THEN "none" ELSE d.piece[p]
<1> DEFINE piece == [p \in Pieces |-> IF p \in gone THEN "none" ELSE d.piece[p]]
<1>1. Without(d, gone) = [d EXCEPT !.piece = piece]
  BY DEF Without
<1>2. piece \in [Pieces -> Content] /\ \A p \in Pieces : piece[p] = IF p \in gone THEN "none" ELSE d.piece[p]
  BY DEF Content
<1> HIDE DEF piece
<1> QED BY <1>1, <1>2

LEMMA LoadStep ==
  ASSUME IInv, NEW n \in Nodes, NEW t \in Threads, Load(n, t)
  PROVE  IInv'
<1>a. PICK gone : Loads(n, t, gone)
  BY DEF Load, LoadFails
<1> DEFINE new == Loaded(memory[n], disk[n], gone)
           kept == Without(disk[n], gone)
<1>0. Good(n)
  BY DEF IInv
<1>1. memory' = [memory EXCEPT ![n] = new] /\ disk' = [disk EXCEPT ![n] = kept]
  BY <1>a DEF Loads
<1>2. /\ DOMAIN memory' = Nodes /\ memory'[n] = new /\ \A m \in Nodes \ {n} : memory'[m] = memory[m]
      /\ DOMAIN disk' = Nodes /\ disk'[n] = kept /\ \A m \in Nodes \ {n} : disk'[m] = disk[m]
  <2> HIDE DEF new, kept
  <2> QED BY <1>1, MemoryOfOne, DiskOfOne DEF IInv
<1>3. /\ DOMAIN thread' = Nodes /\ MovesQuietly(n) /\ \A m \in Nodes \ {n} : thread'[m] = thread[m]
  BY <1>a, GoesQuietly DEF Loads, At, Quiet
<1>4. /\ DOMAIN new = Fields /\ new.late = memory[n].late /\ new.below = memory[n].below
      /\ new.known = memory[n].known /\ new.wanted = memory[n].wanted
      /\ memory[n].have \subseteq new.have /\ new.have \subseteq Pieces
      /\ new.data \in [Pieces -> {"none", "right"}]
      /\ \A p \in Pieces : memory[n].data[p] = "right" => new.data[p] = "right"
      /\ \A p \in new.have \ memory[n].have : new.data[p] = "right"
      /\ \A p \in Pieces : new.data[p] = "right" => memory[n].data[p] = "right" \/ p \in new.have
  BY <1>0, LoadedFacts DEF Good
<1>b. /\ DOMAIN kept = {"piece", "file", "meta"}
      /\ kept.file = disk[n].file /\ kept.meta = disk[n].meta
      /\ kept.piece \in [Pieces -> Content]
      /\ \A p \in Pieces : kept.piece[p] = IF p \in gone THEN "none" ELSE disk[n].piece[p]
  BY <1>0, WithoutFacts DEF Good, TypesOf
<1> HIDE DEF new, kept
<1>5. raced' = raced /\ inbox' = inbox
  BY <1>a DEF Loads
<1>c. /\ ThreadsOf(n)'
      /\ \A stages \in SUBSET ({"store"} \union AssemblyEnds) : ListenerIn(n, stages)' => ListenerIn(n, stages)
      /\ ListenerIn(n, {"unlink"}) => ListenerIn(n, {"unlink"})'
      /\ ListenerIn(n, {"store"})' => thread'[n]["listener"] = thread[n]["listener"]
      /\ \A w \in Workers, stage \in Making : thread'[n][w].at = stage => thread[n][w].at = stage
      /\ Filling(n)' <=> Filling(n)
  BY <1>0, <1>3, QuietThreads DEF Good
<1>6. InHand(n) => InHand(n)'
  BY <1>0, <1>2, <1>4 DEF InHand, Good, TypesOf
<1>7. OnFile(n)' <=> OnFile(n)
  BY <1>2, <1>5, <1>b DEF OnFile, Overwritten
<1>8. memory[n].have = Pieces => memory'[n].have = Pieces
  BY <1>2, <1>4
<1>d. MadeUp(n) => MadeUp(n)'
  BY <1>0, <1>2, <1>4, MadeUpGrows DEF Good, TypesOf
<1>9. TypesOf(n)'
  BY <1>0, <1>2, <1>4, <1>b DEF Good, TypesOf
<1>11. Held(n)'
  <2>1. ASSUME NEW p \in memory'[n].have
        PROVE  \/ memory'[n].data[p] = "right"
               \/ Filling(n)'
               \/ /\ memory'[n].have = Pieces /\ OnFile(n)'
                  /\ disk'[n].piece[p] = "none" \/ ListenerIn(n, {"unlink"})'
    <3>1. CASE p \in memory[n].have
      <4>1. \/ memory[n].data[p] = "right"
            \/ Filling(n)
            \/ /\ memory[n].have = Pieces /\ OnFile(n)
               /\ disk[n].piece[p] = "none" \/ ListenerIn(n, {"unlink"})
        BY <1>0, <3>1 DEF Good, Held
      <4>2. p \in Pieces
        BY <1>0, <3>1 DEF Good, TypesOf
      <4>3. disk[n].piece[p] = "none" => disk'[n].piece[p] = "none"
        BY <1>2, <1>b, <4>2
      <4> QED BY <4>1, <4>2, <4>3, <1>2, <1>4, <1>7, <1>8, <1>c
    <3>2. CASE p \notin memory[n].have
      BY <3>2, <2>1, <1>2, <1>4
    <3> QED BY <3>1, <3>2
  <2>2. \A p \in Pieces : memory'[n].data[p] = "right" => p \in memory'[n].have
    BY <1>0, <1>2, <1>4 DEF Good, Held
  <2> QED BY <2>1, <2>2 DEF Held
<1>12. Assembly(n)'
  BY <1>0, <1>2, <1>4, <1>7, <1>8, <1>c, <1>d DEF Good, Assembly, AssemblyEnds
<1>e. Unassembled(n) => Unassembled(n)'
  BY <1>2, <1>4, <1>c DEF Unassembled, AssemblyEnds
<1>13. Creation(n)'
  <2> SUFFICES ASSUME NEW w \in Workers
               PROVE  /\ thread'[n][w].at = "own" => memory'[n].known
                      /\ thread'[n][w].at \in {"fill", "keep", "record"} =>
                            memory'[n].known /\ memory'[n].have = Pieces
                      /\ thread'[n][w].at \in {"fill", "keep"} /\ n \notin raced' => Unassembled(n)'
                      /\ thread'[n][w].at = "keep" /\ n \notin raced' => InHand(n)'
    BY DEF Creation
  <2> QED BY <1>0, <1>2, <1>4, <1>5, <1>6, <1>8, <1>c, <1>e DEF Good, Creation, Making
<1>14. Saved(n)'
  BY <1>0, <1>2, <1>4, <1>b, <1>8 DEF Good, Saved
<1>15. Good(n)'
  BY <1>c, <1>9, <1>11, <1>12, <1>13, <1>14 DEF Good
<1>16. Shapes' /\ \A m \in Nodes \ {n} : Same(m)
  BY <1>2, <1>3, <1>5 DEF IInv, Shapes, Same
<1> QED BY <1>15, <1>16, OneNode

\* The listener goes to a stage of its own.
LEMMA ListenerSets ==
  ASSUME IInv, NEW n \in Nodes, NEW th, Sets(n, "listener", th), DOMAIN th = Frame,
         th.at \in Quiet \union {"store"} \union AssemblyEnds, th.then \in Back, th.list \subseteq Pieces
  PROVE  /\ DOMAIN thread' = Nodes /\ ThreadsOf(n)' /\ thread'[n]["listener"] = th
         /\ \A w \in Workers : thread'[n][w] = thread[n][w]
         /\ \A m \in Nodes \ {n} : thread'[m] = thread[m]
<1>1. /\ DOMAIN thread' = Nodes /\ DOMAIN thread'[n] = Threads
      /\ thread'[n]["listener"] = th
      /\ \A u \in Threads \ {"listener"} : thread'[n][u] = thread[n][u]
      /\ \A m \in Nodes \ {n} : thread'[m] = thread[m]
  BY ListenerIsNoWorker, SetsOne DEF IInv, Good
<1>2. \A w \in Workers : thread'[n][w] = thread[n][w]
  BY <1>1, ListenerIsNoWorker DEF Threads
<1>3. ThreadsOf(n)'
  BY <1>1, <1>2 DEF ThreadsOf, IInv, Good
<1> QED BY <1>1, <1>2, <1>3

LEMMA ListenerGoes ==
  ASSUME IInv, NEW n \in Nodes, NEW stage \in Quiet \union {"store"} \union AssemblyEnds,
         GoesTo(n, "listener", stage)
  PROVE  /\ DOMAIN thread' = Nodes /\ ThreadsOf(n)' /\ thread'[n]["listener"].at = stage
         /\ \A w \in Workers : thread'[n][w] = thread[n][w]
         /\ \A m \in Nodes \ {n} : thread'[m] = thread[m]
<1> DEFINE th == [thread[n]["listener"] EXCEPT !.at = stage]
<1>1. Sets(n, "listener", th)
  BY DEF GoesTo, Sets
<1>2. /\ DOMAIN th = Frame /\ th.at = stage /\ th.then \in Back /\ th.list \subseteq Pieces
  BY ListenerIsNoWorker DEF IInv, Good, ThreadsOf, Frame
<1> HIDE DEF th
<1> QED BY <1>1, <1>2, ListenerSets

LEMMA ReceivedFacts ==
  ASSUME NEW n \in Nodes, TypesOf(n), NEW msg \in Messages, msg.type = "data", msg.data = "right"
  PROVE  LET new == Received(memory[n], msg)
         IN  /\ DOMAIN new = Fields /\ new.late \subseteq Pieces
             /\ new.known = memory[n].known /\ new.wanted = memory[n].wanted
             /\ msg.below =>
                   /\ new.have = memory[n].have /\ new.data = memory[n].data
                   /\ new.below = memory[n].below \cup {msg.piece}
             /\ ~msg.below =>
                   /\ new.have = memory[n].have \cup {msg.piece} /\ new.below = memory[n].below
                   /\ new.data = [memory[n].data EXCEPT ![msg.piece] =
                                     IF msg.piece \in memory[n].have THEN @ ELSE "right"]
<1>1. CASE msg.below
  <2>1. Received(memory[n], msg) = [memory[n] EXCEPT !.below = memory[n].below \cup {msg.piece}]
    BY <1>1 DEF Received
  <2> QED BY <1>1, <2>1 DEF TypesOf, Fields
<1>2. CASE ~msg.below
  <2> DEFINE p == msg.piece
             data == [memory[n].data EXCEPT ![p] = IF p \in memory[n].have THEN @ ELSE "right"]
  <2>1. Received(memory[n], msg) =
           [memory[n] EXCEPT !.pending = @ \ {p}, !.late = @ \ {p}, !.backoff = @ \ {p},
                             !.have = @ \cup {p}, !.data = data]
    BY <1>2 DEF Received, TypesOf, Fields
  <2> HIDE DEF p, data
  <2>2. LET new == Received(memory[n], msg)
        IN  /\ DOMAIN new = Fields /\ new.late = memory[n].late \ {p}
            /\ new.known = memory[n].known /\ new.wanted = memory[n].wanted
            /\ new.have = memory[n].have \cup {p} /\ new.below = memory[n].below /\ new.data = data
    BY <2>1 DEF TypesOf, Fields
  <2> QED BY <1>2, <2>2 DEF TypesOf, p, data
<1> QED BY <1>1, <1>2

\* A node that takes a piece, or an index below zero, it does not have.
LEMMA TakesStep ==
  ASSUME IInv, NEW n \in Nodes, NEW msg \in Messages, NEW new, NEW th,
         HearsPiece(n), msg.type = "data", msg.data = "right", memory[n].known,
         ~Known(memory[n], msg), new = Received(memory[n], msg),
         memory' = [memory EXCEPT ![n] = new],
         th = [Resting EXCEPT !.at = "store", !.piece = IF msg.below THEN NoPiece ELSE msg.piece],
         Listener(n, th)
  PROVE  IInv'
<1>0. Good(n) /\ At(n, "listener", "idle")
  BY DEF IInv, HearsPiece, Takes
<1>1. inbox' \in [Nodes -> Seq(Messages)]
  BY HandedTyped DEF HearsPiece, Takes
<1>2. msg.piece \in Pieces /\ msg.below \in BOOLEAN
  BY MessageFields
<1>3. /\ DOMAIN new = Fields /\ new.late \subseteq Pieces
      /\ new.known = memory[n].known /\ new.wanted = memory[n].wanted
      /\ msg.below =>
            /\ new.have = memory[n].have /\ new.data = memory[n].data
            /\ new.below = memory[n].below \cup {msg.piece}
      /\ ~msg.below =>
            /\ new.have = memory[n].have \cup {msg.piece} /\ new.below = memory[n].below
            /\ new.data = [memory[n].data EXCEPT ![msg.piece] =
                              IF msg.piece \in memory[n].have THEN @ ELSE "right"]
  BY <1>0, ReceivedFacts DEF Good
<1>4. /\ DOMAIN th = Frame /\ th.at = "store" /\ th.then \in Back /\ th.list \subseteq Pieces
      /\ th.piece = IF msg.below THEN NoPiece ELSE msg.piece
  BY DEF Resting, Frame, Back
<1>5. /\ DOMAIN thread' = Nodes /\ ThreadsOf(n)' /\ thread'[n]["listener"] = th
      /\ \A w \in Workers : thread'[n][w] = thread[n][w]
      /\ \A m \in Nodes \ {n} : thread'[m] = thread[m]
  BY <1>4, ListenerSets DEF Listener, Sets
<1>6. DOMAIN memory' = Nodes /\ memory'[n] = new /\ \A m \in Nodes \ {n} : memory'[m] = memory[m]
  BY MemoryOfOne DEF IInv
<1>7. disk' = disk /\ raced' = raced
  BY DEF HearsPiece
<1>8. /\ ~ListenerIn(n, {"unlink"}) /\ ~ListenerIn(n, {"join", "forget", "unlink"})'
      /\ ListenerIn(n, {"store"})' /\ ~ListenerIn(n, AssemblyEnds)'
      /\ ListenerIn(n, {"store"} \union AssemblyEnds)'
      /\ ~ListenerIn(n, {"forget"})' /\ ~ListenerIn(n, {"forget", "unlink"})'
      /\ ~ListenerIn(n, {"forget", "unlink", "save"})'
  BY <1>0, <1>4, <1>5 DEF ListenerIn, At, AssemblyEnds
<1>9. Filling(n)' <=> Filling(n)
  BY <1>5 DEF Filling, At
<1>10. Filling(n) => memory[n].have = Pieces
  BY <1>0 DEF Good, Creation, Filling, At
<1>11. (OnFile(n)' <=> OnFile(n)) /\ thread'[n]["listener"].piece = IF msg.below THEN NoPiece ELSE msg.piece
  BY <1>4, <1>5, <1>7 DEF OnFile, Overwritten
<1>12. TypesOf(n)'
  BY <1>0, <1>2, <1>3, <1>6, <1>7 DEF Good, TypesOf
<1>13. Saved(n)'
  <2>1. /\ memory'[n].known = memory[n].known /\ memory'[n].wanted = memory[n].wanted
        /\ memory[n].have = Pieces => memory'[n].have = Pieces
        /\ memory[n].below # {} => memory'[n].below # {}
        /\ disk'[n].meta = disk[n].meta
    <3>1. memory'[n].have = memory[n].have \/ memory'[n].have = memory[n].have \cup {msg.piece}
      BY <1>2, <1>3, <1>6
    <3>2. memory'[n].below = memory[n].below \/ memory'[n].below = memory[n].below \cup {msg.piece}
      BY <1>2, <1>3, <1>6
    <3>3. memory[n].have = Pieces => memory'[n].have = Pieces
      BY <1>2, <3>1
    <3>4. memory[n].below # {} => memory'[n].below # {}
      BY <3>2
    <3> QED BY <1>3, <1>6, <1>7, <3>3, <3>4
  <2> QED BY <1>0, <2>1 DEF Good, Saved
<1>14. Shapes' /\ \A m \in Nodes \ {n} : Same(m)
  BY <1>1, <1>5, <1>6, <1>7 DEF IInv, Shapes, Same
<1>15. CASE msg.below
  <2>1. Held(n)'
    BY <1>0, <1>3, <1>6, <1>7, <1>8, <1>9, <1>11, <1>15 DEF Good, Held
  <2>2. Assembly(n)'
    BY <1>3, <1>6, <1>8, <1>11, <1>15, SwarmAssumption DEF Assembly
  <2>3. memory'[n].below # {} /\ memory'[n].have = memory[n].have /\ memory'[n].known
    BY <1>3, <1>6, <1>15
  <2>4. Unassembled(n)' /\ (InHand(n) => InHand(n)')
    BY <1>3, <1>6, <1>8, <1>15, <2>3 DEF Unassembled, InHand
  <2>5. Creation(n)'
    BY <1>0, <1>5, <1>7, <2>3, <2>4 DEF Good, Creation
  <2>6. Good(n)'
    BY <1>5, <1>12, <1>13, <2>1, <2>2, <2>5 DEF Good
  <2> QED BY <1>14, <2>6, OneNode
<1>16. CASE ~msg.below
  <2>1. msg.piece \notin memory[n].have /\ memory[n].have # Pieces
    BY <1>2, <1>16 DEF Known
  <2>2. InHand(n) /\ ~Filling(n)
    BY <1>0, <1>10, <2>1 DEF Good, Held, InHand
  <2>3. InHand(n)' /\ memory'[n].data[msg.piece] = "right"
    BY <1>0, <1>2, <1>3, <1>6, <1>16, <2>1, <2>2 DEF Good, TypesOf, InHand
  <2>4. Held(n)'
    BY <1>0, <1>2, <1>3, <1>6, <1>16, <2>1, <2>3 DEF Good, TypesOf, Held, InHand
  <2>5. Assembly(n)'
    BY <1>3, <1>6, <1>8, <1>11, <1>16, <2>3 DEF Assembly
  <2>6. \A w \in Workers : thread[n][w].at \notin {"fill", "keep", "record"}
    BY <1>0, <2>1 DEF Good, Creation
  <2>7. Creation(n)'
    <3>1. \A w \in Workers : thread'[n][w].at \notin {"fill", "keep", "record"}
      BY <1>5, <2>6
    <3>2. \A w \in Workers : thread'[n][w].at = "own" => memory'[n].known
      BY <1>3, <1>6
    <3> QED BY <3>1, <3>2 DEF Creation
  <2>8. Good(n)'
    BY <1>5, <1>12, <1>13, <2>4, <2>5, <2>7 DEF Good
  <2> QED BY <1>14, <2>8, OneNode
<1> QED BY <1>2, <1>15, <1>16

LEMMA HearsPieceStep ==
  ASSUME IInv, NEW n \in Nodes, HearsPiece(n)
  PROVE  IInv'
<1> DEFINE msg == Head(inbox[n])
           new == Received(memory[n], msg)
<1>0. Good(n) /\ At(n, "listener", "idle")
  BY DEF IInv, HearsPiece, Takes
<1>1. inbox' \in [Nodes -> Seq(Messages)] /\ msg \in Messages /\ msg.type = "data"
  BY HandedTyped DEF HearsPiece, Takes
<1>2. msg.piece \in Pieces
  BY <1>1, MessageFields
<1>3. CASE ~Verified(n, msg)
  BY <1>1, <1>3, StaysQuietly, QuietThreadStep DEF HearsPiece
<1>4. CASE Verified(n, msg)
  <2>1. memory' = [memory EXCEPT ![n] = new]
    BY <1>4 DEF HearsPiece
  <2>2. memory[n].known /\ msg.data = "right"
    BY <1>4 DEF Verified
  <2>4. CASE Known(memory[n], msg)
    <3>1. LeavesPieces(memory[n], new) /\ new.wanted = memory[n].wanted
      <4>1. /\ DOMAIN new = Fields /\ new.late \subseteq Pieces
            /\ new.known = memory[n].known /\ new.wanted = memory[n].wanted
            /\ msg.below =>
                  /\ new.have = memory[n].have /\ new.data = memory[n].data
                  /\ new.below = memory[n].below \cup {msg.piece}
            /\ ~msg.below =>
                  /\ new.have = memory[n].have \cup {msg.piece} /\ new.below = memory[n].below
                  /\ new.data = [memory[n].data EXCEPT ![msg.piece] =
                                    IF msg.piece \in memory[n].have THEN @ ELSE "right"]
        BY <1>0, <1>1, <2>2, ReceivedFacts DEF Good
      <4>2. /\ DOMAIN memory[n] = Fields /\ memory[n].have \subseteq Pieces /\ memory[n].below \subseteq Pieces
            /\ memory[n].data \in [Pieces -> {"none", "right"}]
        BY <1>0 DEF Good, TypesOf
      <4> HIDE DEF msg, new
      <4>3. CASE msg.below
        <5>1. new.below = memory[n].below
          BY <2>4, <4>1, <4>3 DEF Known
        <5> QED BY <4>1, <4>2, <4>3, <5>1 DEF LeavesPieces
      <4>4. CASE ~msg.below
        <5>1. new.have = memory[n].have
          BY <2>4, <4>1, <4>4 DEF Known
        <5>2. new.data = memory[n].data
          BY <2>4, <4>1, <4>2, <4>4 DEF Known
        <5> QED BY <4>1, <4>2, <4>4, <5>1, <5>2 DEF LeavesPieces
      <4>5. msg.below \in BOOLEAN
        BY <1>1, MessageFields
      <4> QED BY <4>3, <4>4, <4>5
    <3>3. Leaves(n) /\ DOMAIN memory' = Nodes /\ \A m \in Nodes \ {n} : memory'[m] = memory[m]
      <4>1. UNCHANGED <<disk, raced>>
        BY DEF HearsPiece
      <4> HIDE DEF msg, new
      <4> QED BY <2>1, <3>1, <4>1, LeavesIf
    <3>4. DOMAIN thread' = Nodes /\ MovesQuietly(n) /\ \A m \in Nodes \ {n} : thread'[m] = thread[m]
      BY <1>0, <1>4, <2>4, ListenerMoves, BeginFrames DEF HearsPiece
    <3> QED BY <1>1, <3>3, <3>4, QuietEverywhere DEF HearsPiece
  <2>5. CASE ~Known(memory[n], msg)
    <3> DEFINE th == [Resting EXCEPT !.at = "store", !.piece = IF msg.below THEN NoPiece ELSE msg.piece]
    <3>1. Listener(n, th)
      BY <1>4, <2>5 DEF HearsPiece
    <3>2. new = Received(memory[n], msg) /\ th = [Resting EXCEPT !.at = "store",
                                                     !.piece = IF msg.below THEN NoPiece ELSE msg.piece]
      OBVIOUS
    <3> HIDE DEF msg, new, th
    <3> QED BY <1>1, <2>1, <2>2, <2>5, <3>1, <3>2, TakesStep
  <2> QED BY <2>4, <2>5
<1> QED BY <1>3, <1>4

LEMMA StoreStep ==
  ASSUME IInv, NEW n \in Nodes, Store(n)
  PROVE  IInv'
<1> DEFINE p == thread[n]["listener"].piece
           next == IF Complete(n) THEN "join" ELSE "stale"
           th == [Resting EXCEPT !.at = next]
<1>0. Good(n) /\ thread[n]["listener"].at = "store"
  BY DEF IInv, Store, At
<1>1. \/ disk' = disk
      \/ \E c \in {memory[n].data[p], "wrong"} : disk' = [disk EXCEPT ![n].piece[p] = c]
  BY DEF Store
<1>2. /\ DOMAIN disk' = Nodes /\ DOMAIN disk'[n] = {"piece", "file", "meta"}
      /\ disk'[n].file = disk[n].file /\ disk'[n].meta = disk[n].meta
      /\ \A m \in Nodes \ {n} : disk'[m] = disk[m]
      /\ disk'[n].piece = disk[n].piece
         \/ \E c \in {memory[n].data[p], "wrong"} : disk'[n].piece = [disk[n].piece EXCEPT ![p] = c]
  <2> HIDE DEF p
  <2> QED BY <1>0, <1>1 DEF Good, TypesOf, IInv, Shapes
<1>3. /\ disk'[n].piece \in [Pieces -> Content]
      /\ \A q \in Pieces \ {p} : disk'[n].piece[q] = disk[n].piece[q]
  <2> HIDE DEF p
  <2>1. p \in Pieces => memory[n].data[p] \in Content
    BY <1>0 DEF Good, TypesOf, Content
  <2> QED BY <1>0, <1>2, <2>1 DEF Good, TypesOf, Content
<1>4. Sets(n, "listener", th)
  BY DEF Store, Listener, Sets
<1>5. /\ DOMAIN th = Frame /\ th.at \in Quiet \union {"store"} \union AssemblyEnds
      /\ th.then \in Back /\ th.list \subseteq Pieces
      /\ th.at \in {"join", "stale"}
      /\ th.at = "join" => Complete(n)
  BY DEF Resting, Frame, Back, Quiet, AssemblyEnds
<1>a. p \in Pieces => memory[n].data[p] = "right"
  BY <1>0 DEF Good, Assembly, ListenerIn
<1> HIDE DEF p, next, th
<1>6. /\ DOMAIN thread' = Nodes /\ ThreadsOf(n)' /\ thread'[n]["listener"] = th
      /\ \A w \in Workers : thread'[n][w] = thread[n][w]
      /\ \A m \in Nodes \ {n} : thread'[m] = thread[m]
  BY <1>4, <1>5, ListenerSets
<1>7. memory' = memory /\ inbox' = inbox /\ raced' = raced
  BY DEF Store
<1>8. memory[n].known /\ TypesOf(n)
  BY <1>0 DEF Good, Assembly, ListenerIn
<1>9. TypesOf(n)'
  BY <1>2, <1>3, <1>7, <1>8 DEF TypesOf
<1>b. /\ Filling(n)' <=> Filling(n)
      /\ OnFile(n)' <=> OnFile(n)
      /\ ~ListenerIn(n, {"unlink"})
  BY <1>0, <1>2, <1>6, <1>7 DEF Filling, At, OnFile, Overwritten, ListenerIn
<1>10. Held(n)'
  BY <1>0, <1>3, <1>7, <1>a, <1>b DEF Good, TypesOf, Held
<1>11. Assembly(n)'
  <2>1. th.at = "join" => MadeUp(n)'
    <3>1. MadeUp(n)' <=> MadeUp(n)
      BY <1>7 DEF MadeUp
    <3> QED BY <3>1, <1>5, <1>8, CompleteMeans
  <2>2. memory'[n].known
    BY <1>7, <1>8
  <2> QED BY <1>5, <1>6, <2>1, <2>2 DEF Assembly, ListenerIn, AssemblyEnds
<1>12. Creation(n)'
  <2> SUFFICES ASSUME NEW w \in Workers
               PROVE  /\ thread'[n][w].at = "own" => memory'[n].known
                      /\ thread'[n][w].at \in {"fill", "keep", "record"} =>
                            memory'[n].known /\ memory'[n].have = Pieces
                      /\ thread'[n][w].at \in {"fill", "keep"} /\ n \notin raced' => Unassembled(n)'
                      /\ thread'[n][w].at = "keep" /\ n \notin raced' => InHand(n)'
    BY DEF Creation
  <2>1. ASSUME thread[n][w].at \in {"fill", "keep"}, n \notin raced
        PROVE  th.at = "stale"
    <3>1. memory[n].below # {} /\ memory[n].have = Pieces
      BY <1>0, <2>1 DEF Good, Creation, Unassembled, ListenerIn
    <3> QED BY <3>1, <1>5, <1>8, TooMany
  <2>2. th.at = "stale" => Unassembled(n)'
    BY <1>6 DEF Unassembled, ListenerIn
  <2> QED BY <1>0, <1>6, <1>7, <2>1, <2>2 DEF Good, Creation, InHand
<1>13. Saved(n)'
  BY <1>0, <1>2, <1>7 DEF Good, Saved
<1>14. Good(n)'
  BY <1>6, <1>9, <1>10, <1>11, <1>12, <1>13 DEF Good
<1>15. Shapes' /\ \A m \in Nodes \ {n} : Same(m)
  BY <1>2, <1>6, <1>7 DEF IInv, Shapes, Same
<1> QED BY <1>14, <1>15, OneNode

\* What the files of a node must be for its listener to go to a stage of the assembly.
Fits(n, stage, kept) ==
    LET onFile == kept.file = "right" \/ (n \in raced /\ kept.file = "wrong")
    IN  /\ DOMAIN kept = {"piece", "file", "meta"}
        /\ kept.piece \in [Pieces -> Content] /\ kept.file \in Content
        /\ stage \in {"forget", "unlink"} => onFile
        /\ stage = "forget" => \A p \in Pieces : memory[n].data[p] = "right"
        /\ stage \in {"forget", "unlink", "save"} => memory[n].have = Pieces
        /\ stage \in {"forget", "unlink"} =>
              \A w \in Workers : ~(thread[n][w].at \in {"fill", "keep"} /\ n \notin raced)
        /\ kept.meta => Saved(n) \/ memory[n].have = Pieces
        /\ kept.meta /\ ~disk[n].meta => memory[n].have = Pieces
        /\ \A p \in memory[n].have :
              \/ memory[n].data[p] = "right" \/ Filling(n)
              \/ /\ memory[n].have = Pieces /\ onFile
                 /\ kept.piece[p] = "none" \/ stage = "unlink"

\* A step of the assembly that leaves memory alone.
LEMMA AssemblyStep ==
  ASSUME IInv, NEW n \in Nodes, NEW stage \in AssemblyEnds \ {"join"}, NEW kept,
         GoesTo(n, "listener", stage), thread[n]["listener"].at \in AssemblyEnds,
         DOMAIN disk' = Nodes, disk'[n] = kept, \A m \in Nodes \ {n} : disk'[m] = disk[m],
         UNCHANGED <<memory, inbox, raced>>, Fits(n, stage, kept)
  PROVE  IInv'
<1>0. Good(n) /\ MadeUp(n) /\ memory[n].known
  BY DEF IInv, Good, Assembly, ListenerIn
<1>1. DOMAIN disk' = Nodes /\ disk'[n] = kept /\ \A m \in Nodes \ {n} : disk'[m] = disk[m]
  OBVIOUS
<1>2. /\ DOMAIN thread' = Nodes /\ ThreadsOf(n)' /\ thread'[n]["listener"].at = stage
      /\ \A w \in Workers : thread'[n][w] = thread[n][w]
      /\ \A m \in Nodes \ {n} : thread'[m] = thread[m]
  BY ListenerGoes
<1>3. OnFile(n)' <=> kept.file = "right" \/ (n \in raced /\ kept.file = "wrong")
  BY <1>1 DEF OnFile, Overwritten
<1>4. (InHand(n)' <=> InHand(n)) /\ (MadeUp(n)' <=> MadeUp(n)) /\ (Filling(n)' <=> Filling(n))
  BY <1>2 DEF InHand, MadeUp, Filling, At
<1>5. TypesOf(n)'
  BY <1>0, <1>1 DEF Good, TypesOf, Fits
<1>6. Held(n)'
  BY <1>0, <1>1, <1>2, <1>3, <1>4 DEF Good, Held, ListenerIn, Fits
<1>7. Assembly(n)'
  BY <1>0, <1>2, <1>3, <1>4 DEF Assembly, ListenerIn, AssemblyEnds, Fits
<1>8. Creation(n)'
  <2>1. stage \notin {"forget", "unlink"} => Unassembled(n)'
    BY <1>2 DEF Unassembled, ListenerIn, AssemblyEnds
  <2> QED BY <1>0, <1>2, <1>4, <2>1 DEF Good, Creation, Fits
<1>9. Saved(n)'
  BY <1>0, <1>1 DEF Good, Saved, Fits
<1>10. Good(n)'
  BY <1>2, <1>5, <1>6, <1>7, <1>8, <1>9 DEF Good
<1>11. Shapes' /\ \A m \in Nodes \ {n} : Same(m)
  BY <1>1, <1>2 DEF IInv, Shapes, Same
<1> QED BY <1>10, <1>11, OneNode

LEMMA JoinStep ==
  ASSUME IInv, NEW n \in Nodes, Join(n)
  PROVE  IInv'
<1>0. Good(n) /\ thread[n]["listener"].at = "join"
  BY DEF IInv, Join, At
<1>2. \A w \in Workers : ~(thread[n][w].at \in {"fill", "keep"} /\ n \notin raced)
  BY <1>0 DEF Good, Creation, Unassembled, ListenerIn
<1>a. UNCHANGED <<memory, inbox, raced>> /\ {"forget", "tell"} \subseteq AssemblyEnds \ {"join"}
      /\ thread[n]["listener"].at \in AssemblyEnds
  BY <1>0 DEF Join, AssemblyEnds
<1>3. ASSUME \A p \in Pieces : memory[n].data[p] # "none"
      PROVE  /\ \A p \in Pieces : memory[n].data[p] = "right"
             /\ Joined(memory[n].data) = "right" /\ memory[n].have = Pieces
  <2>1. \A p \in Pieces : memory[n].data[p] = "right"
    BY <1>0, <1>3 DEF Good, TypesOf
  <2>2. memory[n].have = Pieces
    BY <1>0, <2>1 DEF Good, Held, TypesOf
  <2> QED BY <2>1, <2>2 DEF Joined
<1>4. CASE /\ \A p \in Pieces : memory[n].data[p] # "none"
           /\ disk' = [disk EXCEPT ![n].file = Joined(memory[n].data)]
           /\ GoesTo(n, "listener", "forget")
  <2> DEFINE kept == [disk[n] EXCEPT !.file = "right"]
  <2>1. disk' = [disk EXCEPT ![n] = kept]
    BY <1>3, <1>4
  <2>2. /\ DOMAIN kept = {"piece", "file", "meta"} /\ kept.meta = disk[n].meta
        /\ kept.piece \in [Pieces -> Content] /\ kept.file = "right"
    BY <1>0 DEF Good, TypesOf
  <2> HIDE DEF kept
  <2>3. DOMAIN disk' = Nodes /\ disk'[n] = kept /\ \A m \in Nodes \ {n} : disk'[m] = disk[m]
    BY <2>1, DiskOfOne DEF IInv
  <2>4. Fits(n, "forget", kept)
    BY <1>2, <1>3, <1>4, <2>2 DEF Fits, Content
  <2> QED BY <1>4, <1>a, <2>3, <2>4, AssemblyStep
<1>5. CASE UNCHANGED disk /\ GoesTo(n, "listener", "tell")
  <2>1. DOMAIN disk' = Nodes /\ \A m \in Nodes : disk'[m] = disk[m]
    BY <1>5 DEF IInv, Shapes
  <2>2. \A p \in memory[n].have :
              \/ memory[n].data[p] = "right" \/ Filling(n)
              \/ memory[n].have = Pieces /\ OnFile(n) /\ disk[n].piece[p] = "none"
    BY <1>0 DEF Good, Held, ListenerIn
  <2>3. Fits(n, "tell", disk[n])
    BY <1>0, <2>2 DEF Good, TypesOf, Fits, OnFile, Overwritten
  <2> QED BY <1>5, <1>a, <2>1, <2>3, AssemblyStep
<1>6. CASE /\ \A p \in Pieces : memory[n].data[p] # "none"
           /\ disk' = [disk EXCEPT ![n].file = "wrong"]
           /\ GoesTo(n, "listener", "tell")
  <2> DEFINE kept == [disk[n] EXCEPT !.file = "wrong"]
  <2>1. disk' = [disk EXCEPT ![n] = kept]
    BY <1>6
  <2>2. /\ DOMAIN kept = {"piece", "file", "meta"} /\ kept.meta = disk[n].meta
        /\ kept.piece \in [Pieces -> Content] /\ kept.file = "wrong"
    BY <1>0 DEF Good, TypesOf
  <2> HIDE DEF kept
  <2>3. DOMAIN disk' = Nodes /\ disk'[n] = kept /\ \A m \in Nodes \ {n} : disk'[m] = disk[m]
    BY <2>1, DiskOfOne DEF IInv
  <2>4. Fits(n, "tell", kept)
    BY <1>3, <1>6, <2>2 DEF Fits, Content
  <2> QED BY <1>6, <1>a, <2>3, <2>4, AssemblyStep
<1> QED BY <1>4, <1>5, <1>6 DEF Join

LEMMA UnlinkStep ==
  ASSUME IInv, NEW n \in Nodes, Unlink(n)
  PROVE  IInv'
<1>0. Good(n) /\ thread[n]["listener"].at = "unlink"
  BY DEF IInv, Unlink, At
<1>1. memory[n].have = Pieces /\ OnFile(n) /\ memory[n].known /\ MadeUp(n)
  BY <1>0 DEF Good, Assembly, ListenerIn, AssemblyEnds
<1>3. CASE disk[n].piece = Nothing /\ GoesTo(n, "listener", "save") /\ UNCHANGED disk
  <2>1. DOMAIN disk' = Nodes /\ \A m \in Nodes : disk'[m] = disk[m]
    BY <1>3 DEF IInv, Shapes
  <2>2. \A p \in Pieces : disk[n].piece[p] = "none"
    BY <1>3 DEF Nothing
  <2>3. Fits(n, "save", disk[n])
    BY <1>0, <1>1, <2>2 DEF Good, TypesOf, Fits, OnFile, Overwritten
  <2>4. "save" \in AssemblyEnds \ {"join"} /\ thread[n]["listener"].at \in AssemblyEnds
    BY <1>0 DEF AssemblyEnds
  <2> QED BY <1>3, <2>1, <2>3, <2>4, AssemblyStep DEF Unlink
<1>4. CASE UNCHANGED thread /\ \E p \in Pieces : disk' = [disk EXCEPT ![n].piece[p] = "none"]
  <2>1. PICK p \in Pieces : disk' = [disk EXCEPT ![n].piece[p] = "none"]
    BY <1>4
  <2> DEFINE kept == [disk[n] EXCEPT !.piece = [disk[n].piece EXCEPT ![p] = "none"]]
  <2>2. disk' = [disk EXCEPT ![n] = kept]
    BY <2>1 DEF IInv, Shapes, Good, TypesOf
  <2>3. /\ DOMAIN kept = {"piece", "file", "meta"} /\ kept.file = disk[n].file /\ kept.meta = disk[n].meta
        /\ kept.piece \in [Pieces -> Content]
    BY <1>0 DEF Good, TypesOf, Content
  <2> HIDE DEF kept
  <2>4. DOMAIN disk' = Nodes /\ disk'[n] = kept /\ \A m \in Nodes \ {n} : disk'[m] = disk[m]
    BY <2>2, DiskOfOne DEF IInv
  <2>5. memory' = memory /\ inbox' = inbox /\ raced' = raced /\ thread' = thread
    BY <1>4 DEF Unlink
  <2>6. TypesOf(n)' /\ ThreadsOf(n)'
    BY <1>0, <2>3, <2>4, <2>5 DEF Good, TypesOf, ThreadsOf
  <2>7. OnFile(n)' /\ MadeUp(n)'
    BY <1>1, <2>3, <2>4, <2>5 DEF OnFile, Overwritten, MadeUp
  <2>8. Held(n)'
    BY <1>0, <1>1, <2>5, <2>7 DEF Good, Held, ListenerIn
  <2>9. Assembly(n)'
    BY <1>0, <1>1, <2>5, <2>7 DEF Assembly, ListenerIn
  <2>10. Creation(n)'
    BY <1>0, <2>5 DEF Good, Creation, InHand, Unassembled, ListenerIn
  <2>11. Saved(n)'
    BY <1>0, <2>3, <2>4, <2>5 DEF Good, Saved
  <2>12. Good(n)'
    BY <2>6, <2>8, <2>9, <2>10, <2>11 DEF Good
  <2>13. Shapes' /\ \A m \in Nodes \ {n} : Same(m)
    BY <2>4, <2>5 DEF IInv, Shapes, Same
  <2> QED BY <2>12, <2>13, OneNode
<1> QED BY <1>3, <1>4 DEF Unlink

LEMMA SaveStep ==
  ASSUME IInv, NEW n \in Nodes, Save(n)
  PROVE  IInv'
<1>0. Good(n) /\ thread[n]["listener"].at = "save"
  BY DEF IInv, Save, At
<1>1. memory[n].have = Pieces
  BY <1>0 DEF Good, Assembly, ListenerIn, AssemblyEnds
<1>2. PICK b \in BOOLEAN : disk' = [disk EXCEPT ![n].meta = b]
  BY DEF Save, WriteMeta
<1> DEFINE kept == [disk[n] EXCEPT !.meta = b]
<1>3. disk' = [disk EXCEPT ![n] = kept]
  BY <1>2
<1>4. /\ DOMAIN kept = {"piece", "file", "meta"}
      /\ kept.piece = disk[n].piece /\ kept.file = disk[n].file
  BY <1>0 DEF Good, TypesOf
<1> HIDE DEF kept
<1>5. DOMAIN disk' = Nodes /\ disk'[n] = kept /\ \A m \in Nodes \ {n} : disk'[m] = disk[m]
  BY <1>3, DiskOfOne DEF IInv
<1>6. Fits(n, "tell", kept)
  BY <1>0, <1>1, <1>4 DEF Good, TypesOf, Held, ListenerIn, OnFile, Overwritten, Fits
<1>7. "tell" \in AssemblyEnds \ {"join"} /\ thread[n]["listener"].at \in AssemblyEnds
  BY <1>0 DEF AssemblyEnds
<1> QED BY <1>5, <1>6, <1>7, AssemblyStep DEF Save

LEMMA ForgetStep ==
  ASSUME IInv, NEW n \in Nodes, Forget(n)
  PROVE  IInv'
<1> DEFINE new == Forgotten(memory[n])
<1>0. Good(n) /\ thread[n]["listener"].at = "forget"
  BY DEF IInv, Forget, At
<1>1. OnFile(n) /\ memory[n].have = Pieces /\ memory[n].known /\ MadeUp(n)
  BY <1>0 DEF Good, Assembly, ListenerIn, AssemblyEnds
<1>2. \A w \in Workers : ~(thread[n][w].at \in {"fill", "keep"} /\ n \notin raced)
  BY <1>0 DEF Good, Creation, Unassembled, ListenerIn
<1>3. memory' = [memory EXCEPT ![n] = new]
  BY DEF Forget
<1>4. /\ DOMAIN new = Fields /\ new.late = {} /\ new.known = memory[n].known
      /\ new.have = memory[n].have /\ new.below = memory[n].below /\ new.data = Nothing
  BY <1>0 DEF Good, TypesOf, Fields, Forgotten
<1> HIDE DEF new
<1>5. DOMAIN memory' = Nodes /\ memory'[n] = new /\ \A m \in Nodes \ {n} : memory'[m] = memory[m]
  BY <1>3, MemoryOfOne DEF IInv
<1>6. /\ DOMAIN thread' = Nodes /\ ThreadsOf(n)' /\ thread'[n]["listener"].at = "unlink"
      /\ \A w \in Workers : thread'[n][w] = thread[n][w]
      /\ \A m \in Nodes \ {n} : thread'[m] = thread[m]
  BY ListenerGoes DEF Forget, AssemblyEnds
<1>7. disk' = disk /\ inbox' = inbox /\ raced' = raced
  BY DEF Forget
<1>8. OnFile(n)' /\ MadeUp(n)'
  BY <1>1, <1>4, <1>5, <1>7 DEF OnFile, Overwritten, MadeUp
<1>9. TypesOf(n)'
  BY <1>0, <1>4, <1>5, <1>7 DEF Good, TypesOf, Nothing
<1>10. Held(n)'
  BY <1>1, <1>4, <1>5, <1>6, <1>8 DEF Held, ListenerIn, Nothing
<1>11. Assembly(n)'
  BY <1>1, <1>4, <1>5, <1>6, <1>8 DEF Assembly, ListenerIn
<1>12. Creation(n)'
  BY <1>1, <1>2, <1>4, <1>5, <1>6, <1>7 DEF Creation
<1>13. Saved(n)'
  BY <1>1, <1>4, <1>5 DEF Saved
<1>14. Good(n)'
  BY <1>6, <1>9, <1>10, <1>11, <1>12, <1>13 DEF Good
<1>15. Shapes' /\ \A m \in Nodes \ {n} : Same(m)
  BY <1>5, <1>6, <1>7 DEF IInv, Shapes, Same
<1> QED BY <1>14, <1>15, OneNode

\* A worker goes to a stage of create_torrent, or rests.
LEMMA WorkerSets ==
  ASSUME IInv, NEW n \in Nodes, NEW w \in Workers, NEW th, Sets(n, w, th), DOMAIN th = Frame,
         th.at \in Quiet \union Making, th.then \in Back, th.list \subseteq Pieces
  PROVE  /\ DOMAIN thread' = Nodes /\ ThreadsOf(n)' /\ thread'[n][w] = th
         /\ thread'[n]["listener"] = thread[n]["listener"]
         /\ \A u \in Workers \ {w} : thread'[n][u] = thread[n][u]
         /\ \A m \in Nodes \ {n} : thread'[m] = thread[m]
<1>1. /\ DOMAIN thread' = Nodes /\ DOMAIN thread'[n] = Threads
      /\ thread'[n][w] = th
      /\ \A u \in Threads \ {w} : thread'[n][u] = thread[n][u]
      /\ \A m \in Nodes \ {n} : thread'[m] = thread[m]
  BY WorkersAreThreads, SetsOne DEF IInv, Good
<1>2. /\ thread'[n]["listener"] = thread[n]["listener"]
      /\ \A u \in Workers \ {w} : thread'[n][u] = thread[n][u]
  BY <1>1, ListenerIsNoWorker, WorkersAreThreads
<1>3. ThreadsOf(n)'
  BY <1>1, <1>2 DEF ThreadsOf, IInv, Good
<1> QED BY <1>1, <1>2, <1>3

LEMMA WorkerGoes ==
  ASSUME IInv, NEW n \in Nodes, NEW w \in Workers, NEW stage \in Making,
         GoesTo(n, w, stage)
  PROVE  /\ DOMAIN thread' = Nodes /\ ThreadsOf(n)' /\ thread'[n][w].at = stage
         /\ thread'[n]["listener"] = thread[n]["listener"]
         /\ \A u \in Workers \ {w} : thread'[n][u] = thread[n][u]
         /\ \A m \in Nodes \ {n} : thread'[m] = thread[m]
<1> DEFINE th == [thread[n][w] EXCEPT !.at = stage]
<1>1. Sets(n, w, th)
  BY DEF GoesTo, Sets
<1>2. /\ DOMAIN th = Frame /\ th.at = stage /\ th.then \in Back /\ th.list \subseteq Pieces
  BY WorkersAreThreads DEF IInv, Good, ThreadsOf, Frame
<1> HIDE DEF th
<1> QED BY <1>1, <1>2, WorkerSets

LEMMA WorkerRests ==
  ASSUME IInv, NEW n \in Nodes, NEW w \in Workers, Abort(n, w)
  PROVE  /\ DOMAIN thread' = Nodes /\ ThreadsOf(n)' /\ thread'[n][w].at = "idle"
         /\ thread'[n]["listener"] = thread[n]["listener"]
         /\ \A u \in Workers \ {w} : thread'[n][u] = thread[n][u]
         /\ \A m \in Nodes \ {n} : thread'[m] = thread[m]
<1>1. Sets(n, w, Resting)
  BY DEF Abort, Sets
<1>2. /\ DOMAIN Resting = Frame /\ Resting.at = "idle" /\ Resting.then \in Back /\ Resting.list \subseteq Pieces
  BY DEF Resting, Frame, Back
<1> QED BY <1>1, <1>2, WorkerSets DEF Quiet, Back

\* create_torrent: the node knows the torrent, then has its pieces, then their bytes.
LEMMA CreateStep ==
  ASSUME IInv, NEW n \in Nodes, NEW w \in Workers, Create(n, w)
  PROVE  IInv'
<1> DEFINE new == [memory[n] EXCEPT !.known = TRUE]
<1>0. Good(n) /\ thread[n][w].at = "idle"
  BY DEF IInv, Create, At
<1>1. memory' = [memory EXCEPT ![n] = new]
  BY DEF Create
<1>2. /\ DOMAIN new = Fields /\ new.late = memory[n].late /\ new.known
      /\ new.have = memory[n].have /\ new.below = memory[n].below
      /\ new.data = memory[n].data /\ new.wanted = memory[n].wanted
  BY <1>0 DEF Good, TypesOf, Fields
<1> HIDE DEF new
<1>3. DOMAIN memory' = Nodes /\ memory'[n] = new /\ \A m \in Nodes \ {n} : memory'[m] = memory[m]
  BY <1>1, MemoryOfOne DEF IInv
<1>4. /\ DOMAIN thread' = Nodes /\ ThreadsOf(n)' /\ thread'[n][w].at = "own"
      /\ thread'[n]["listener"] = thread[n]["listener"]
      /\ \A u \in Workers \ {w} : thread'[n][u] = thread[n][u]
      /\ \A m \in Nodes \ {n} : thread'[m] = thread[m]
  BY WorkerGoes DEF Create, Making
<1>5. disk' = disk /\ inbox' = inbox /\ raced' = raced
  BY DEF Create
<1>6. /\ (InHand(n)' <=> InHand(n)) /\ (OnFile(n)' <=> OnFile(n)) /\ (MadeUp(n)' <=> MadeUp(n))
      /\ (Unassembled(n)' <=> Unassembled(n))
  BY <1>2, <1>3, <1>4, <1>5 DEF InHand, OnFile, Overwritten, MadeUp, Unassembled, ListenerIn
<1>7. Filling(n)' <=> Filling(n)
  BY <1>0, <1>4 DEF Filling, At
<1>9. TypesOf(n)'
  BY <1>0, <1>2, <1>3, <1>5 DEF Good, TypesOf
<1>10. Held(n)'
  BY <1>0, <1>2, <1>3, <1>4, <1>5, <1>6, <1>7 DEF Good, Held, ListenerIn
<1>11. Assembly(n)'
  BY <1>0, <1>2, <1>3, <1>4, <1>6 DEF Good, Assembly, ListenerIn
<1>12. Creation(n)'
  BY <1>0, <1>2, <1>3, <1>4, <1>5, <1>6 DEF Good, Creation
<1>13. Saved(n)'
  BY <1>0, <1>2, <1>3, <1>5 DEF Good, Saved
<1>14. Good(n)'
  BY <1>4, <1>9, <1>10, <1>11, <1>12, <1>13 DEF Good
<1>15. Shapes' /\ \A m \in Nodes \ {n} : Same(m)
  BY <1>3, <1>4, <1>5 DEF IInv, Shapes, Same
<1> QED BY <1>14, <1>15, OneNode

LEMMA OwnStep ==
  ASSUME IInv, NEW n \in Nodes, NEW w \in Workers, Own(n, w)
  PROVE  IInv'
<1> DEFINE new == [memory[n] EXCEPT !.have = Pieces, !.below = {}]
<1>0. Good(n) /\ thread[n][w].at = "own" /\ memory[n].known
  BY DEF IInv, Good, Creation, Own, At
<1>1. memory' = [memory EXCEPT ![n] = new]
  BY <1>0 DEF Own, IInv, Shapes, Good, TypesOf, Fields
<1>2. /\ DOMAIN new = Fields /\ new.late = memory[n].late /\ new.known
      /\ new.have = Pieces /\ new.below = {}
      /\ new.data = memory[n].data
  BY <1>0 DEF Good, TypesOf, Fields
<1> HIDE DEF new
<1>3. DOMAIN memory' = Nodes /\ memory'[n] = new /\ \A m \in Nodes \ {n} : memory'[m] = memory[m]
  BY <1>1, MemoryOfOne DEF IInv
<1>4. /\ DOMAIN thread' = Nodes /\ ThreadsOf(n)' /\ thread'[n][w].at = "fill"
      /\ thread'[n]["listener"] = thread[n]["listener"]
      /\ \A u \in Workers \ {w} : thread'[n][u] = thread[n][u]
      /\ \A m \in Nodes \ {n} : thread'[m] = thread[m]
  BY WorkerGoes DEF Own, Making
<1>5. disk' = disk /\ inbox' = inbox /\ raced' = IF Assembling(n) THEN raced \cup {n} ELSE raced
  BY DEF Own
<1>6. Assembling(n) <=> ListenerIn(n, {"store", "join", "forget", "unlink"})
  BY DEF Assembling, At, ListenerIn
<1>7. Filling(n)'
  BY <1>4 DEF Filling, At
<1>8. MadeUp(n)'
  <2>1. Pieces \ memory'[n].have = {} /\ memory'[n].below = {}
    BY <1>2, <1>3
  <2> QED BY <2>1, FS_EmptySet DEF MadeUp
<1>9. TypesOf(n)'
  BY <1>0, <1>2, <1>3, <1>5 DEF Good, TypesOf
<1>10. Held(n)'
  BY <1>2, <1>3, <1>7 DEF Held
<1>11. Assembly(n)'
  <2>1. OnFile(n) => OnFile(n)'
    BY <1>5 DEF OnFile, Overwritten
  <2> QED BY <1>0, <1>2, <1>3, <1>4, <1>8, <2>1 DEF Good, Assembly, ListenerIn
<1>12. Creation(n)'
  <2>1. n \notin raced' => n \notin raced /\ Unassembled(n)'
    BY <1>4, <1>5, <1>6 DEF Unassembled, ListenerIn
  <2>2. memory[n].have = Pieces /\ InHand(n) => InHand(n)'
    BY <1>2, <1>3 DEF InHand
  <2> QED BY <1>0, <1>2, <1>3, <1>4, <2>1, <2>2 DEF Good, Creation
<1>13. Saved(n)'
  BY <1>2, <1>3 DEF Saved
<1>14. Good(n)'
  BY <1>4, <1>9, <1>10, <1>11, <1>12, <1>13 DEF Good
<1>15. Shapes' /\ \A m \in Nodes \ {n} : Same(m)
  BY <1>3, <1>4, <1>5 DEF IInv, Shapes, Same
<1> QED BY <1>14, <1>15, OneNode

LEMMA FillStep ==
  ASSUME IInv, NEW n \in Nodes, NEW w \in Workers, Fill(n, w)
  PROVE  IInv'
<1> DEFINE new == [memory[n] EXCEPT !.data = Everything]
<1>0. /\ Good(n) /\ thread[n][w].at = "fill"
      /\ memory[n].known /\ memory[n].have = Pieces
      /\ n \notin raced => Unassembled(n)
  BY DEF IInv, Good, Creation, Fill, At
<1>1. memory' = [memory EXCEPT ![n] = new]
  BY DEF Fill
<1>2. /\ DOMAIN new = Fields /\ new.late = memory[n].late /\ new.known = memory[n].known
      /\ new.have = memory[n].have /\ new.below = memory[n].below /\ new.wanted = memory[n].wanted
      /\ new.data = Everything
  BY <1>0 DEF Good, TypesOf, Fields
<1> HIDE DEF new
<1>3. DOMAIN memory' = Nodes /\ memory'[n] = new /\ \A m \in Nodes \ {n} : memory'[m] = memory[m]
  BY <1>1, MemoryOfOne DEF IInv
<1>4. /\ DOMAIN thread' = Nodes /\ ThreadsOf(n)' /\ thread'[n][w].at = "keep"
      /\ thread'[n]["listener"] = thread[n]["listener"]
      /\ \A u \in Workers \ {w} : thread'[n][u] = thread[n][u]
      /\ \A m \in Nodes \ {n} : thread'[m] = thread[m]
  BY WorkerGoes DEF Fill, Making
<1>5. disk' = disk /\ inbox' = inbox /\ raced' = raced
  BY DEF Fill
<1>6. InHand(n)' /\ \A p \in Pieces : memory'[n].data[p] = "right"
  BY <1>0, <1>2, <1>3 DEF InHand, Everything
<1>7. /\ (OnFile(n)' <=> OnFile(n)) /\ (MadeUp(n)' <=> MadeUp(n))
      /\ (Unassembled(n)' <=> Unassembled(n))
  BY <1>2, <1>3, <1>4, <1>5 DEF OnFile, Overwritten, MadeUp, Unassembled, ListenerIn
<1>9. TypesOf(n)'
  BY <1>0, <1>2, <1>3, <1>5 DEF Good, TypesOf, Everything
<1>10. Held(n)'
  BY <1>0, <1>2, <1>3, <1>6 DEF Held, InHand
<1>11. Assembly(n)'
  BY <1>0, <1>2, <1>3, <1>4, <1>6, <1>7 DEF Good, Assembly, ListenerIn
<1>12. Creation(n)'
  BY <1>0, <1>2, <1>3, <1>4, <1>5, <1>6, <1>7 DEF Good, Creation
<1>13. Saved(n)'
  BY <1>0, <1>2, <1>3 DEF Saved
<1>14. Good(n)'
  BY <1>4, <1>9, <1>10, <1>11, <1>12, <1>13 DEF Good
<1>15. Shapes' /\ \A m \in Nodes \ {n} : Same(m)
  BY <1>3, <1>4, <1>5 DEF IInv, Shapes, Same
<1> QED BY <1>14, <1>15, OneNode

LEMMA KeepStep ==
  ASSUME IInv, NEW n \in Nodes, NEW w \in Workers, Keep(n, w)
  PROVE  IInv'
<1>0. /\ Good(n) /\ thread[n][w].at = "keep"
      /\ memory[n].known /\ memory[n].have = Pieces
      /\ n \notin raced => InHand(n) /\ Unassembled(n)
  BY DEF IInv, Good, Creation, Keep, At
<1>1. PICK bytes \in {"right", "wrong"} :
         /\ disk' = [disk EXCEPT ![n].file = bytes]
         /\ \/ bytes = "right" /\ GoesTo(n, w, "record")
            \/ bytes = "wrong" /\ Abort(n, w)
  BY DEF Keep
<1> DEFINE kept == [disk[n] EXCEPT !.file = bytes]
<1>2. disk' = [disk EXCEPT ![n] = kept]
  BY <1>1
<1>3. /\ DOMAIN kept = {"piece", "file", "meta"}
      /\ kept.piece = disk[n].piece /\ kept.file = bytes /\ kept.meta = disk[n].meta
  BY <1>0 DEF Good, TypesOf
<1> HIDE DEF kept
<1>4. DOMAIN disk' = Nodes /\ disk'[n] = kept /\ \A m \in Nodes \ {n} : disk'[m] = disk[m]
  BY <1>2, DiskOfOne DEF IInv
<1>5. /\ DOMAIN thread' = Nodes /\ ThreadsOf(n)' /\ thread'[n][w].at \in {"record", "idle"}
      /\ thread'[n]["listener"] = thread[n]["listener"]
      /\ \A u \in Workers \ {w} : thread'[n][u] = thread[n][u]
      /\ \A m \in Nodes \ {n} : thread'[m] = thread[m]
  BY <1>1, WorkerGoes, WorkerRests DEF Making
<1>6. memory' = memory /\ inbox' = inbox /\ raced' = raced
  BY DEF Keep
<1>7. OnFile(n)' \/ (InHand(n) /\ Unassembled(n))
  BY <1>0, <1>1, <1>3, <1>4, <1>6 DEF OnFile, Overwritten
<1>8. TypesOf(n)'
  BY <1>0, <1>1, <1>3, <1>4, <1>6 DEF Good, TypesOf, Content
<1>9. /\ (InHand(n)' <=> InHand(n)) /\ (MadeUp(n)' <=> MadeUp(n))
      /\ (Unassembled(n)' <=> Unassembled(n))
  BY <1>5, <1>6 DEF InHand, MadeUp, Unassembled, ListenerIn
<1>a. Filling(n)' <=> Filling(n)
  BY <1>0, <1>5 DEF Filling, At
<1>10. Held(n)'
  <2>1. CASE InHand(n)
    BY <1>0, <1>6, <1>9, <2>1 DEF Good, Held, InHand
  <2>2. CASE OnFile(n)'
    BY <1>0, <1>3, <1>4, <1>5, <1>6, <1>a, <2>2 DEF Good, Held, ListenerIn
  <2> QED BY <1>7, <2>1, <2>2
<1>11. Assembly(n)'
  <2>1. Unassembled(n) => ~ListenerIn(n, {"forget", "unlink"})
    BY DEF Unassembled, ListenerIn
  <2> QED BY <1>0, <1>5, <1>6, <1>7, <1>9, <2>1 DEF Good, Assembly, ListenerIn
<1>12. Creation(n)'
  <2> SUFFICES ASSUME NEW u \in Workers
               PROVE  /\ thread'[n][u].at = "own" => memory'[n].known
                      /\ thread'[n][u].at \in {"fill", "keep", "record"} =>
                            memory'[n].known /\ memory'[n].have = Pieces
                      /\ thread'[n][u].at \in {"fill", "keep"} /\ n \notin raced' => Unassembled(n)'
                      /\ thread'[n][u].at = "keep" /\ n \notin raced' => InHand(n)'
    BY DEF Creation
  <2> QED BY <1>0, <1>5, <1>6, <1>9
<1>13. Saved(n)'
  BY <1>0, <1>6 DEF Saved
<1>14. Good(n)'
  BY <1>5, <1>8, <1>10, <1>11, <1>12, <1>13 DEF Good
<1>15. Shapes' /\ \A m \in Nodes \ {n} : Same(m)
  BY <1>4, <1>5, <1>6 DEF IInv, Shapes, Same
<1> QED BY <1>14, <1>15, OneNode

LEMMA RecordStep ==
  ASSUME IInv, NEW n \in Nodes, NEW w \in Workers, Record(n, w)
  PROVE  IInv'
<1>0. /\ Good(n) /\ thread[n][w].at = "record"
      /\ memory[n].known /\ memory[n].have = Pieces
  BY DEF IInv, Good, Creation, Record, At
<1>1. PICK b \in BOOLEAN : disk' = [disk EXCEPT ![n].meta = b]
  BY DEF Record, WriteMeta
<1> DEFINE kept == [disk[n] EXCEPT !.meta = b]
<1>2. disk' = [disk EXCEPT ![n] = kept]
  BY <1>1
<1>3. /\ DOMAIN kept = {"piece", "file", "meta"}
      /\ kept.piece = disk[n].piece /\ kept.file = disk[n].file
  BY <1>0 DEF Good, TypesOf
<1> HIDE DEF kept
<1>4. DOMAIN disk' = Nodes /\ disk'[n] = kept /\ \A m \in Nodes \ {n} : disk'[m] = disk[m]
  BY <1>2, DiskOfOne DEF IInv
<1>5. /\ DOMAIN thread' = Nodes /\ ThreadsOf(n)' /\ thread'[n][w].at = "announce"
      /\ thread'[n]["listener"] = thread[n]["listener"]
      /\ \A u \in Workers \ {w} : thread'[n][u] = thread[n][u]
      /\ \A m \in Nodes \ {n} : thread'[m] = thread[m]
  BY WorkerGoes DEF Record, Making
<1>6. memory' = memory /\ inbox' = inbox /\ raced' = raced
  BY DEF Record
<1>7. /\ (InHand(n)' <=> InHand(n)) /\ (OnFile(n)' <=> OnFile(n)) /\ (MadeUp(n)' <=> MadeUp(n))
      /\ (Unassembled(n)' <=> Unassembled(n))
  BY <1>3, <1>4, <1>5, <1>6 DEF InHand, OnFile, Overwritten, MadeUp, Unassembled, ListenerIn
<1>a. Filling(n)' <=> Filling(n)
  BY <1>0, <1>5 DEF Filling, At
<1>8. TypesOf(n)' /\ Held(n)'
  BY <1>0, <1>3, <1>4, <1>5, <1>6, <1>7, <1>a DEF Good, TypesOf, Held, ListenerIn
<1>9. Assembly(n)'
  BY <1>0, <1>5, <1>6, <1>7 DEF Good, Assembly, ListenerIn
<1>10. Creation(n)'
  <2> SUFFICES ASSUME NEW u \in Workers
               PROVE  /\ thread'[n][u].at = "own" => memory'[n].known
                      /\ thread'[n][u].at \in {"fill", "keep", "record"} =>
                            memory'[n].known /\ memory'[n].have = Pieces
                      /\ thread'[n][u].at \in {"fill", "keep"} /\ n \notin raced' => Unassembled(n)'
                      /\ thread'[n][u].at = "keep" /\ n \notin raced' => InHand(n)'
    BY DEF Creation
  <2> QED BY <1>0, <1>5, <1>6, <1>7 DEF Good, Creation
<1>11. Saved(n)'
  BY <1>0, <1>6 DEF Saved
<1>12. Good(n)'
  BY <1>5, <1>8, <1>9, <1>10, <1>11 DEF Good
<1>13. Shapes' /\ \A m \in Nodes \ {n} : Same(m)
  BY <1>4, <1>5, <1>6 DEF IInv, Shapes, Same
<1> QED BY <1>12, <1>13, OneNode

LEMMA ResumedFacts ==
  ASSUME NEW d, DOMAIN d = {"piece", "file", "meta"}, d.piece \in [Pieces -> Content], NEW gone
  PROVE  LET new == ResumedMemory(d, gone)
         IN  /\ DOMAIN new = Fields /\ new.late = {} /\ new.below = {} /\ new.have \subseteq Pieces
             /\ new.data \in [Pieces -> {"none", "right"}]
             /\ d.meta => new.known /\ (new.have = Pieces \/ new.wanted)
             /\ d.meta /\ d.file = "right" => new.have = Pieces
             /\ ~(d.meta /\ d.file = "right") => \A p \in new.have : new.data[p] = "right"
             /\ \A p \in Pieces : new.data[p] = "right" => p \in new.have
<1> DEFINE found == {p \in Pieces \ gone : d.piece[p] = "right"}
           known == [Fresh EXCEPT !.known = TRUE]
           data == [p \in Pieces |-> IF p \in found THEN "right" ELSE known.data[p]]
           loaded == [known EXCEPT !.have = @ \cup found, !.data = data]
<1>1. /\ DOMAIN known = Fields /\ known.late = {} /\ known.below = {} /\ known.have = {}
      /\ known.data = Nothing /\ known.known
  BY DEF Fresh, Fields
<1>2. Loaded(known, d, gone) = loaded
  BY DEF Loaded
<1>3. /\ DOMAIN loaded = Fields /\ loaded.late = {} /\ loaded.below = {}
      /\ loaded.have = found /\ loaded.data = data /\ loaded.known
  <2> HIDE DEF found, data, known
  <2> QED BY <1>1 DEF Fields
<1>4. data \in [Pieces -> {"none", "right"}] /\ \A p \in Pieces : data[p] = "right" <=> p \in found
  <2> HIDE DEF known, found
  <2> QED BY <1>1 DEF Nothing
<1>5. /\ DOMAIN Fresh = Fields /\ Fresh.late = {} /\ Fresh.below = {} /\ Fresh.have = {}
      /\ Fresh.data \in [Pieces -> {"none", "right"}] /\ \A p \in Pieces : Fresh.data[p] = "none"
  BY DEF Fresh, Fields, Nothing
<1>6. ResumedMemory(d, gone) = IF ~d.meta THEN Fresh
                               ELSE IF d.file = "right" THEN [loaded EXCEPT !.have = Pieces]
                                                        ELSE [loaded EXCEPT !.wanted = TRUE]
  BY <1>2 DEF ResumedMemory
<1>7. found \subseteq Pieces
  OBVIOUS
<1> HIDE DEF loaded, data, found
<1>8. CASE ~d.meta
  BY <1>5, <1>6, <1>8
<1>9. CASE d.meta /\ d.file = "right"
  <2>1. ResumedMemory(d, gone) = [loaded EXCEPT !.have = Pieces]
    BY <1>6, <1>9
  <2> QED BY <1>3, <1>4, <1>9, <2>1 DEF Fields
<1>10. CASE d.meta /\ d.file # "right"
  <2>1. ResumedMemory(d, gone) = [loaded EXCEPT !.wanted = TRUE]
    BY <1>6, <1>10
  <2> QED BY <1>3, <1>4, <1>7, <1>10, <2>1 DEF Fields
<1> QED BY <1>8, <1>9, <1>10

LEMMA AfterCrashFacts ==
  ASSUME NEW n \in Nodes, TypesOf(n), NEW d \in AfterCrash(n)
  PROVE  /\ DOMAIN d = {"piece", "file", "meta"}
         /\ d.piece \in [Pieces -> Content] /\ d.file \in Content
         /\ \A p \in Pieces : disk[n].piece[p] = "right" /\ ~Storing(n, p) => d.piece[p] = "right"
         /\ disk[n].file = "right" /\ ~Rewriting(n) => d.file = "right"
<1>1. CASE d = disk[n]
  BY <1>1 DEF TypesOf
<1>2. CASE \E p \in Pieces : Storing(n, p) /\ d = [disk[n] EXCEPT !.piece[p] = "wrong"]
  <2>1. PICK q \in Pieces : Storing(n, q) /\ d = [disk[n] EXCEPT !.piece = [disk[n].piece EXCEPT ![q] = "wrong"]]
    BY <1>2
  <2>2. /\ DOMAIN d = {"piece", "file", "meta"} /\ d.file = disk[n].file
        /\ d.piece = [disk[n].piece EXCEPT ![q] = "wrong"]
    BY <2>1 DEF TypesOf
  <2> QED BY <2>1, <2>2 DEF TypesOf, Content
<1>3. CASE d = [disk[n] EXCEPT !.file = "wrong"] /\ Rewriting(n)
  BY <1>3 DEF TypesOf, Content
<1>4. CASE d = [disk[n] EXCEPT !.meta = FALSE]
  BY <1>4 DEF TypesOf
<1> QED BY <1>1, <1>2, <1>3, <1>4 DEF AfterCrash

LEMMA RestartStep ==
  ASSUME IInv, NEW n \in Nodes, Restart(n)
  PROVE  IInv'
<1>0. Good(n)
  BY DEF IInv
<1>b. PICK d \in AfterCrash(n) : \E gone : Restarts(n, d, gone)
  BY DEF Restart, RestartFails
<1>a. PICK gone : Restarts(n, d, gone)
  BY <1>b
<1>1. /\ memory' = [memory EXCEPT ![n] = ResumedMemory(d, gone)]
      /\ disk' = [disk EXCEPT ![n] = ResumedDisk(d, gone)]
  BY <1>a DEF Restarts
<1>2. DOMAIN d = {"piece", "file", "meta"} /\ d.piece \in [Pieces -> Content] /\ d.file \in Content
  BY <1>0, AfterCrashFacts DEF Good
<1> DEFINE new == ResumedMemory(d, gone)
           kept == ResumedDisk(d, gone)
<1>3. /\ DOMAIN new = Fields /\ new.late = {} /\ new.below = {} /\ new.have \subseteq Pieces
      /\ new.data \in [Pieces -> {"none", "right"}]
      /\ d.meta => new.known /\ (new.have = Pieces \/ new.wanted)
      /\ d.meta /\ d.file = "right" => new.have = Pieces
      /\ ~(d.meta /\ d.file = "right") => \A p \in new.have : new.data[p] = "right"
      /\ \A p \in Pieces : new.data[p] = "right" => p \in new.have
  BY <1>2, ResumedFacts
<1>4. /\ DOMAIN kept = {"piece", "file", "meta"}
      /\ kept.file = d.file /\ kept.meta = d.meta
      /\ kept.piece \in [Pieces -> Content]
      /\ d.meta /\ d.file = "right" => kept.piece = Nothing
  BY <1>2, WithoutFacts DEF ResumedDisk, Nothing, Content
<1> HIDE DEF new, kept
<1>5. DOMAIN memory' = Nodes /\ memory'[n] = new /\ \A m \in Nodes \ {n} : memory'[m] = memory[m]
  BY <1>1, MemoryOfOne DEF IInv, new
<1>6. DOMAIN disk' = Nodes /\ disk'[n] = kept /\ \A m \in Nodes \ {n} : disk'[m] = disk[m]
  BY <1>1, DiskOfOne DEF IInv, kept
<1>7. /\ DOMAIN thread' = Nodes /\ thread'[n] = [t \in Threads |-> Resting]
      /\ \A m \in Nodes \ {n} : thread'[m] = thread[m]
  BY <1>a DEF Restarts, IInv, Shapes
<1>8. inbox' \in [Nodes -> Seq(Messages)] /\ raced' = raced \ {n}
  BY <1>a DEF Restarts, IInv, Shapes
<1>9. \A t \in Threads : thread'[n][t] = Resting
  BY <1>7
<1>10. Resting.at = "idle" /\ Resting.then \in Back /\ Resting.list = {} /\ DOMAIN Resting = Frame
  BY DEF Resting, Back, Frame
<1>11. TypesOf(n)'
  BY <1>2, <1>3, <1>4, <1>5, <1>6 DEF TypesOf
<1>12. ThreadsOf(n)'
  BY <1>7, <1>9, <1>10, ListenerIsNoWorker, WorkersAreThreads DEF ThreadsOf, Quiet, Back
<1>13. Held(n)'
  <2>1. CASE d.meta /\ d.file = "right"
    BY <1>3, <1>4, <1>5, <1>6, <2>1 DEF Held, OnFile, Nothing
  <2>2. CASE ~(d.meta /\ d.file = "right")
    BY <1>3, <1>5, <2>2 DEF Held
  <2> QED BY <2>1, <2>2
<1>14. Assembly(n)'
  BY <1>9, <1>10, ListenerIsNoWorker DEF Assembly, ListenerIn, AssemblyEnds
<1>15. Creation(n)'
  BY <1>9, <1>10, WorkersAreThreads DEF Creation
<1>16. Saved(n)'
  BY <1>3, <1>4, <1>5, <1>6 DEF Saved
<1>17. Good(n)'
  BY <1>11, <1>12, <1>13, <1>14, <1>15, <1>16 DEF Good
<1>18. Shapes' /\ \A m \in Nodes \ {n} : Same(m)
  BY <1>5, <1>6, <1>7, <1>8 DEF Shapes, Same
<1> QED BY <1>17, <1>18, OneNode
----------------------------------------------------------------------------
(* The invariant.                                                           *)

LEMMA StoredWhole ==
  ASSUME NEW whole, StoreInit(whole), NEW n \in Nodes
  PROVE  /\ disk[n] = Whole \/ disk[n] = Unused
         /\ memory[n] = ResumedMemory(disk[n], {})
  BY DEF StoreInit

LEMMA InitGood == Init => IInv
<1> SUFFICES ASSUME Init PROVE IInv
  OBVIOUS
<1>1. PICK whole \in Seeds : StoreInit(whole)
  BY DEF Init
<1>2. Shapes
  BY <1>1 DEF Shapes, Init, StoreInit
<1>3. ASSUME NEW n \in Nodes PROVE Good(n)
  <2>1. (disk[n] = Whole \/ disk[n] = Unused) /\ memory[n] = ResumedMemory(disk[n], {})
    BY <1>1, StoredWhole
  <2>2. /\ DOMAIN disk[n] = {"piece", "file", "meta"}
        /\ disk[n].piece = Nothing /\ disk[n].file \in Content
        /\ disk[n].piece \in [Pieces -> Content]
    BY <2>1 DEF Whole, Unused, Nothing, Content
  <2>3. /\ DOMAIN memory[n] = Fields /\ memory[n].late = {} /\ memory[n].below = {} /\ memory[n].have \subseteq Pieces
        /\ memory[n].data \in [Pieces -> {"none", "right"}]
        /\ disk[n].meta => memory[n].known /\ (memory[n].have = Pieces \/ memory[n].wanted)
        /\ disk[n].meta /\ disk[n].file = "right" => memory[n].have = Pieces
        /\ ~(disk[n].meta /\ disk[n].file = "right") => \A p \in memory[n].have : memory[n].data[p] = "right"
        /\ \A p \in Pieces : memory[n].data[p] = "right" => p \in memory[n].have
    <3> DEFINE d == disk[n]
    <3>1. DOMAIN d = {"piece", "file", "meta"} /\ d.piece \in [Pieces -> Content]
      BY <2>2
    <3>2. memory[n] = ResumedMemory(d, {})
      BY <2>1
    <3> HIDE DEF d
    <3>3. LET new == ResumedMemory(d, {})
          IN  /\ DOMAIN new = Fields /\ new.late = {} /\ new.below = {} /\ new.have \subseteq Pieces
              /\ new.data \in [Pieces -> {"none", "right"}]
              /\ d.meta => new.known /\ (new.have = Pieces \/ new.wanted)
              /\ d.meta /\ d.file = "right" => new.have = Pieces
              /\ ~(d.meta /\ d.file = "right") => \A p \in new.have : new.data[p] = "right"
              /\ \A p \in Pieces : new.data[p] = "right" => p \in new.have
      BY <3>1, ResumedFacts
    <3> QED BY <3>2, <3>3 DEF d
  <2>4. /\ DOMAIN thread[n] = Threads
        /\ \A t \in Threads : thread[n][t] = Resting
    BY DEF Init
  <2>5. Resting.at = "idle" /\ Resting.then \in Back /\ Resting.list = {} /\ DOMAIN Resting = Frame
    BY DEF Resting, Back, Frame
  <2>6. TypesOf(n)
    BY <2>2, <2>3 DEF TypesOf
  <2>7. ThreadsOf(n)
    BY <2>4, <2>5, ListenerIsNoWorker, WorkersAreThreads DEF ThreadsOf, Quiet, Back
  <2>8. Held(n)
    BY <2>2, <2>3 DEF Held, OnFile, Nothing
  <2>9. Assembly(n)
    BY <2>4, <2>5, ListenerIsNoWorker DEF Assembly, ListenerIn, AssemblyEnds
  <2>10. Creation(n)
    BY <2>4, <2>5, WorkersAreThreads DEF Creation
  <2>11. Saved(n)
    BY <2>3 DEF Saved
  <2> QED BY <2>6, <2>7, <2>8, <2>9, <2>10, <2>11 DEF Good
<1> QED BY <1>2, <1>3 DEF IInv

LEMMA StutterStep ==
  ASSUME IInv, UNCHANGED vars
  PROVE  IInv'
  BY SameIsGood DEF IInv, Same, Shapes, vars

LEMMA DownloadSteps ==
  ASSUME IInv, NEW n \in Nodes, NEW t \in Threads, Downloads(n, t)
  PROVE  IInv'
  BY BeginStep, FetchStep, AdoptStep, LoadStep, FindStaleStep, ExpireStep, PickStep, AskStep DEF Downloads

LEMMA ListenerSteps ==
  ASSUME IInv, NEW n \in Nodes, ListenerStep(n)
  PROVE  IInv'
<1>1. CASE Hears(n)
  BY <1>1, HearsAnnouncementStep, HearsNeedStep, HearsRequestStep, HearsPieceStep DEF Hears
<1>2. CASE Assembles(n)
  BY <1>2, StoreStep, JoinStep, ForgetStep, UnlinkStep, SaveStep, TellStep DEF Assembles
<1> QED BY <1>1, <1>2, DownloadSteps, ListenerIsNoWorker DEF ListenerStep

LEMMA WorkerSteps ==
  ASSUME IInv, NEW n \in Nodes, NEW w \in Workers, WorkerStep(n, w)
  PROVE  IInv'
<1>1. CASE Maintains(n, w)
  BY <1>1, SettleStep, RefillStep DEF Maintains
<1>2. CASE Publishes(n, w)
  BY <1>2, OwnStep, FillStep, KeepStep, RecordStep, AnnounceStep DEF Publishes
<1> QED BY <1>1, <1>2, TickStep, DownloadSteps, WorkersAreThreads DEF WorkerStep

LEMMA NextStep ==
  ASSUME IInv, [Next]_vars
  PROVE  IInv'
<1>1. ASSUME NEW n \in Nodes, UserCall(n)
      PROVE  IInv'
  BY <1>1, TravelStep, EnsureStep, CreateStep DEF UserCall
<1>2. ASSUME NEW n \in Nodes, NEW p \in Pieces, RequestTimesOut(n, p) \/ BackoffEnds(n, p)
      PROVE  IInv'
  BY <1>2, TimeStep
<1>3. ASSUME NEW n \in Nodes, Lose(n) \/ Damage(n) \/ Restart(n)
      PROVE  IInv'
  BY <1>3, TravelStep, RestartStep
<1>4. ASSUME MetadataExpires
      PROVE  IInv'
  <2>1. CASE \E n \in Nodes : TRUE
    BY <1>4, <2>1, TravelStep
  <2>2. CASE Nodes = {}
    BY <1>4, <2>2 DEF MetadataExpires, IInv, Shapes
  <2> QED BY <2>1, <2>2
<1> QED BY <1>1, <1>2, <1>3, <1>4, ListenerSteps, WorkerSteps, StutterStep DEF Next

\* Where the bytes of every piece are, at each stage of every thread.
THEOREM Invariant == Spec => []IInv
<1>1. IInv /\ [Next]_vars => IInv'
  BY NextStep
<1> QED BY <1>1, InitGood, PTL DEF Spec

----------------------------------------------------------------------------
(* What follows from it.                                                    *)

LEMMA HeldIsRead ==
  ASSUME NEW n \in Nodes, Good(n), ~Filling(n), ~Overwritten(n), ~ListenerIn(n, {"unlink"}),
         NEW p \in memory[n].have
  PROVE  Read(n, p) = "right"
  BY DEF Good, Held, OnFile, Read, TypesOf

\* A piece a node claims can be sent: its bytes are in memory, or in the complete
\* file with no piece file hiding it (_on_piece_request); not in the moment before
\* create_torrent has put them there, nor after a failed write of it over an assembly.
THEOREM HeldIsServed == Spec => []HeldCanBeServed
<1>1. IInv => HeldCanBeServed
  BY HeldIsRead, ListenerIsNoWorker DEF IInv, HeldCanBeServed, At, ListenerIn
<1> QED BY <1>1, Invariant, PTL

\* Whoever has a .meta.json has the pieces or wants them (_resume_from_disk), unless it
\* took an index below zero for one of them (_on_piece_data).
THEOREM SavedIsKept == Spec => []SavedIsHeldOrWanted
<1>1. IInv => SavedIsHeldOrWanted
  BY DEF IInv, Good, Saved, SavedIsHeldOrWanted
<1> QED BY <1>1, Invariant, PTL

\* Whoever announces asset.complete lacks no more pieces than it took indexes below zero
\* for pieces (_on_piece_data, _assemble_and_finish).
THEOREM CompletionIsBacked == Spec => []CompletionIsPossession
<1>1. ASSUME IInv, NEW n \in Nodes, At(n, "listener", "tell"), ~Filling(n), ~Overwritten(n)
      PROVE  Cardinality({p \in Pieces : Read(n, p) # "right"}) <= Cardinality(memory[n].below)
  <2> DEFINE bad == {p \in Pieces : Read(n, p) # "right"}
             lacks == Pieces \ memory[n].have
  <2>1. Good(n) /\ MadeUp(n) /\ memory[n].below \subseteq Pieces
    BY <1>1 DEF IInv, Good, Assembly, ListenerIn, At, AssemblyEnds, TypesOf
  <2>2. \A p \in memory[n].have : Read(n, p) = "right"
    BY <1>1, <2>1, HeldIsRead DEF At, ListenerIn
  <2>3. bad \subseteq lacks /\ lacks \subseteq Pieces
    BY <2>2
  <2>4. Cardinality(lacks) <= Cardinality(memory[n].below)
    BY <2>1 DEF MadeUp
  <2> HIDE DEF bad, lacks
  <2>5. bad \subseteq Pieces
    BY <2>3
  <2>6. IsFiniteSet(lacks) /\ Cardinality(lacks) \in Nat /\ Cardinality(bad) \in Nat
    BY <2>3, <2>5, PartsAreFinite
  <2>7. Cardinality(bad) <= Cardinality(lacks)
    BY <2>3, <2>6, FS_Subset
  <2>8. Cardinality(memory[n].below) \in Nat
    BY <2>1, PartsAreFinite
  <2>9. Cardinality(bad) <= Cardinality(memory[n].below)
    BY <2>4, <2>6, <2>7, <2>8
  <2> QED BY <2>9 DEF bad
<1>2. IInv => CompletionIsPossession
  BY <1>1 DEF CompletionIsPossession
<1> QED BY <1>2, Invariant, PTL

----------------------------------------------------------------------------
(* Pieces on the disk.                                                      *)

Writes(n) ==
    \/ Store(n) \/ Join(n) \/ Unlink(n) \/ Save(n) \/ Restart(n)
    \/ \E t \in Threads : Load(n, t)
    \/ \E w \in Workers : Keep(n, w) \/ Record(n, w)

LEMMA OthersLeaveDisk ==
  ASSUME [Next]_vars, \A n \in Nodes : ~Writes(n)
  PROVE  disk' = disk
<1>1. \A n \in Nodes, t \in Threads : Downloads(n, t) => disk' = disk
  <2> SUFFICES ASSUME NEW n \in Nodes, NEW t \in Threads, Downloads(n, t) PROVE disk' = disk
    OBVIOUS
  <2>1. CASE Begin(n, t) \/ Fetch(n, t) \/ Adopt(n, t)
    BY <2>1 DEF Begin, Fetch, Adopt, OnlyStep
  <2>2. CASE FindStale(n, t) \/ Pick(n, t)
    BY <2>2 DEF FindStale, Pick, OnlyStep
  <2>3. CASE Expire(n, t) \/ Ask(n, t)
    BY <2>3 DEF Expire, Ask
  <2> QED BY <2>1, <2>2, <2>3 DEF Downloads, Writes
<1>2. \A n \in Nodes : ListenerStep(n) => disk' = disk
  <2> SUFFICES ASSUME NEW n \in Nodes, ListenerStep(n) PROVE disk' = disk
    OBVIOUS
  <2>1. CASE Hears(n)
    BY <2>1 DEF Hears, HearsAnnouncement, HearsNeed, HearsRequest, HearsPiece
  <2>2. CASE Assembles(n)
    BY <2>2 DEF Assembles, Writes, Forget, Tell, OnlyStep
  <2> QED BY <1>1, <2>1, <2>2, ListenerIsNoWorker DEF ListenerStep
<1>3. \A n \in Nodes, w \in Workers : WorkerStep(n, w) => disk' = disk
  <2> SUFFICES ASSUME NEW n \in Nodes, NEW w \in Workers, WorkerStep(n, w) PROVE disk' = disk
    OBVIOUS
  <2>1. CASE Tick(n, w) \/ Maintains(n, w)
    BY <2>1 DEF Maintains, Tick, Settle, Refill, OnlyStep
  <2>2. CASE Publishes(n, w)
    <3>1. CASE Own(n, w) \/ Fill(n, w) \/ Announce(n, w)
      BY <3>1 DEF Own, Fill, Announce
    <3>2. ~Keep(n, w) /\ ~Record(n, w)
      BY DEF Writes
    <3> QED BY <2>2, <3>1, <3>2 DEF Publishes
  <2> QED BY <1>1, <2>1, <2>2, WorkersAreThreads DEF WorkerStep
<1>4. \A n \in Nodes : UserCall(n) => disk' = disk
  BY DEF UserCall, AsksOthers, Ensure, Create
<1>5. \A n \in Nodes :
         \/ \E p \in Pieces : RequestTimesOut(n, p) \/ BackoffEnds(n, p)
         \/ Lose(n) \/ Damage(n)
         => disk' = disk
  BY DEF RequestTimesOut, BackoffEnds, Lose, Damage
<1> QED
  BY <1>2, <1>3, <1>4, <1>5 DEF Next, Writes, MetadataExpires, vars

\* A file of one node is written.
SafeCopy(n, p) ==
    \/ disk[n].piece[p] = "right" /\ ~Storing(n, p)
    \/ disk[n].file = "right" /\ ~Rewriting(n)

LEMMA WritesKeepOthers ==
  ASSUME IInv, NEW n \in Nodes, Writes(n), NEW m \in Nodes \ {n}
  PROVE  disk'[m] = disk[m]
<1>1. CASE Store(n) \/ Join(n) \/ Unlink(n)
  BY <1>1 DEF Store, Join, Unlink, IInv, Shapes
<1>2. CASE Save(n) \/ \E w \in Workers : Keep(n, w) \/ Record(n, w)
  BY <1>2 DEF Save, Keep, Record, WriteMeta, IInv, Shapes
<1>3. CASE \E t \in Threads : Load(n, t)
  BY <1>3 DEF Load, LoadFails, Loads, IInv, Shapes
<1>4. CASE Restart(n)
  BY <1>4 DEF Restart, RestartFails, Restarts, IInv, Shapes
<1> QED BY <1>1, <1>2, <1>3, <1>4 DEF Writes

LEMMA WritesKeepCopies ==
  ASSUME IInv, NEW n \in Nodes, Writes(n), NEW p \in Pieces, SafeCopy(n, p), ~Overwritten(n)
  PROVE  OnDisk(n, p)' \/ CannotRead(n, p)
<1>0. /\ Good(n) /\ n \in DOMAIN disk /\ DOMAIN disk[n] = {"piece", "file", "meta"}
      /\ disk[n].piece \in [Pieces -> Content]
  BY DEF IInv, Shapes, Good, TypesOf
<1>1. CASE Store(n)
  <2> DEFINE q == thread[n]["listener"].piece
  <2>a. CASE q = NoPiece
    BY <1>1, <2>a DEF Store, SafeCopy, OnDisk
  <2>b. SUFFICES ASSUME q # NoPiece PROVE OnDisk(n, p)'
    BY <2>a
  <2>1. PICK c : disk' = [disk EXCEPT ![n].piece[q] = c]
    BY <1>1, <2>b DEF Store
  <2>2. disk'[n].file = disk[n].file /\ disk'[n].piece = [disk[n].piece EXCEPT ![q] = c]
    <3> HIDE DEF q
    <3> QED BY <1>0, <2>1
  <2>3. ~Rewriting(n) \/ disk[n].file # "right" \/ disk'[n].file = "right"
    BY <2>2
  <2>4. q = p => Storing(n, p)
    BY <1>1 DEF Store, Storing
  <2> HIDE DEF q
  <2> QED BY <1>0, <2>2, <2>4 DEF SafeCopy, OnDisk
<1>2. CASE Join(n) \/ \E w \in Workers : Keep(n, w)
  <2>1. Rewriting(n)
    BY <1>2, ListenerIsNoWorker, WorkersAreThreads DEF Join, Keep, Rewriting
  <2>2. disk'[n].piece = disk[n].piece
    BY <1>0, <1>2 DEF Join, Keep
  <2> QED BY <2>1, <2>2 DEF SafeCopy, OnDisk
<1>3. CASE Unlink(n)
  <2>1. disk[n].file = "right"
    BY <1>0, <1>3 DEF Unlink, At, Good, Assembly, ListenerIn, OnFile
  <2>2. disk'[n].file = disk[n].file
    BY <1>0, <1>3 DEF Unlink
  <2> QED BY <2>1, <2>2 DEF OnDisk
<1>4. CASE Save(n) \/ \E w \in Workers : Record(n, w)
  <2>1. disk'[n].piece = disk[n].piece /\ disk'[n].file = disk[n].file
    BY <1>0, <1>4 DEF Save, Record, WriteMeta
  <2> QED BY <2>1 DEF SafeCopy, OnDisk
<1>5. CASE Restart(n)
  <2>1. \E d \in AfterCrash(n) : \E gone : Restarts(n, d, gone) /\ (p \in gone => RestartFails(n, p))
    <3>1. CASE \E d \in AfterCrash(n) : Restarts(n, d, {})
      BY <3>1
    <3>2. CASE \E q \in Pieces : RestartFails(n, q)
      <4>1. PICK q \in Pieces : RestartFails(n, q)
        BY <3>2
      <4>2. PICK d \in AfterCrash(n) : Restarts(n, d, {q})
        BY <4>1 DEF RestartFails
      <4>3. p \in {q} => RestartFails(n, p)
        BY <4>1
      <4> QED BY <4>2, <4>3
    <3> QED BY <1>5, <3>1, <3>2 DEF Restart
  <2>a. PICK d \in AfterCrash(n) : \E gone : Restarts(n, d, gone) /\ (p \in gone => RestartFails(n, p))
    BY <2>1
  <2>b. PICK gone : Restarts(n, d, gone) /\ (p \in gone => RestartFails(n, p))
    BY <2>a
  <2>2. /\ DOMAIN d = {"piece", "file", "meta"} /\ d.piece \in [Pieces -> Content]
        /\ disk[n].piece[p] = "right" /\ ~Storing(n, p) => d.piece[p] = "right"
        /\ disk[n].file = "right" /\ ~Rewriting(n) => d.file = "right"
    BY <1>0, AfterCrashFacts DEF Good
  <2>3. disk'[n] = ResumedDisk(d, gone)
    BY <1>0, <2>b DEF Restarts
  <2>4. /\ ResumedDisk(d, gone).file = d.file
        /\ d.file = "right" \/ p \in gone \/ ResumedDisk(d, gone).piece[p] = d.piece[p]
    BY <2>2, WithoutFacts DEF ResumedDisk
  <2>5. CASE d.file = "right"
    BY <2>3, <2>4, <2>5 DEF OnDisk
  <2>6. CASE d.file # "right"
    <3>1. d.piece[p] = "right"
      BY <2>2, <2>6 DEF SafeCopy
    <3> QED BY <2>b, <2>3, <2>4, <2>6, <3>1 DEF OnDisk, CannotRead
  <2> QED BY <2>5, <2>6
<1>6. CASE \E t \in Threads : Load(n, t)
  <2>a. PICK t \in Threads : Load(n, t)
    BY <1>6
  <2>b. \E gone : Loads(n, t, gone) /\ (p \in gone => LoadFails(n, t, p))
    <3>1. CASE Loads(n, t, {})
      BY <3>1
    <3>2. CASE \E q \in Pieces : LoadFails(n, t, q)
      <4>1. PICK q \in Pieces : LoadFails(n, t, q)
        BY <3>2
      <4>2. Loads(n, t, {q}) /\ (p \in {q} => LoadFails(n, t, p))
        BY <4>1 DEF LoadFails
      <4> QED BY <4>2
    <3> QED BY <2>a, <3>1, <3>2 DEF Load
  <2>1. PICK gone : Loads(n, t, gone) /\ (p \in gone => LoadFails(n, t, p))
    BY <2>b
  <2>2. disk'[n] = Without(disk[n], gone)
    BY <1>0, <2>1 DEF Loads
  <2>3. disk'[n].file = disk[n].file /\ (p \in gone \/ disk'[n].piece[p] = disk[n].piece[p])
    BY <1>0, <2>2, WithoutFacts
  <2> QED BY <2>1, <2>3 DEF SafeCopy, OnDisk, CannotRead
<1> QED BY <1>1, <1>2, <1>3, <1>4, <1>5, <1>6 DEF Writes

\* A piece that reached the disk stays on it, whatever is assembled, unlinked, created
\* or restarted (_write_piece, _assemble_and_finish, _resume_from_disk), unless a load
\* fails to read its file (_load_partial_pieces).
THEOREM DiskKeepsPieces == Spec => PiecesStayOnDisk
<1> DEFINE Stay == \A n \in Nodes, p \in Pieces : ~Overwritten(n) /\ SafeCopy(n, p) => OnDisk(n, p)' \/ CannotRead(n, p)
<1>1. ASSUME IInv, [Next]_vars PROVE Stay
  <2> SUFFICES ASSUME NEW n \in Nodes, NEW p \in Pieces, ~Overwritten(n), SafeCopy(n, p)
               PROVE  OnDisk(n, p)' \/ CannotRead(n, p)
    OBVIOUS
  <2>1. CASE Writes(n)
    BY <1>1, <2>1, WritesKeepCopies
  <2>2. CASE ~Writes(n)
    <3>1. disk'[n] = disk[n]
      BY <1>1, <2>2, OthersLeaveDisk, WritesKeepOthers
    <3> QED BY <3>1 DEF SafeCopy, OnDisk
  <2> QED BY <2>1, <2>2
<1>2. Stay => \A n \in Nodes, p \in Pieces :
                 /\ ~Overwritten(n)
                 /\ \/ disk[n].piece[p] = "right" /\ ~Storing(n, p)
                    \/ disk[n].file = "right" /\ ~Rewriting(n)
                 => OnDisk(n, p)' \/ CannotRead(n, p)
  BY DEF SafeCopy
<1> HIDE DEF Stay
<1>3. IInv /\ [Next]_vars =>
         [\A n \in Nodes, p \in Pieces :
             /\ ~Overwritten(n)
             /\ \/ disk[n].piece[p] = "right" /\ ~Storing(n, p)
                \/ disk[n].file = "right" /\ ~Rewriting(n)
             => OnDisk(n, p)' \/ CannotRead(n, p)]_vars
  BY <1>1, <1>2
<1> QED BY <1>3, Invariant, PTL DEF Spec, PiecesStayOnDisk

=============================================================================
