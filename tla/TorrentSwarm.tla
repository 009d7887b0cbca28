---------------------------- MODULE TorrentSwarm ----------------------------
(***************************************************************************)
(* The distribution of one torrent by the TorrentManagers of several nodes *)
(* over a lossy publish/subscribe channel.  In every node a listener       *)
(* thread runs the message handlers and other threads (the maintenance     *)
(* thread, callers of ensure_asset) run their own; they share the manager  *)
(* without a lock, so a step ends where another thread may see what it did *)
(* or where a crash may fall: between two accesses to the dictionaries     *)
(* that matter to each other, and at every write of a file.                *)
(***************************************************************************)
EXTENDS PieceStore, Sequences

CONSTANTS
    Creators,    \* nodes that have the original file
    Seeds,       \* sets of nodes whose storage directory may have the whole torrent at
                 \* the start, announced in the last two hours
    Workers,     \* a node's threads other than its listener
    Slots,       \* max_outstanding
    MaxCalls,    \* bound: calls of users
    MaxSteps,    \* bound: calls and faults together
    MaxFaults,   \* bound: messages lost or damaged, commands, reads and writes
                 \* that fail, requests that time out while still on their way,
                 \* restarts, expiries of the metadata key
    NoPiece

ASSUME SwarmAssumption ==
    /\ Creators \subseteq Nodes /\ Seeds \subseteq SUBSET Nodes
    /\ "listener" \notin Workers
    /\ NoPiece \notin Pieces
    /\ Slots \in Nat \ {0} /\ {MaxCalls, MaxFaults, MaxSteps} \subseteq Nat

VARIABLES
    inbox,       \* messages published and not handed to the node's handlers yet
    published,   \* whether the mesh key torrent:<infohash> is there
    thread,      \* what each thread is in the middle of
    raced,       \* the nodes where create_torrent took all pieces to be there while the listener was in the
                 \* middle of storing or assembling the same torrent (history)
    calls, faults

vars == <<memory, disk, inbox, published, thread, raced, calls, faults>>
counters == <<calls, faults>>

Threads == Workers \cup {"listener"}

Stages == {"idle", "settle", "refill",                       \* _maintenance_tick
           "begin", "fetch", "adopt", "load",                \* start_download
           "stale", "expire", "pick", "ask",                 \* _fill_pipeline
           "store",                                          \* _on_piece_data
           "join", "forget", "unlink", "save", "tell",       \* _assemble_and_finish
           "own", "fill", "keep", "record", "announce"}      \* create_torrent, announce

\* at: the stage; then: where it goes after a download was started or filled; held:
\* whether it has the metadata; free: slots counted; list: pieces to expire or to ask
\* for; piece: the one it has received, NoPiece for an index below zero.
Resting == [at |-> "idle", then |-> "idle", held |-> FALSE, free |-> 0, list |-> {}, piece |-> NoPiece]

Announcement == [type |-> "announce"]
Need == [type |-> "need"]
Request(n, p) == [type |-> "request", from |-> n, piece |-> p]
\* below: whether the index is counted from the end (-1 is the last piece's).
PieceData(p, below, data, hash) ==
    [type |-> "data", piece |-> p, below |-> below, data |-> data, hash |-> hash]

Init ==
    /\ \E whole \in Seeds : StoreInit(whole) /\ published = (whole # {})
    /\ inbox = [n \in Nodes |-> <<>>]
    /\ thread = [n \in Nodes |-> [t \in Threads |-> Resting]]
    /\ raced = {}
    /\ calls = 0 /\ faults = 0

At(n, t, stage) == thread[n][t].at = stage
GoesTo(n, t, stage) == thread' = [thread EXCEPT ![n][t].at = stage]
Returns(th) == [Resting EXCEPT !.at = th.then]
Return(n, t) == thread' = [thread EXCEPT ![n][t] = Returns(@)]
Abort(n, t) == thread' = [thread EXCEPT ![n][t] = Resting]

ToOthers(n, msg) == [m \in Nodes |-> IF m = n THEN inbox[m] ELSE Append(inbox[m], msg)]
OnlyStep == UNCHANGED <<memory, disk, inbox, published, raced>>

Fault == faults < MaxFaults /\ calls + faults < MaxSteps /\ faults' = faults + 1 /\ UNCHANGED calls
NoFault == UNCHANGED counters

(* ------------------------------ start_download --------------------------- *)

Begin(n, t) ==
    /\ At(n, t, "begin")
    /\ memory' = [memory EXCEPT ![n].wanted = ~Complete(n)]
    /\ IF Complete(n) THEN Return(n, t)
       ELSE GoesTo(n, t, IF thread[n][t].held THEN "adopt" ELSE "fetch")
    /\ UNCHANGED <<disk, inbox, published, raced>> /\ NoFault

\* The maintenance thread fetches the metadata first and then starts the download.
Fetch(n, t) ==
    /\ At(n, t, "fetch")
    /\ IF ~published THEN Return(n, t)
       ELSE thread' = [thread EXCEPT ![n][t].held = TRUE,
                                     ![n][t].at = IF thread[n][t].then = "settle" THEN "begin" ELSE "adopt"]
    /\ OnlyStep /\ NoFault

Adopt(n, t) ==
    /\ At(n, t, "adopt")
    /\ memory' = [memory EXCEPT ![n].known = TRUE]
    /\ thread' = [thread EXCEPT ![n][t].at = "load", ![n][t].held = FALSE]
    /\ UNCHANGED <<disk, inbox, published, raced>> /\ NoFault

Loads(n, t, unreadable) ==
    /\ At(n, t, "load")
    /\ memory' = [memory EXCEPT ![n] = Loaded(@, disk[n], unreadable)]
    /\ disk' = [disk EXCEPT ![n] = Without(@, unreadable)]
    /\ GoesTo(n, t, "stale")
    /\ UNCHANGED <<inbox, published, raced>>

LoadFails(n, t, p) == disk[n].piece[p] # "none" /\ Loads(n, t, {p}) /\ Fault

Load(n, t) ==
    \/ Loads(n, t, {}) /\ NoFault
    \/ \E p \in Pieces : LoadFails(n, t, p)

(* ------------------------------ _fill_pipeline --------------------------- *)

\* Mutant of Counts: the last slot is never used.
CountsOneLess(th, pending) ==
    IF Cardinality(pending) + 1 >= Slots THEN Returns(th)
    ELSE [th EXCEPT !.at = "pick", !.free = Slots - Cardinality(pending), !.list = {}]

\* The slots left are counted once, before any request of this pass.
Counts(th, pending) ==
    IF Cardinality(pending) >= Slots THEN Returns(th)
    ELSE [th EXCEPT !.at = "pick", !.free = Slots - Cardinality(pending), !.list = {}]

FindStale(n, t) ==
    /\ At(n, t, "stale")
    /\ thread' = [thread EXCEPT ![n][t] =
                     IF memory[n].late = {} THEN Counts(@, memory[n].pending)
                     ELSE [@ EXCEPT !.at = "expire", !.list = memory[n].late]]
    /\ OnlyStep /\ NoFault

Expired(m, gone) ==
    [m EXCEPT !.pending = @ \ gone, !.late = @ \ gone, !.backoff = @ \cup gone]

\* Deleting an entry another thread has removed meanwhile raises KeyError, which ends
\* the handler or the whole pass of the maintenance thread.
Expire(n, t) ==
    /\ At(n, t, "expire")
    /\ LET stale == thread[n][t].list
           left  == stale \cap memory[n].pending
       IN  IF left = stale
           THEN /\ memory' = [memory EXCEPT ![n] = Expired(@, stale)]
                /\ thread' = [thread EXCEPT ![n][t] = Counts(@, memory[n].pending \ stale)]
           ELSE /\ \E gone \in SUBSET left : memory' = [memory EXCEPT ![n] = Expired(@, gone)]
                /\ Abort(n, t)
    /\ UNCHANGED <<disk, inbox, published, raced>> /\ NoFault

\* Which of the missing pieces come first is a matter of rarity, which is left open.
Pick(n, t) ==
    /\ At(n, t, "pick")
    /\ \E list \in SUBSET Missing(n) :
          /\ \/ Cardinality(list) = thread[n][t].free
             \/ list = Missing(n) /\ Cardinality(list) < thread[n][t].free
          /\ thread' = [thread EXCEPT ![n][t] =
                           IF list = {} THEN Returns(@)
                           ELSE [@ EXCEPT !.at = "ask", !.free = 0, !.list = list]]
    /\ OnlyStep /\ NoFault

Asked(th, p) == IF th.list = {p} THEN Returns(th) ELSE [th EXCEPT !.list = @ \ {p}]

\* _request_piece: the entry is made first and taken back when publishing raises.
Ask(n, t) ==
    /\ At(n, t, "ask")
    /\ \E p \in thread[n][t].list :
          /\ \/ /\ memory' = [memory EXCEPT ![n].pending = @ \cup {p}, ![n].late = @ \ {p}]
                /\ inbox' = ToOthers(n, Request(n, p))
                /\ NoFault
             \/ /\ memory' = [memory EXCEPT ![n].pending = @ \ {p}, ![n].late = @ \ {p}]
                /\ UNCHANGED inbox
                /\ Fault
          /\ thread' = [thread EXCEPT ![n][t] = Asked(@, p)]
    /\ UNCHANGED <<disk, published, raced>>

(* ----------------------------- message handlers -------------------------- *)

\* The listener takes up the oldest message once it is done with the one before.
Takes(n) ==
    /\ At(n, "listener", "idle")
    /\ inbox[n] # <<>>

Listener(n, th) == thread' = [thread EXCEPT ![n]["listener"] = th]

HearsAnnouncement(n) ==
    /\ Takes(n) /\ Head(inbox[n]) = Announcement
    /\ inbox' = [inbox EXCEPT ![n] = Tail(@)]
    /\ published' = TRUE
    /\ IF memory[n].wanted /\ ~memory[n].known
       THEN Listener(n, [Resting EXCEPT !.at = "begin", !.held = TRUE])
       ELSE UNCHANGED thread
    /\ UNCHANGED <<memory, disk, raced>> /\ NoFault

HearsNeed(n) ==
    /\ Takes(n) /\ Head(inbox[n]) = Need
    /\ inbox' = [inbox EXCEPT ![n] = Tail(@)]
    /\ IF Complete(n)
       THEN UNCHANGED <<memory, thread>>
       ELSE /\ memory' = [memory EXCEPT ![n].wanted = TRUE]
            /\ Listener(n, [Resting EXCEPT !.at = "begin"])
    /\ UNCHANGED <<disk, published, raced>> /\ NoFault

\* A node that has the piece sends the bytes it reads and their own hash. No node asks
\* for an index below zero.
HearsRequest(n) ==
    /\ Takes(n) /\ Head(inbox[n]).type = "request"
    /\ LET msg    == Head(inbox[n])
           bytes  == Read(n, msg.piece)
           handed == [inbox EXCEPT ![n] = Tail(@)]
       IN  inbox' = IF msg.piece \in memory[n].have /\ bytes # "none"
                    THEN [handed EXCEPT ![msg.from] = Append(@, PieceData(msg.piece, FALSE, bytes, bytes))]
                    ELSE handed
    /\ UNCHANGED <<memory, disk, published, thread, raced>> /\ NoFault

\* Mutant of Verified: the hash is not compared with that of the metadata.
VerifiedMutant(n, msg) == memory[n].known /\ msg.data = msg.hash

\* The bytes have the hash they came with, and that is the hash of the metadata, where
\* an index below zero finds that of a piece too: only idx >= len is refused.
Verified(n, msg) == memory[n].known /\ msg.data = msg.hash /\ msg.hash = "right"

Known(m, msg) == msg.piece \in IF msg.below THEN m.below ELSE m.have

\* The entries of pending and backoff are those of the very index.
Received(m, msg) ==
    IF msg.below THEN [m EXCEPT !.below = @ \cup {msg.piece}]
    ELSE [m EXCEPT !.pending = @ \ {msg.piece}, !.late = @ \ {msg.piece}, !.backoff = @ \ {msg.piece},
                   !.have = @ \cup {msg.piece},
                   !.data[msg.piece] = IF msg.piece \in m.have THEN @ ELSE msg.data]

HearsPiece(n) ==
    /\ Takes(n) /\ Head(inbox[n]).type = "data"
    /\ inbox' = [inbox EXCEPT ![n] = Tail(@)]
    /\ LET msg == Head(inbox[n])
       IN  IF ~Verified(n, msg)
           THEN UNCHANGED <<memory, thread>>
           ELSE /\ memory' = [memory EXCEPT ![n] = Received(@, msg)]
                /\ Listener(n, IF Known(memory[n], msg)
                               THEN [Resting EXCEPT !.at = "stale"]
                               ELSE [Resting EXCEPT !.at = "store",
                                                    !.piece = IF msg.below THEN NoPiece ELSE msg.piece])
    /\ UNCHANGED <<disk, published, raced>> /\ NoFault

\* _write_piece swallows what goes wrong. The file of an index below zero is never read.
Store(n) ==
    /\ At(n, "listener", "store")
    /\ LET p == thread[n]["listener"].piece
       IN  \/ p = NoPiece /\ UNCHANGED disk /\ NoFault
           \/ /\ p # NoPiece
              /\ disk' = [disk EXCEPT ![n].piece[p] = memory[n].data[p]]
              /\ NoFault
           \/ /\ p # NoPiece
              /\ disk' = [disk EXCEPT ![n].piece[p] = "wrong"]
              /\ Fault
    /\ Listener(n, [Resting EXCEPT !.at = IF Complete(n) THEN "join" ELSE "stale"])
    /\ UNCHANGED <<memory, inbox, published, raced>>

(* --------------------------- _assemble_and_finish ------------------------ *)

Joined(data) == IF \A p \in Pieces : data[p] = "right" THEN "right" ELSE "wrong"

\* Mutant of Join: a write that fails is swallowed as in _write_piece.
JoinMutant(n) ==
    /\ At(n, "listener", "join")
    /\ \/ disk' = [disk EXCEPT ![n].file = Joined(memory[n].data)] /\ NoFault
       \/ disk' = [disk EXCEPT ![n].file = "wrong"] /\ Fault
    /\ GoesTo(n, "listener", "forget")
    /\ UNCHANGED <<memory, inbox, published, raced>>

\* A piece that is missing and a write that fails end the assembly; the completion is
\* announced all the same. The metadata's size is taken to be that of its pieces.
Join(n) ==
    /\ At(n, "listener", "join")
    /\ \/ /\ \A p \in Pieces : memory[n].data[p] # "none"
          /\ disk' = [disk EXCEPT ![n].file = Joined(memory[n].data)]
          /\ GoesTo(n, "listener", "forget")
          /\ NoFault
       \/ /\ \E p \in Pieces : memory[n].data[p] = "none"
          /\ GoesTo(n, "listener", "tell")
          /\ UNCHANGED disk /\ NoFault
       \/ /\ \A p \in Pieces : memory[n].data[p] # "none"
          /\ disk' = [disk EXCEPT ![n].file = "wrong"]
          /\ GoesTo(n, "listener", "tell")
          /\ Fault
    /\ UNCHANGED <<memory, inbox, published, raced>>

Forgotten(m) ==
    [m EXCEPT !.data = Nothing, !.pending = {}, !.late = {}, !.backoff = {}, !.wanted = FALSE]

Forget(n) ==
    /\ At(n, "listener", "forget")
    /\ memory' = [memory EXCEPT ![n] = Forgotten(@)]
    /\ GoesTo(n, "listener", "unlink")
    /\ UNCHANGED <<disk, inbox, published, raced>> /\ NoFault

Unlink(n) ==
    /\ At(n, "listener", "unlink")
    /\ \/ /\ \E p \in Pieces : /\ disk[n].piece[p] # "none"
                               /\ disk' = [disk EXCEPT ![n].piece[p] = "none"]
          /\ UNCHANGED thread
       \/ /\ disk[n].piece = Nothing
          /\ GoesTo(n, "listener", "save")
          /\ UNCHANGED disk
    /\ UNCHANGED <<memory, inbox, published, raced>> /\ NoFault

\* _write_meta swallows what goes wrong; a file cut short is skipped by every restart.
WriteMeta(n) ==
    \/ disk' = [disk EXCEPT ![n].meta = TRUE] /\ NoFault
    \/ disk' = [disk EXCEPT ![n].meta = FALSE] /\ Fault

Save(n) ==
    /\ At(n, "listener", "save")
    /\ WriteMeta(n)
    /\ GoesTo(n, "listener", "tell")
    /\ UNCHANGED <<memory, inbox, published, raced>>

\* asset.complete is published; none of its hearers is in this module.
Tell(n) ==
    /\ At(n, "listener", "tell")
    /\ Abort(n, "listener")
    /\ OnlyStep /\ NoFault

(* ---------------------------- maintenance thread ------------------------- *)

\* One pass; the metadata are fetched again when the last attempt is long ago.
Tick(n, w) ==
    /\ At(n, w, "idle") /\ memory[n].wanted
    /\ \/ GoesTo(n, w, "settle")
       \/ /\ ~memory[n].known
          /\ thread' = [thread EXCEPT ![n][w].at = "fetch", ![n][w].then = "settle"]
    /\ OnlyStep /\ NoFault

\* The request of a piece, or the answer to it, is still on its way.
InFlight(n, p) ==
    \/ \E m \in Nodes : \E i \in DOMAIN inbox[m] : inbox[m][i] = Request(n, p)
    \/ \E i \in DOMAIN inbox[n] : inbox[n][i].type = "data" /\ inbox[n][i].piece = p

\* Time runs out for requests that got lost, and for some that did not.
Overdue(n, requests) == IF \E p \in requests : InFlight(n, p) THEN Fault ELSE NoFault

\* After a stall everything asked for is asked for again, in the second and in the
\* third loop of the pass; otherwise the third fills the pipeline.
Settle(n, w) ==
    /\ At(n, w, "settle")
    /\ \/ /\ memory[n].wanted /\ Complete(n)
          /\ memory' = [memory EXCEPT ![n].wanted = FALSE]
          /\ Abort(n, w) /\ NoFault
       \/ /\ ~memory[n].wanted \/ (~Complete(n) /\ ~memory[n].known)
          /\ UNCHANGED memory
          /\ Abort(n, w) /\ NoFault
       \/ /\ memory[n].wanted /\ memory[n].known /\ ~Complete(n)
          /\ \/ /\ GoesTo(n, w, "stale")
                /\ UNCHANGED memory /\ NoFault
             \/ /\ memory' = [memory EXCEPT ![n].pending = {}, ![n].late = {}, ![n].backoff = {}]
                /\ thread' = [thread EXCEPT ![n][w].at = "stale", ![n][w].then = "refill"]
                /\ Overdue(n, memory[n].pending)
    /\ UNCHANGED <<disk, inbox, published, raced>>

Refill(n, w) ==
    /\ At(n, w, "refill")
    /\ IF memory[n].wanted /\ memory[n].known /\ ~Complete(n) THEN GoesTo(n, w, "stale") ELSE Abort(n, w)
    /\ OnlyStep /\ NoFault

(* ------------------------------ calls of users --------------------------- *)

Calls == calls < MaxCalls /\ calls + faults < MaxSteps /\ calls' = calls + 1 /\ UNCHANGED faults

\* ensure_asset with an infohash
Ensure(n, w) ==
    /\ At(n, w, "idle") /\ Calls
    /\ memory' = [memory EXCEPT ![n].wanted = TRUE]
    /\ GoesTo(n, w, "begin")
    /\ UNCHANGED <<disk, inbox, published, raced>>

\* The scheduler's on_asset_needed asks the other nodes.
AsksOthers(n) ==
    /\ Calls
    /\ inbox' = ToOthers(n, Need)
    /\ UNCHANGED <<memory, disk, published, thread, raced>>

\* The listener moves pieces from memory and piece files into the complete file, or
\* will when it is done with the piece it is storing.
Assembling(n) == \E stage \in {"store", "join", "forget", "unlink"} : At(n, "listener", stage)

\* ensure_asset with a file: create_torrent, then announce.
Create(n, w) ==
    /\ At(n, w, "idle") /\ n \in Creators /\ Calls
    /\ memory' = [memory EXCEPT ![n].known = TRUE]
    /\ GoesTo(n, w, "own")
    /\ UNCHANGED <<disk, inbox, published, raced>>

Own(n, w) ==
    /\ At(n, w, "own")
    /\ raced' = IF Assembling(n) THEN raced \cup {n} ELSE raced
    /\ memory' = [memory EXCEPT ![n].have = Pieces, ![n].below = {}]
    /\ GoesTo(n, w, "fill")
    /\ UNCHANGED <<disk, inbox, published>> /\ NoFault

\* Until here the bytes of the pieces it has are not in memory.
Fill(n, w) ==
    /\ At(n, w, "fill")
    /\ memory' = [memory EXCEPT ![n].data = Everything]
    /\ GoesTo(n, w, "keep")
    /\ UNCHANGED <<disk, inbox, published, raced>> /\ NoFault

Keep(n, w) ==
    /\ At(n, w, "keep")
    /\ \/ /\ disk' = [disk EXCEPT ![n].file = "right"]
          /\ GoesTo(n, w, "record") /\ NoFault
       \/ /\ disk' = [disk EXCEPT ![n].file = "wrong"]
          /\ Abort(n, w) /\ Fault
    /\ UNCHANGED <<memory, inbox, published, raced>>

Record(n, w) ==
    /\ At(n, w, "record")
    /\ WriteMeta(n)
    /\ GoesTo(n, w, "announce")
    /\ UNCHANGED <<memory, inbox, published, raced>>

Announce(n, w) ==
    /\ At(n, w, "announce")
    /\ inbox' = ToOthers(n, Announcement)
    /\ published' = TRUE
    /\ Abort(n, w)
    /\ UNCHANGED <<memory, disk, raced>> /\ NoFault

(* ------------------------------- environment ----------------------------- *)

RequestTimesOut(n, p) ==
    /\ p \in memory[n].pending \ memory[n].late
    /\ Overdue(n, {p})
    /\ memory' = [memory EXCEPT ![n].late = @ \cup {p}]
    /\ UNCHANGED <<disk, inbox, published, thread, raced>>

BackoffEnds(n, p) ==
    /\ p \in memory[n].backoff
    /\ memory' = [memory EXCEPT ![n].backoff = @ \ {p}]
    /\ UNCHANGED <<disk, inbox, published, thread, raced>> /\ NoFault

\* set_state gives the key two hours.
MetadataExpires ==
    /\ published /\ published' = FALSE
    /\ UNCHANGED <<memory, disk, inbox, thread, raced>> /\ Fault

Lose(n) ==
    /\ inbox[n] # <<>>
    /\ inbox' = [inbox EXCEPT ![n] = Tail(@)]
    /\ UNCHANGED <<memory, disk, published, thread, raced>> /\ Fault

\* Bytes damaged on their way, or by a sender that hashes what it has, and a sender
\* that counts the index from the end.
Damage(n) ==
    /\ inbox[n] # <<>> /\ Head(inbox[n]).type = "data"
    /\ \/ \E hash \in {"right", "wrong"} :
             inbox' = [inbox EXCEPT ![n][1].data = "wrong", ![n][1].hash = hash]
       \/ inbox' = [inbox EXCEPT ![n][1].below = TRUE]
    /\ UNCHANGED <<memory, disk, published, thread, raced>> /\ Fault

Storing(n, p) == At(n, "listener", "store") /\ thread[n]["listener"].piece = p
Rewriting(n) == \E t \in Threads : At(n, t, "join") \/ At(n, t, "keep")

\* What a crash leaves on the disk: a file that was being written may be cut short.
AfterCrash(n) ==
    {disk[n]}
    \cup {[disk[n] EXCEPT !.piece[p] = "wrong"] : p \in {q \in Pieces : Storing(n, q)}}
    \cup {d \in {[disk[n] EXCEPT !.file = "wrong"]} : Rewriting(n)}
    \cup {d \in {[disk[n] EXCEPT !.meta = FALSE]} : \E t \in Threads : At(n, t, "save") \/ At(n, t, "record")}

\* The process stops, a new one finds what is on the disk (_resume_from_disk).
Restarts(n, d, unreadable) ==
    /\ memory' = [memory EXCEPT ![n] = ResumedMemory(d, unreadable)]
    /\ disk' = [disk EXCEPT ![n] = ResumedDisk(d, unreadable)]
    /\ thread' = [thread EXCEPT ![n] = [t \in Threads |-> Resting]]
    /\ raced' = raced \ {n}
    /\ inbox' = [inbox EXCEPT ![n] = <<>>]
    /\ UNCHANGED published /\ Fault

RestartFails(n, p) == \E d \in AfterCrash(n) : d.piece[p] # "none" /\ Restarts(n, d, {p})

Restart(n) ==
    \/ \E d \in AfterCrash(n) : Restarts(n, d, {})
    \/ \E p \in Pieces : RestartFails(n, p)

Hears(n) == HearsAnnouncement(n) \/ HearsNeed(n) \/ HearsRequest(n) \/ HearsPiece(n)
Downloads(n, t) ==
    \/ Begin(n, t) \/ Fetch(n, t) \/ Adopt(n, t) \/ Load(n, t)
    \/ FindStale(n, t) \/ Expire(n, t) \/ Pick(n, t) \/ Ask(n, t)
Assembles(n) == Store(n) \/ Join(n) \/ Forget(n) \/ Unlink(n) \/ Save(n) \/ Tell(n)
Maintains(n, w) == Settle(n, w) \/ Refill(n, w)
Publishes(n, w) == Own(n, w) \/ Fill(n, w) \/ Keep(n, w) \/ Record(n, w) \/ Announce(n, w)

Busy(n, t) == ~At(n, t, "idle")

ListenerStep(n) ==
    \/ Takes(n) /\ Hears(n)
    \/ Busy(n, "listener") /\ (Assembles(n) \/ Downloads(n, "listener"))

WorkerStep(n, w) ==
    \/ Tick(n, w)
    \/ Busy(n, w) /\ (Maintains(n, w) \/ Publishes(n, w) \/ Downloads(n, w))

UserCall(n) == AsksOthers(n) \/ \E w \in Workers : Ensure(n, w) \/ Create(n, w)

Next ==
    \/ \E n \in Nodes :
          \/ ListenerStep(n)
          \/ \E w \in Workers : WorkerStep(n, w)
          \/ UserCall(n)
          \/ \E p \in Pieces : RequestTimesOut(n, p) \/ BackoffEnds(n, p)
          \/ Lose(n) \/ Damage(n) \/ Restart(n)
    \/ MetadataExpires

\* Threads get on with their work, the maintenance thread keeps passing, and time passes.
Fairness ==
    \A n \in Nodes :
       /\ WF_vars(ListenerStep(n))
       /\ \A w \in Workers : WF_vars(WorkerStep(n, w))
       /\ WF_vars(\E p \in Pieces : RequestTimesOut(n, p) \/ BackoffEnds(n, p))

Spec == Init /\ [][Next]_vars /\ Fairness

(* -------------------------------- properties ----------------------------- *)

Messages ==
    {Announcement, Need}
    \cup {Request(n, p) : n \in Nodes, p \in Pieces}
    \cup {PieceData(p, b, d, h) : p \in Pieces, b \in BOOLEAN, d \in Content, h \in Content}

\* The shapes of the state, and the bounds of the counters.
TypeOK ==
    /\ StoreTypeOK
    /\ \A n \in Nodes : memory[n].late \subseteq memory[n].pending
    /\ \A n \in Nodes : inbox[n] \in Seq(Messages)
    /\ published \in BOOLEAN
    /\ thread \in [Nodes -> [Threads -> [at: Stages, then: {"idle", "settle", "refill"}, held: BOOLEAN,
                       free: 0..Slots, list: SUBSET Pieces, piece: Pieces \cup {NoPiece}]]]
    /\ raced \subseteq Nodes
    /\ calls \in 0..MaxCalls /\ faults \in 0..MaxFaults

\* The write of a create_torrent that met the assembly of the same torrent has failed:
\* the assembly had dropped the pieces the create put in memory, and the file with
\* them is overwritten. A node in this state has a torrent it cannot send.
Overwritten(n) == n \in raced /\ disk[n].file = "wrong"

\* create_torrent has told that it has every piece and not put them in memory (256, 257).
Filling(n) == \E w \in Workers : At(n, w, "fill")

\* A piece a node says it has can be sent whenever its listener is free to answer: after
\* the assembly, which moves it from memory and piece files into the complete file, and
\* after restarts and failed reads and writes anywhere, _on_piece_request finds the right
\* bytes. The exceptions are the moment in create_torrent between its two assignments
\* (256, 257) and a failed write of create_torrent over an assembly (234, 633).
HeldCanBeServed ==
    \A n \in Nodes : At(n, "listener", "idle") /\ ~Filling(n) /\ ~Overwritten(n) =>
        \A p \in memory[n].have : Read(n, p) = "right"

\* What the .meta.json stands for survives: a node that has one holds every piece, or
\* wants those it lost, after restarts in the middle of any write, those of a complete
\* file that is made a second time included (_resume_from_disk, create_torrent), unless
\* it took an index below zero for a piece (581, 595) since it started.
SavedIsHeldOrWanted ==
    \A n \in Nodes : disk[n].meta =>
        /\ memory[n].known
        /\ memory[n].have = Pieces \/ memory[n].wanted \/ memory[n].below # {}

\* Whoever announces asset.complete lacks no more pieces than it took indexes below zero
\* for pieces (581), and so none when it took none, although pieces are only counted
\* (595) and it announces even when they could not be joined or the complete file could
\* not be written (byzantine_receive, assemble_wrapped); with the exceptions of
\* HeldCanBeServed.
CompletionIsPossession ==
    \A n \in Nodes : At(n, "listener", "tell") /\ ~Filling(n) /\ ~Overwritten(n) =>
        Cardinality({p \in Pieces : Read(n, p) # "right"}) <= Cardinality(memory[n].below)

\* A read of the piece's file fails, which deletes it (400, 401).
CannotRead(n, p) == RestartFails(n, p) \/ \E t \in Threads : LoadFails(n, t, p)

\* A piece that reached the disk stays there, in its own file or in the complete one,
\* whatever is assembled, unlinked or restarted, unless that very file is being
\* rewritten (the piece's by _write_piece, the complete one by either of its writers) or
\* a load cannot read it.
PiecesStayOnDisk ==
    [][\A n \in Nodes, p \in Pieces :
          /\ ~Overwritten(n)
          /\ \/ disk[n].piece[p] = "right" /\ ~Storing(n, p)
             \/ disk[n].file = "right" /\ ~Rewriting(n)
          => OnDisk(n, p)' \/ CannotRead(n, p)]_vars

\* A node that wants a torrent it knows, while another has all of it, does not wait for
\* ever: lost, damaged and late messages and the threads' races only delay it. One that
\* took an index below zero for a piece may count past the number of pieces (595).
Waits(n) ==
    /\ memory[n].known /\ memory[n].wanted /\ memory[n].below = {}
    /\ \E m \in Nodes \ {n} : memory[m].known /\ memory[m].have = Pieces /\ ~Overwritten(m)
DownloadEnds == \A n \in Nodes : []<>~Waits(n)

=============================================================================
