--------------------------- MODULE StratumClient ---------------------------
(***************************************************************************)
(* The Stratum client of the CPU miner (mods/mining_engine/stratum_cpu.py): *)
(* four parties share one object.  The READER thread handles the pool's     *)
(* lines; the WATCH thread reconnects (start() makes the first connection   *)
(* the same way, before it starts the other threads); the SUBMITTER takes   *)
(* hits off a queue and sends shares; the hash processes put hits there,    *)
(* found on whatever header the shared buffer held.  Only _job, the header  *)
(* parts and en1 are under _job_lock.                                       *)
(*                                                                          *)
(* A job is its number in the pool's announcements, an extranonce1 the      *)
(* number of the connection that gave it, and an extranonce2 the number of  *)
(* the rebuild that made it: the code takes the time in milliseconds.       *)
(* Consecutive assignments with no call between them are one step (CPython  *)
(* switches threads at calls and loops).                                    *)
(***************************************************************************)
EXTENDS Naturals, Sequences, SequencesExt, FiniteSets

CONSTANTS
    MaxConns,     \* connections the pool takes; it never closes the last
    MaxJobs,      \* jobs the pool announces
    BadJobs,      \* the sets of them whose fields do not parse, so no header is built
    MaxRetargets, \* difficulty changes
    MaxFinds,     \* hits the hash processes find
    HitsMax,      \* capacity of the hit queue (64)
    InboxMax      \* lines of the pool not read yet

ASSUME StratumAssumption ==
    /\ {MaxConns, MaxJobs, MaxRetargets, MaxFinds, HitsMax, InboxMax} \subseteq Nat
    /\ BadJobs \subseteq SUBSET (1..MaxJobs)

VARIABLES
    sock,        \* _sock: the connection in use, 0 for None
    msgId,       \* _msg_id
    pending,     \* _pending: ids of submissions not answered
    job,         \* _job: the last job announced, 0 for None
    en1,         \* _extranonce1, 0 while _en1_ready is false
    en2,         \* _current_en2: the rebuild that made it
    jobId,       \* _job_id: the job of the last header built, 0 for None
    prefix,      \* _prefix_buf once _prefix_ready is set
    jobReady, authorized,
    submitted, accepted, rejected,  \* the share counters
    hits,        \* the queue of hits, each with the header it was found on
    workers,     \* the hash processes run
    stopped,     \* _stop
    reader,      \* where the reader thread stands
    watch,       \* where start() or the watch thread stands
    submitter,   \* where the submitter stands, and the share in its hands
    pool         \* the pool's end: see PoolInit below

clientVars == <<sock, msgId, pending, job, en1, en2, jobId, prefix, jobReady,
                authorized, submitted, accepted, rejected>>
threadVars == <<hits, workers, stopped, reader, watch, submitter>>
vars == <<clientVars, threadVars, pool>>

shares   == <<pending, submitted, accepted, rejected>>
header   == <<job, en1, en2, jobId, prefix>>
ready    == <<jobReady, authorized>>

NoHeader == [job |-> 0, en1 |-> 0, en2 |-> 0]
NoShare  == [at |-> "wait", id |-> 0, hit |-> NoHeader,
             job |-> 0, en2 |-> 0, ntime |-> 0]

(* The pool's end of the connection in use: what it has not answered, what  *)
(* it sent and the client has not read, and what it ever announced, closed  *)
(* and judged.                                                              *)
PoolInit(bad) == [opened |-> 0, bad |-> bad, closing |-> FALSE, requests |-> {}, inbox |-> <<>>,
             announced |-> 0, retargets |-> 0, finds |-> 0,
             accepted |-> 0, rejected |-> 0]

Init ==
    /\ sock = 0 /\ msgId = 0 /\ pending = {}
    /\ job = 0 /\ en1 = 0 /\ en2 = 0 /\ jobId = 0 /\ prefix = NoHeader
    /\ jobReady = FALSE /\ authorized = FALSE
    /\ submitted = 0 /\ accepted = 0 /\ rejected = 0
    /\ hits = <<>> /\ workers = FALSE /\ stopped = FALSE
    /\ reader = "off" /\ watch = [at |-> "connect", first |-> TRUE]
    /\ submitter = NoShare
    /\ \E bad \in BadJobs : pool = PoolInit(bad)

----------------------------------------------------------------------------
(* The pool (external).                                                     *)

Connected == pool.opened > 0 /\ ~pool.closing

PoolSends(msg, effect) ==
    /\ Connected
    /\ Len(pool.inbox) < InboxMax
    /\ UNCHANGED <<clientVars, threadVars>>
    /\ pool' = [effect EXCEPT !.inbox = Append(@, msg)]

PoolAnnounces ==
    /\ pool.announced < MaxJobs
    /\ PoolSends([kind |-> "notify", id |-> pool.announced + 1, ok |-> TRUE],
                 [pool EXCEPT !.announced = @ + 1])

PoolRetargets ==
    /\ pool.retargets < MaxRetargets
    /\ PoolSends([kind |-> "difficulty", id |-> 0, ok |-> TRUE],
                 [pool EXCEPT !.retargets = @ + 1])

PoolAnswers ==
    \E r \in pool.requests, ok \in BOOLEAN :
        /\ r.kind = "subscribe" => ok
        /\ PoolSends([kind |-> r.kind, id |-> r.id, ok |-> ok],
                     [pool EXCEPT
                        !.requests = @ \ {r},
                        !.accepted = IF r.kind = "submit" /\ ok THEN @ + 1 ELSE @,
                        !.rejected = IF r.kind = "submit" /\ ~ok THEN @ + 1 ELSE @])

PoolCloses ==
    /\ Connected /\ pool.opened < MaxConns
    /\ pool' = [pool EXCEPT !.closing = TRUE, !.requests = {}]
    /\ UNCHANGED <<clientVars, threadVars>>

(* What a request does at the pool's end; a closing connection loses it.    *)
Requested(kind, id) ==
    IF pool.closing THEN pool
    ELSE [pool EXCEPT !.requests = @ \union {[kind |-> kind, id |-> id]}]

----------------------------------------------------------------------------
(* connect(), in start() and in the watch thread.                           *)

(* After connect(), whatever it returned, start() spawns the hash processes *)
(* (watch "start" becomes "first" while it connects); the reader is started *)
(* on a connection only.                                                    *)
AfterConnect(ok) ==
    /\ watch' = [at |-> "sleep", first |-> FALSE]
    /\ workers' = (workers \/ watch.first)
    /\ reader' = IF ok THEN "recv" ELSE reader
    /\ UNCHANGED <<hits, stopped, submitter>>

WatchWakes ==
    /\ watch.at = "sleep" /\ ~stopped /\ sock = 0
    /\ watch' = [watch EXCEPT !.at = "connect"]
    /\ UNCHANGED <<clientVars, hits, workers, stopped, reader, submitter, pool>>

(* socket.create_connection                                                 *)
\* Mutant of Connect: the message ids begin anew with a connection.
ConnectMutant ==
    /\ watch.at = "connect"
    /\ pool.opened < MaxConns
    /\ pool' = [pool EXCEPT !.opened = @ + 1, !.closing = FALSE,
                            !.requests = {}, !.inbox = <<>>]
    /\ sock' = pool.opened + 1 /\ msgId' = 0
    /\ watch' = [watch EXCEPT !.at = "subscribe"]
    /\ UNCHANGED <<shares, header, ready, hits, workers, stopped, reader, submitter>>

Connect ==
    /\ watch.at = "connect"
    /\ pool.opened < MaxConns
    /\ pool' = [pool EXCEPT !.opened = @ + 1, !.closing = FALSE,
                            !.requests = {}, !.inbox = <<>>]
    /\ sock' = pool.opened + 1
    /\ watch' = [watch EXCEPT !.at = "subscribe"]
    /\ UNCHANGED <<msgId, shares, header, ready,
                   hits, workers, stopped, reader, submitter>>

(* An exception in connect(): no connection, or _rpc on one that is closing *)
(* or that stop() set to None.                                              *)
\* Mutant of ConnectFails: a connection that fails in the greeting is kept.
ConnectFailsMutant ==
    /\ \/ watch.at = "connect"
       \/ watch.at \in {"subscribe", "authorize"} /\ (pool.closing \/ sock = 0)
    /\ AfterConnect(FALSE)
    /\ UNCHANGED <<clientVars, pool>>

ConnectFails ==
    /\ \/ watch.at = "connect"
       \/ watch.at \in {"subscribe", "authorize"} /\ (pool.closing \/ sock = 0)
    /\ sock' = 0
    /\ AfterConnect(FALSE)
    /\ UNCHANGED <<msgId, shares, header, ready, pool>>

(* _rpc in connect(): mining.subscribe, then mining.authorize               *)
Greet(kind, next) ==
    /\ watch.at = kind /\ sock # 0
    /\ msgId' = msgId + 1
    /\ pool' = Requested(kind, msgId + 1)
    /\ watch' = [watch EXCEPT !.at = next]
    /\ UNCHANGED <<sock, shares, header, ready,
                   hits, workers, stopped, reader, submitter>>

Subscribe == Greet("subscribe", "authorize")
Authorize == Greet("authorize", "read")

StartReader ==
    /\ watch.at = "read"
    /\ AfterConnect(sock # 0)  \* _reader_loop returns at once without a socket
    /\ UNCHANGED <<clientVars, pool>>

----------------------------------------------------------------------------
(* The reader thread.                                                       *)

Line == Head(pool.inbox)

(* A line of the chunk in hand, which is handled whatever happened since.   *)
Reads(kinds) ==
    /\ reader = "recv"
    /\ pool.inbox # <<>> /\ Line.kind \in kinds
    /\ pool' = [pool EXCEPT !.inbox = Tail(@)]
    /\ UNCHANGED <<sock, msgId, hits, workers, stopped, watch, submitter>>

(* mining.notify: under _job_lock, which the reader keeps ("rebuild") until *)
(* _rebuild_prefix returns                                                  *)
HandleNotify ==
    /\ Reads({"notify"})
    /\ job' = Line.id
    /\ reader' = "rebuild"
    /\ UNCHANGED <<shares, en1, en2, jobId, prefix, ready>>

HandleDifficulty ==
    /\ Reads({"difficulty"})
    /\ reader' = "rebuild"
    /\ UNCHANGED <<shares, header, ready>>

(* The answer to a request whose id is pending is taken for a share's.      *)
HandleShareAnswer ==
    /\ Reads({"subscribe", "authorize", "submit"})
    /\ Line.id \in pending
    /\ pending' = pending \ {Line.id}
    /\ LET counts == Line.ok /\ Line.kind # "subscribe"
       IN  /\ accepted' = IF counts THEN accepted + 1 ELSE accepted
           /\ rejected' = IF counts THEN rejected ELSE rejected + 1
    /\ UNCHANGED <<submitted, header, ready, reader>>

(* Any other answer "true" is taken for the authorization.                  *)
HandleOtherAnswer ==
    /\ Reads({"authorize", "submit"})
    /\ Line.id \notin pending
    /\ authorized' = (authorized \/ Line.ok)
    /\ UNCHANGED <<shares, header, jobReady, reader>>

(* _apply_subscribe                                                         *)
HandleSubscribed ==
    /\ Reads({"subscribe"})
    /\ Line.id \notin pending
    /\ en1' = pool.opened
    /\ reader' = "rebuild"
    /\ UNCHANGED <<shares, job, en2, jobId, prefix, ready>>

(* _rebuild_prefix: without a job or an extranonce1 there is no header; a   *)
(* job that does not parse fails after the new extranonce2 is stored.       *)
\* Mutant of RebuildPrefix: the new extranonce2 is hashed but not stored.
RebuildPrefixMutant ==
    /\ reader = "rebuild"
    /\ reader' = "recv"
    /\ jobReady' = (job # 0 /\ en1 # 0 /\ job \notin pool.bad)
    /\ IF jobReady'
       THEN /\ jobId' = job
            /\ prefix' = [job |-> job, en1 |-> en1, en2 |-> en2 + 1]
       ELSE UNCHANGED <<jobId, prefix>>
    /\ UNCHANGED <<sock, msgId, shares, job, en1, en2, authorized,
                   hits, workers, stopped, watch, submitter, pool>>

RebuildPrefix ==
    /\ reader = "rebuild"
    /\ reader' = "recv"
    /\ IF job = 0 \/ en1 = 0
       THEN jobReady' = FALSE /\ UNCHANGED <<en2, jobId, prefix>>
       ELSE /\ en2' = en2 + 1
            /\ jobReady' = (job \notin pool.bad)
            /\ IF job \in pool.bad
               THEN UNCHANGED <<jobId, prefix>>
               ELSE /\ jobId' = job
                    /\ prefix' = [job |-> job, en1 |-> en1, en2 |-> en2 + 1]
    /\ UNCHANGED <<sock, msgId, shares, job, en1, authorized,
                   hits, workers, stopped, watch, submitter, pool>>

(* The end of _reader_loop: the pool closed (what it sent may be lost with  *)
(* the connection), or stop().                                              *)
ReaderLeaves ==
    /\ reader = "recv"
    /\ pool.closing \/ stopped \/ sock = 0
    /\ sock' = 0 /\ authorized' = FALSE /\ jobReady' = FALSE
    /\ reader' = "off"
    /\ pool' = [pool EXCEPT !.closing = TRUE, !.requests = {}, !.inbox = <<>>]
    /\ UNCHANGED <<msgId, shares, header, hits, workers, stopped, watch, submitter>>

----------------------------------------------------------------------------
(* The hash processes and the submitter.                                    *)

(* A hit goes into the queue unless it is full.                             *)
FindHit ==
    /\ workers /\ prefix # NoHeader /\ pool.finds < MaxFinds
    /\ hits' = IF Len(hits) < HitsMax THEN Append(hits, prefix) ELSE hits
    /\ pool' = [pool EXCEPT !.finds = @ + 1]
    /\ UNCHANGED <<clientVars, workers, stopped, reader, watch, submitter>>

(* _job_lock, held from the assignment of _job until the header is rebuilt. *)
\* Mutant of LockFree: the submitter reads without the lock.
LockFreeMutant == TRUE

LockFree == reader # "rebuild"

(* _submit_loop: a hit is submitted as work of the job current NOW; without *)
(* a job or a connection it is dropped.                                     *)
TakeHit ==
    /\ submitter.at = "wait" /\ ~stopped /\ hits # <<>>
    /\ LockFree
    /\ hits' = Tail(hits)
    /\ submitter' = IF jobId = 0 \/ sock = 0 THEN NoShare
                    ELSE [at |-> "rpc", id |-> 0, hit |-> Head(hits),
                          job |-> jobId, en2 |-> en2, ntime |-> job]
    /\ UNCHANGED <<clientVars, workers, stopped, reader, watch, pool>>

(* _rpc("mining.submit"): on None the id is spent and the share lost        *)
SubmitShare ==
    /\ submitter.at = "rpc"
    /\ msgId' = msgId + 1
    /\ IF sock = 0
       THEN submitter' = NoShare /\ UNCHANGED pool
       ELSE /\ submitter' = [submitter EXCEPT !.at = "note", !.id = msgId + 1]
            /\ pool' = Requested("submit", msgId + 1)
    /\ UNCHANGED <<sock, shares, header, ready, hits, workers, stopped, reader, watch>>

(* sendall raised: the connection is gone                                   *)
SubmitFails ==
    /\ submitter.at = "rpc" /\ (pool.closing \/ sock = 0)
    /\ msgId' = msgId + 1
    /\ submitter' = NoShare
    /\ UNCHANGED <<sock, shares, header, ready, hits, workers, stopped, reader, watch, pool>>

(* Only after the send is the share pending: its answer may be here already *)
NoteShare ==
    /\ submitter.at = "note"
    /\ pending' = pending \union {submitter.id}
    /\ submitted' = submitted + 1
    /\ submitter' = NoShare
    /\ UNCHANGED <<sock, msgId, accepted, rejected, header, ready,
                   hits, workers, stopped, reader, watch, pool>>

----------------------------------------------------------------------------
(* stop(), of another thread: the flag and the processes, then the socket.  *)

Stop ==
    /\ ~stopped
    /\ stopped' = TRUE /\ workers' = FALSE
    /\ sock' = 0 /\ jobReady' = FALSE
    /\ pool' = [pool EXCEPT !.closing = TRUE, !.requests = {}]
    /\ UNCHANGED <<msgId, shares, header, authorized, hits, reader, watch, submitter>>

PoolNext == PoolAnnounces \/ PoolRetargets \/ PoolAnswers \/ PoolCloses
WatchNext ==
    WatchWakes \/ Connect \/ ConnectFails \/ Subscribe \/ Authorize \/ StartReader
ReaderNext ==
    \/ HandleNotify \/ HandleDifficulty \/ HandleShareAnswer
    \/ HandleOtherAnswer \/ HandleSubscribed \/ RebuildPrefix \/ ReaderLeaves
SubmitterNext == TakeHit \/ SubmitShare \/ SubmitFails \/ NoteShare

Next == PoolNext \/ WatchNext \/ ReaderNext \/ SubmitterNext \/ FindHit \/ Stop

(* The threads are scheduled, and the pool takes a connection now and then. *)
Fairness ==
    /\ WF_vars(WatchNext) /\ SF_vars(Connect)
    /\ WF_vars(ReaderNext) /\ WF_vars(SubmitterNext)

Spec == Init /\ [][Next]_vars /\ Fairness

----------------------------------------------------------------------------
(* Properties.                                                              *)

Headers == [job : 0..MaxJobs, en1 : 0..MaxConns, en2 : Nat]

TypeOK ==
    /\ sock \in 0..MaxConns /\ msgId \in Nat /\ pending \subseteq 1..msgId
    /\ {job, jobId} \subseteq 0..MaxJobs /\ en1 \in 0..MaxConns /\ en2 \in Nat
    /\ prefix \in Headers
    /\ {jobReady, authorized, workers, stopped} \subseteq BOOLEAN
    /\ {submitted, accepted, rejected} \subseteq Nat
    /\ hits \in Seq(Headers) /\ Len(hits) <= HitsMax
    /\ reader \in {"off", "recv", "rebuild"}
    /\ watch.at \in {"sleep", "connect", "subscribe", "authorize", "read"}
    /\ submitter.at \in {"wait", "rpc", "note"}

(* The counters never claim more than the pool judged: an answer of one     *)
(* connection is never counted for a share of another, whose submission is  *)
(* still pending across the reconnect (stratum_cpu.py 129, 256-266).        *)
CountedWasJudged ==
    /\ accepted <= pool.accepted
    /\ rejected <= pool.rejected

(* The job id, the extranonce2 and the ntime of a share are of one job,     *)
(* unless the last job announced did not parse (stratum_cpu.py 340-349).    *)
ShareIsOneJob ==
    submitter.at # "wait" =>
        submitter.job = submitter.ntime \/ submitter.ntime \in pool.bad

(* A hit goes out with its own job or a newer one, never with an older one, *)
(* and with its own extranonce2 only as work of its own job: the job id and *)
(* the extranonce2 are never behind the header the processes hash (208-215, *)
(* 340-349).                                                                *)
HitIsNotPredated ==
    submitter.at # "wait" =>
        /\ submitter.job >= submitter.hit.job
        /\ submitter.en2 >= submitter.hit.en2
        /\ submitter.en2 = submitter.hit.en2 => submitter.job = submitter.hit.job

(* A lost connection is made again and read, unless the miner is stopped:  *)
(* no exit of the reader or failed connect leaves the watch thread thinking *)
(* there is a connection (305-312, 314-329).                                *)
Reconnects == (reader = "off") ~> (stopped \/ (sock # 0 /\ reader # "off"))
=============================================================================
