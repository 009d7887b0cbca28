------------------------ MODULE StratumClientProofs ------------------------
(***************************************************************************)
(* What the Stratum client counts, and what it submits, for any numbers of  *)
(* connections, jobs, hits and queue places, and whatever the pool answers  *)
(* in whatever order.  The invariant adds to the properties what is on its  *)
(* way: which answers the lines still unread will be counted as, which jobs *)
(* they announce, and which headers the hits of the queue were found on.    *)
(***************************************************************************)
EXTENDS StratumClient, TLAPS

Greetings == {"subscribe", "authorize"}
Lines    == [kind : Greetings \union {"submit", "notify", "difficulty"}, id : Nat, ok : BOOLEAN]
Requests == [kind : Greetings \union {"submit"}, id : Nat]
AnyHeader == [job : Nat, en1 : Nat, en2 : Nat]

PoolType ==
    /\ DOMAIN pool = {"opened", "bad", "closing", "requests", "inbox", "announced",
                      "retargets", "finds", "accepted", "rejected"}
    /\ pool.opened \in Nat /\ pool.announced \in Nat
    /\ pool.accepted \in Nat /\ pool.rejected \in Nat
    /\ pool.requests \subseteq Requests /\ pool.inbox \in Seq(Lines)

ClientType ==
    /\ sock \in Nat /\ msgId \in Nat /\ pending \subseteq 1..msgId
    /\ job \in Nat /\ jobId \in Nat /\ en1 \in Nat /\ en2 \in Nat
    /\ prefix \in AnyHeader
    /\ submitted \in Nat /\ accepted \in Nat /\ rejected \in Nat
    /\ hits \in Seq(AnyHeader)
    /\ watch \in [at : {"sleep", "connect", "subscribe", "authorize", "read"}, first : BOOLEAN]
    /\ DOMAIN submitter = {"at", "id", "hit", "job", "en2", "ntime"}
    /\ submitter.id \in Nat

Types == ClientType /\ PoolType

\* The reader runs while there is a connection, and only one thread connects.
Threads == /\ watch.at # "sleep" => reader = "off"
           /\ sock = 0 /\ ~stopped => reader = "off"

\* A message id is given once: no greeting has the id of a share.
IsShare(id) == id \in pending \/ (submitter.at = "note" /\ id = submitter.id)

Ids ==
    /\ submitter.id <= msgId /\ (submitter.at = "note" => submitter.id > 0)
    /\ \A r \in pool.requests : /\ r.id \in 1..msgId
                                /\ r.kind \in Greetings => ~IsShare(r.id)
    /\ \A i \in DOMAIN pool.inbox :
          pool.inbox[i].kind \in Greetings =>
              pool.inbox[i].id \in 1..msgId /\ ~IsShare(pool.inbox[i].id)

\* The lines not read yet announce jobs newer than the current one, in their order.
Announces(i) == pool.inbox[i].kind = "notify"
Numbered ==
    /\ job <= pool.announced
    /\ pool.inbox # <<>> => pool.opened > 0
    /\ \A i \in DOMAIN pool.inbox : Announces(i) =>
          job < pool.inbox[i].id /\ pool.inbox[i].id <= pool.announced
    /\ \A i, j \in DOMAIN pool.inbox : i < j /\ Announces(i) /\ Announces(j) =>
          pool.inbox[i].id < pool.inbox[j].id

\* The last header built is of the last job announced, or that one did not parse,
\* or the reader is about to build another.
Built ==
    /\ jobId <= job
    /\ jobId # 0 => en1 # 0
    /\ reader # "rebuild" /\ jobId # 0 => jobId = job \/ job \in pool.bad
    /\ prefix # NoHeader => prefix.job = jobId

\* A header hashed or a hit waiting is not newer than the last header built.
Follows(h, id, n) == /\ h.job <= id /\ h.en2 <= n
                     /\ h.en2 = n => h.job = id
Hits ==
    /\ prefix # NoHeader => Follows(prefix, jobId, en2)
    /\ \A i \in DOMAIN hits : Follows(hits[i], jobId, en2)

\* The answers to shares that wait in the inbox can be numbered so that each will be
\* counted as an answer the pool has given and none has been counted yet.
Waiting(m, ok) == m.kind = "submit" /\ m.ok = ok
Numbers(f, s, ok, low, high) ==
    /\ \A i \in DOMAIN s : Waiting(s[i], ok) => low < f[i] /\ f[i] <= high
    /\ \A i, j \in DOMAIN s :
          i < j /\ Waiting(s[i], ok) /\ Waiting(s[j], ok) => f[i] < f[j]
Counts(s, ok, low, high) ==
    low <= high /\ \E f \in [DOMAIN s -> Nat] : Numbers(f, s, ok, low, high)

Counted == /\ Counts(pool.inbox, TRUE, accepted, pool.accepted)
           /\ Counts(pool.inbox, FALSE, rejected, pool.rejected)

IInv == Types /\ Threads /\ Ids /\ Numbered /\ Built /\ Hits /\ Counted
        /\ ShareIsOneJob /\ HitIsNotPredated

----------------------------------------------------------------------------
(* The constants, and how lists of lines change.                            *)

LEMMA Constants ==
    /\ MaxConns \in Nat /\ MaxJobs \in Nat /\ HitsMax \in Nat /\ InboxMax \in Nat
    /\ \A bad \in BadJobs : bad \in SUBSET Nat
BY StratumAssumption

LEMMA Appended ==
    ASSUME NEW A, NEW s \in Seq(A), NEW e \in A
    PROVE  /\ Append(s, e) \in Seq(A)
           /\ Append(s, e) # << >>
           /\ Len(Append(s, e)) = Len(s) + 1
           /\ DOMAIN Append(s, e) = 1..(Len(s) + 1)
           /\ DOMAIN s = 1..Len(s) /\ Len(s) \in Nat
           /\ \A i \in DOMAIN s : Append(s, e)[i] = s[i]
           /\ Append(s, e)[Len(s) + 1] = e
OBVIOUS

LEMMA Consumed ==
    ASSUME NEW A, NEW s \in Seq(A), s # << >>
    PROVE  /\ Tail(s) \in Seq(A) /\ Head(s) \in A /\ Head(s) = s[1]
           /\ 1 \in DOMAIN s
           /\ DOMAIN s = 1..Len(s) /\ Len(s) \in Nat
           /\ DOMAIN Tail(s) = 1..(Len(s) - 1)
           /\ \A i \in DOMAIN Tail(s) : i + 1 \in DOMAIN s /\ Tail(s)[i] = s[i + 1]
OBVIOUS

----------------------------------------------------------------------------
(* What each kind of step does to the pool's end.                           *)

\* A line the pool sends is one more line of the inbox, of a request or of a new job.
Sends(m) ==
    /\ pool'.inbox = Append(pool.inbox, m)
    /\ pool'.opened = pool.opened /\ pool'.bad = pool.bad /\ pool.opened > 0
    /\ pool'.requests \subseteq pool.requests
    /\ pool'.announced = IF m.kind = "notify" THEN pool.announced + 1 ELSE pool.announced
    /\ m.kind = "notify" => m.id = pool.announced + 1
    /\ m.kind \in Greetings \union {"submit"} =>
          \E r \in pool.requests : r.kind = m.kind /\ r.id = m.id
    /\ pool'.accepted = IF m.kind = "submit" /\ m.ok THEN pool.accepted + 1 ELSE pool.accepted
    /\ pool'.rejected = IF m.kind = "submit" /\ ~m.ok THEN pool.rejected + 1 ELSE pool.rejected

LEMMA SendsOneLine ==
    ASSUME Types, PoolAnnounces \/ PoolRetargets \/ PoolAnswers
    PROVE  /\ UNCHANGED <<clientVars, threadVars>>
           /\ PoolType' /\ \E m \in Lines : Sends(m)
<1>1. CASE PoolAnnounces
  <2> DEFINE m == [kind |-> "notify", id |-> pool.announced + 1, ok |-> TRUE]
             in == Append(pool.inbox, m)
  <2>1. /\ pool' = [pool EXCEPT !.announced = @ + 1, !.inbox = in]
        /\ pool.opened > 0 /\ UNCHANGED <<clientVars, threadVars>>
    BY <1>1 DEF PoolAnnounces, PoolSends, Connected, Types, PoolType
  <2>2. m \in Lines /\ in \in Seq(Lines)
    BY Appended DEF Types, PoolType, Lines
  <2>3. PoolType'
    <3> HIDE DEF in
    <3>1. pool.announced + 1 \in Nat BY DEF Types, PoolType
    <3> QED BY <3>1, <2>1, <2>2 DEF Types, PoolType
  <2>4. Sends(m) BY <2>1 DEF Sends, Types, PoolType, Greetings
  <2> QED BY <2>1, <2>2, <2>3, <2>4
<1>2. CASE PoolRetargets
  <2> DEFINE m == [kind |-> "difficulty", id |-> 0, ok |-> TRUE]
             in == Append(pool.inbox, m)
  <2>1. /\ pool' = [pool EXCEPT !.retargets = @ + 1, !.inbox = in]
        /\ pool.opened > 0 /\ UNCHANGED <<clientVars, threadVars>>
    BY <1>2 DEF PoolRetargets, PoolSends, Connected, Types, PoolType
  <2>2. m \in Lines /\ in \in Seq(Lines)
    BY Appended DEF Types, PoolType, Lines
  <2>3. PoolType'
    <3> HIDE DEF in
    <3> QED BY <2>1, <2>2 DEF Types, PoolType
  <2>4. Sends(m) BY <2>1 DEF Sends, Types, PoolType, Greetings
  <2> QED BY <2>1, <2>2, <2>3, <2>4
<1>3. CASE PoolAnswers
  <2>1. PICK r \in pool.requests, ok \in BOOLEAN :
           PoolSends([kind |-> r.kind, id |-> r.id, ok |-> ok],
              [pool EXCEPT
                 !.requests = @ \ {r},
                 !.accepted = IF r.kind = "submit" /\ ok THEN @ + 1 ELSE @,
                 !.rejected = IF r.kind = "submit" /\ ~ok THEN @ + 1 ELSE @])
    BY <1>3 DEF PoolAnswers
  <2> DEFINE m == [kind |-> r.kind, id |-> r.id, ok |-> ok]
             in == Append(pool.inbox, m)
             yes == IF r.kind = "submit" /\ ok THEN pool.accepted + 1 ELSE pool.accepted
             no == IF r.kind = "submit" /\ ~ok THEN pool.rejected + 1 ELSE pool.rejected
  <2>2. /\ pool' = [pool EXCEPT !.requests = @ \ {r}, !.accepted = yes,
                                !.rejected = no, !.inbox = in]
        /\ pool.opened > 0 /\ UNCHANGED <<clientVars, threadVars>>
    BY <2>1 DEF PoolSends, Connected, Types, PoolType
  <2>3. /\ r \in Requests /\ r.kind \in Greetings \union {"submit"} /\ m \in Lines
        /\ yes \in Nat /\ no \in Nat
    BY DEF Types, PoolType, Lines, Requests
  <2>4. in \in Seq(Lines)
    BY <2>3, Appended DEF Types, PoolType
  <2>5. /\ pool'.inbox = in /\ pool'.opened = pool.opened /\ pool'.bad = pool.bad
        /\ pool'.requests = pool.requests \ {r} /\ pool'.announced = pool.announced
        /\ pool'.accepted = yes /\ pool'.rejected = no
        /\ DOMAIN pool' = DOMAIN pool
    <3> HIDE DEF in, yes, no
    <3> QED BY <2>2 DEF Types, PoolType
  <2>6. PoolType'
    <3> HIDE DEF in, yes, no
    <3> QED BY <2>3, <2>4, <2>5 DEF Types, PoolType
  <2>7. Sends(m) BY <2>2, <2>3, <2>5 DEF Sends, Greetings
  <2> QED BY <2>2, <2>3, <2>6, <2>7
<1> QED
  BY <1>1, <1>2, <1>3

\* A line the reader takes is the first one of the inbox.
LEMMA ReadsOneLine ==
    ASSUME Types, NEW kinds, Reads(kinds)
    PROVE  /\ pool.inbox # << >> /\ Line = pool.inbox[1] /\ Line \in Lines
           /\ pool'.inbox = Tail(pool.inbox) /\ Line.kind \in kinds
           /\ pool'.opened = pool.opened /\ pool'.bad = pool.bad
           /\ pool'.announced = pool.announced /\ pool'.requests = pool.requests
           /\ pool'.accepted = pool.accepted /\ pool'.rejected = pool.rejected
           /\ PoolType'
           /\ UNCHANGED <<sock, msgId, hits, submitter, stopped, watch>>
           /\ reader = "recv"
<1>1. pool' = [pool EXCEPT !.inbox = Tail(@)] /\ pool.inbox # << >>
  BY DEF Reads
<1>2. Line \in Lines /\ Tail(pool.inbox) \in Seq(Lines) /\ Line = pool.inbox[1]
  BY <1>1, Consumed DEF Types, PoolType, Line
<1> QED
  BY <1>1, <1>2 DEF Reads, Types, PoolType

\* The other steps of the client leave the lines unread as they are, or drop them all.
SameLines ==
    /\ (pool'.inbox = pool.inbox /\ pool'.opened = pool.opened) \/ pool'.inbox = << >>
    /\ pool'.bad = pool.bad /\ pool'.announced = pool.announced
    /\ pool'.accepted = pool.accepted /\ pool'.rejected = pool.rejected

LEMMA LeavesLines ==
    ASSUME Types,
           \/ PoolCloses \/ WatchNext \/ RebuildPrefix \/ ReaderLeaves
           \/ SubmitterNext \/ FindHit \/ Stop
    PROVE  SameLines /\ PoolType' /\ UNCHANGED <<job, en1, accepted, rejected>>
<1> DEFINE Quiet == SameLines /\ PoolType'
<1>a. pool' = pool => Quiet
  BY DEF SameLines, Types, PoolType
<1>b. pool' = [pool EXCEPT !.closing = TRUE, !.requests = {}] => Quiet
  <2> SUFFICES ASSUME pool' = [pool EXCEPT !.closing = TRUE, !.requests = {}] PROVE Quiet
    OBVIOUS
  <2>1. SameLines BY DEF SameLines, Types, PoolType
  <2>2. PoolType' BY DEF Types, PoolType
  <2> QED BY <2>1, <2>2
<1>c. pool' = [pool EXCEPT !.closing = TRUE, !.requests = {}, !.inbox = << >>] => Quiet
  <2> SUFFICES ASSUME pool' = [pool EXCEPT !.closing = TRUE, !.requests = {}, !.inbox = << >>]
               PROVE Quiet
    OBVIOUS
  <2>1. SameLines BY DEF SameLines, Types, PoolType
  <2>2. PoolType' BY DEF Types, PoolType
  <2> QED BY <2>1, <2>2
<1>d. \A kind \in Greetings \union {"submit"} : pool' = Requested(kind, msgId + 1) => Quiet
  <2> SUFFICES ASSUME NEW kind \in Greetings \union {"submit"},
                      pool' = Requested(kind, msgId + 1), ~pool.closing
               PROVE  Quiet
    BY <1>a DEF Requested
  <2> DEFINE r == [kind |-> kind, id |-> msgId + 1]
  <2>1. pool' = [pool EXCEPT !.requests = @ \union {r}]
    BY DEF Requested
  <2>2. r \in Requests
    BY DEF Types, ClientType, Requests, Greetings
  <2> HIDE DEF r
  <2>3. SameLines BY <2>1 DEF SameLines, Types, PoolType
  <2>4. pool'.requests = pool.requests \union {r} BY <2>1 DEF Types, PoolType
  <2>5. PoolType'
    <3>1. /\ pool'.opened = pool.opened /\ pool'.inbox = pool.inbox
          /\ DOMAIN pool' = DOMAIN pool
      BY <2>1 DEF Types, PoolType
    <3> QED BY <2>2, <2>3, <2>4, <3>1 DEF Types, PoolType, SameLines
  <2> QED BY <2>3, <2>5
<1>e. pool' = [pool EXCEPT !.finds = @ + 1] => Quiet
  <2> SUFFICES ASSUME pool' = [pool EXCEPT !.finds = @ + 1] PROVE Quiet
    OBVIOUS
  <2>1. SameLines BY DEF SameLines, Types, PoolType
  <2>2. PoolType' BY DEF Types, PoolType
  <2> QED BY <2>1, <2>2
<1> HIDE DEF Quiet
<1> USE DEF shares, header, ready, clientVars, threadVars
<1>1. CASE PoolCloses BY <1>1, <1>b DEF PoolCloses, Quiet
<1>2. CASE WatchWakes BY <1>2, <1>a DEF WatchWakes, Quiet
<1>3. CASE Connect
  <2>1. pool' = [pool EXCEPT !.opened = @ + 1, !.closing = FALSE,
                             !.requests = {}, !.inbox = << >>]
    BY <1>3 DEF Connect
  <2>2. SameLines BY <2>1 DEF SameLines, Types, PoolType
  <2>3. PoolType' BY <2>1 DEF Types, PoolType
  <2> QED BY <1>3, <2>2, <2>3 DEF Connect
<1>4. CASE ConnectFails BY <1>4, <1>a DEF ConnectFails, Quiet
<1>6. CASE Subscribe BY <1>6, <1>d DEF Subscribe, Greet, Greetings, Quiet
<1>7. CASE Authorize BY <1>7, <1>d DEF Authorize, Greet, Greetings, Quiet
<1>8. CASE StartReader BY <1>8, <1>a DEF StartReader, Quiet
<1>9. CASE RebuildPrefix BY <1>9, <1>a DEF RebuildPrefix, Quiet
<1>10. CASE ReaderLeaves BY <1>10, <1>c DEF ReaderLeaves, Quiet
<1>11. CASE TakeHit BY <1>11, <1>a DEF TakeHit, Quiet
<1>12. CASE SubmitShare BY <1>12, <1>a, <1>d DEF SubmitShare, Quiet
<1>13. CASE SubmitFails BY <1>13, <1>a DEF SubmitFails, Quiet
<1>14. CASE NoteShare BY <1>14, <1>a DEF NoteShare, Quiet
<1>15. CASE FindHit BY <1>15, <1>e DEF FindHit, Quiet
<1>16. CASE Stop BY <1>16, <1>b DEF Stop, Quiet
<1> QED
  BY <1>1, <1>2, <1>3, <1>4, <1>6, <1>7, <1>8, <1>9, <1>10, <1>11, <1>12, <1>13,
     <1>14, <1>15, <1>16 DEF WatchNext, SubmitterNext

----------------------------------------------------------------------------
(* Answers on their way, as lines come and go.                              *)

LEMMA CountsMore ==
    ASSUME NEW s \in Seq(Lines), NEW m \in Lines, NEW ok \in BOOLEAN,
           NEW low \in Nat, NEW high \in Nat, Counts(s, ok, low, high),
           NEW top \in Nat, top = IF Waiting(m, ok) THEN high + 1 ELSE high
    PROVE  Counts(Append(s, m), ok, low, top)
<1>1. PICK f \in [DOMAIN s -> Nat] : Numbers(f, s, ok, low, high)
  BY DEF Counts
<1> DEFINE t == Append(s, m)
           g == [i \in DOMAIN t |-> IF i \in DOMAIN s THEN f[i] ELSE top]
<1>2. /\ DOMAIN t = 1..(Len(s) + 1) /\ DOMAIN s = 1..Len(s) /\ Len(s) \in Nat
      /\ \A i \in DOMAIN s : t[i] = s[i]
      /\ t[Len(s) + 1] = m
  BY Appended
<1> HIDE DEF t
<1>3. g \in [DOMAIN t -> Nat] /\ low <= top
  BY DEF Counts
<1>4. ASSUME NEW i \in DOMAIN t, Waiting(t[i], ok) PROVE low < g[i] /\ g[i] <= top
  <2>1. CASE i \in DOMAIN s
    BY <1>1, <1>2, <1>4, <2>1 DEF Numbers
  <2>2. CASE i = Len(s) + 1
    <3>1. g[i] = high + 1 /\ top = high + 1
      BY <1>2, <1>4, <2>2
    <3> QED BY <3>1 DEF Counts
  <2> QED BY <1>2, <2>1, <2>2
<1>5. ASSUME NEW i \in DOMAIN t, NEW j \in DOMAIN t, i < j,
             Waiting(t[i], ok), Waiting(t[j], ok)
      PROVE  g[i] < g[j]
  <2>1. i \in DOMAIN s
    BY <1>2, <1>5
  <2>2. CASE j \in DOMAIN s
    BY <1>1, <1>2, <1>5, <2>1, <2>2 DEF Numbers
  <2>3. CASE j = Len(s) + 1
    <3>1. g[j] = high + 1 /\ g[i] = f[i] /\ f[i] <= high
      BY <1>1, <1>2, <1>5, <2>1, <2>3 DEF Numbers
    <3> QED BY <3>1, <2>1
  <2> QED BY <1>2, <2>2, <2>3
<1> HIDE DEF g
<1>6. Numbers(g, t, ok, low, top)
  BY <1>4, <1>5 DEF Numbers
<1> QED
  BY <1>3, <1>6 DEF Counts, t

LEMMA CountsFewer ==
    ASSUME NEW s \in Seq(Lines), s # << >>, NEW ok \in BOOLEAN,
           NEW low \in Nat, NEW high \in Nat, Counts(s, ok, low, high)
    PROVE  /\ Counts(Tail(s), ok, low, high)
           /\ Waiting(s[1], ok) => Counts(Tail(s), ok, low + 1, high)
<1>1. PICK f \in [DOMAIN s -> Nat] : Numbers(f, s, ok, low, high)
  BY DEF Counts
<1> DEFINE t == Tail(s)
           g == [i \in DOMAIN t |-> f[i + 1]]
<1>2. /\ DOMAIN t = 1..(Len(s) - 1) /\ DOMAIN s = 1..Len(s) /\ Len(s) \in Nat
      /\ \A i \in DOMAIN t : i + 1 \in DOMAIN s /\ t[i] = s[i + 1]
      /\ 1 \in DOMAIN s
  BY Consumed
<1> HIDE DEF t
<1>3. g \in [DOMAIN t -> Nat]
  BY <1>2
<1>4. ASSUME NEW i \in DOMAIN t, NEW j \in DOMAIN t, i < j,
             Waiting(t[i], ok), Waiting(t[j], ok)
      PROVE  g[i] < g[j]
  <2>1. i + 1 \in DOMAIN s /\ j + 1 \in DOMAIN s /\ i + 1 < j + 1
    BY <1>2, <1>4
  <2> QED BY <1>1, <1>2, <1>4, <2>1 DEF Numbers
<1>5. ASSUME NEW i \in DOMAIN t, Waiting(t[i], ok)
      PROVE  /\ low < g[i] /\ g[i] <= high
             /\ Waiting(s[1], ok) => low + 1 < g[i]
  <2>1. i + 1 \in DOMAIN s /\ 1 < i + 1 /\ 1 \in DOMAIN s
    BY <1>2
  <2>2. low < g[i] /\ g[i] <= high
    BY <1>1, <1>2, <1>5, <2>1 DEF Numbers
  <2>3. Waiting(s[1], ok) => low < f[1] /\ f[1] < g[i]
    BY <1>1, <1>2, <1>5, <2>1 DEF Numbers
  <2>4. f[1] \in Nat /\ g[i] \in Nat
    BY <1>3, <2>1
  <2> QED BY <2>2, <2>3, <2>4
<1> HIDE DEF g
<1>6. Numbers(g, t, ok, low, high) /\ (Waiting(s[1], ok) => Numbers(g, t, ok, low + 1, high))
  BY <1>4, <1>5 DEF Numbers
<1>7. Waiting(s[1], ok) => low + 1 <= high
  <2>1. f[1] \in Nat BY <1>2
  <2> QED BY <1>1, <1>2, <2>1 DEF Numbers
<1> QED
  BY <1>3, <1>6, <1>7 DEF Counts, t

LEMMA CountsNone ==
    ASSUME NEW ok, NEW low, NEW high, low <= high
    PROVE  Counts(<< >>, ok, low, high)
<1>1. [i \in DOMAIN << >> |-> 0] \in [DOMAIN << >> -> Nat]
  OBVIOUS
<1>2. Numbers([i \in DOMAIN << >> |-> 0], << >>, ok, low, high)
  BY DEF Numbers
<1> QED
  BY <1>1, <1>2 DEF Counts

----------------------------------------------------------------------------
(* The invariant holds at first, and every step keeps it.                   *)

LEMMA StartsWell == Init => IInv
<1> SUFFICES ASSUME Init PROVE IInv
  OBVIOUS
<1>1. PICK bad : pool = PoolInit(bad)
  BY DEF Init
<1>2. /\ pool.inbox = << >> /\ pool.requests = {} /\ pool.opened = 0 /\ pool.announced = 0
      /\ pool.accepted = 0 /\ pool.rejected = 0
      /\ DOMAIN pool = {"opened", "bad", "closing", "requests", "inbox", "announced",
                        "retargets", "finds", "accepted", "rejected"}
  BY <1>1 DEF PoolInit
<1>3. Types
  <2>1. PoolType BY <1>2 DEF PoolType
  <2>2. prefix \in AnyHeader BY DEF Init, NoHeader, AnyHeader
  <2>3. hits \in Seq(AnyHeader) BY DEF Init
  <2>4. watch \in [at : {"sleep", "connect", "subscribe", "authorize", "read"}, first : BOOLEAN]
    BY DEF Init
  <2>5. /\ DOMAIN submitter = {"at", "id", "hit", "job", "en2", "ntime"}
        /\ submitter.id \in Nat
    BY DEF Init, NoShare
  <2> QED BY <2>1, <2>2, <2>3, <2>4, <2>5 DEF Init, Types, ClientType
<1>4. Counted
  <2>1. Counts(<< >>, TRUE, 0, 0) /\ Counts(<< >>, FALSE, 0, 0)
    <3>1. 0 <= 0 OBVIOUS
    <3> QED BY <3>1, CountsNone, Zenon
  <2> QED BY <1>2, <2>1 DEF Init, Counted
<1>5. Threads /\ Ids /\ Numbered /\ Built /\ Hits
  BY <1>2 DEF Init, Threads, Ids, Numbered, Built, Hits, NoShare
<1>6. ShareIsOneJob /\ HitIsNotPredated
  BY DEF Init, ShareIsOneJob, HitIsNotPredated, NoShare
<1> QED
  BY <1>3, <1>4, <1>5, <1>6 DEF IInv

Sending == PoolAnnounces \/ PoolRetargets \/ PoolAnswers
Reading == HandleNotify \/ HandleDifficulty \/ HandleShareAnswer
           \/ HandleOtherAnswer \/ HandleSubscribed
Working == PoolCloses \/ WatchNext \/ RebuildPrefix \/ ReaderLeaves
           \/ SubmitterNext \/ FindHit \/ Stop

LEMMA Steps == Next <=> Sending \/ Reading \/ Working
BY DEF Next, PoolNext, ReaderNext, Sending, Reading, Working

\* Every step the reader takes with a line.
LEMMA ReadingReads ==
    ASSUME Types, Reading
    PROVE  /\ pool.inbox # << >> /\ Line = pool.inbox[1] /\ Line \in Lines
           /\ pool'.inbox = Tail(pool.inbox)
           /\ pool'.opened = pool.opened /\ pool'.bad = pool.bad
           /\ pool'.announced = pool.announced /\ pool'.requests = pool.requests
           /\ pool'.accepted = pool.accepted /\ pool'.rejected = pool.rejected
           /\ PoolType'
           /\ UNCHANGED <<sock, msgId, hits, submitter, stopped, watch>>
           /\ reader = "recv"
<1>1. \E kinds : Reads(kinds)
  BY DEF Reading, HandleNotify, HandleDifficulty, HandleShareAnswer, HandleOtherAnswer,
         HandleSubscribed
<1> QED
  BY <1>1, ReadsOneLine

LEMMA TypesKept ==
    ASSUME IInv, Next
    PROVE  Types'
<1> USE DEF IInv, Types, ClientType, Lines, shares, header, ready, clientVars, threadVars
<1>1. CASE Sending
  BY <1>1, SendsOneLine DEF Sending
<1>2. CASE Reading
  <2>1. /\ PoolType' /\ Line \in Lines
        /\ UNCHANGED <<sock, msgId, hits, submitter, stopped, watch>>
    BY <1>2, ReadingReads
  <2>2. CASE HandleNotify BY <2>1, <2>2 DEF HandleNotify
  <2>3. CASE HandleDifficulty BY <2>1, <2>3 DEF HandleDifficulty
  <2>4. CASE HandleShareAnswer
    <3>1. pending' \subseteq pending /\ accepted' \in Nat /\ rejected' \in Nat
      BY <2>4 DEF HandleShareAnswer
    <3> QED BY <2>1, <2>4, <3>1 DEF HandleShareAnswer
  <2>5. CASE HandleOtherAnswer BY <2>1, <2>5 DEF HandleOtherAnswer
  <2>6. CASE HandleSubscribed BY <2>1, <2>6 DEF HandleSubscribed, PoolType
  <2> QED BY <1>2, <2>2, <2>3, <2>4, <2>5, <2>6 DEF Reading
<1>3. CASE Working
  <2>1. PoolType' /\ UNCHANGED <<job, en1, accepted, rejected>>
    BY <1>3, LeavesLines DEF Working
  <2> SUFFICES ClientType'
    BY <2>1
  <2>2. CASE PoolCloses BY <2>2 DEF PoolCloses
  <2>3. CASE WatchNext
    <3>1. CASE WatchWakes BY <3>1 DEF WatchWakes
    <3>2. CASE Connect
      <4>1. sock' \in Nat BY <3>2 DEF Connect, PoolType
      <4> QED BY <3>2, <4>1 DEF Connect
    <3>3. CASE ConnectFails BY <3>3 DEF ConnectFails, AfterConnect
    <3>4. CASE Subscribe BY <3>4 DEF Subscribe, Greet
    <3>5. CASE Authorize BY <3>5 DEF Authorize, Greet
    <3>6. CASE StartReader BY <3>6 DEF StartReader, AfterConnect
    <3> QED BY <2>3, <3>1, <3>2, <3>3, <3>4, <3>5, <3>6 DEF WatchNext
  <2>4. CASE RebuildPrefix BY <2>4 DEF RebuildPrefix, AnyHeader
  <2>5. CASE ReaderLeaves BY <2>5 DEF ReaderLeaves
  <2>6. CASE SubmitterNext
    <3>1. CASE TakeHit BY <3>1 DEF TakeHit, NoShare
    <3>2. CASE SubmitShare
      <4>1. /\ DOMAIN submitter' = DOMAIN submitter /\ submitter'.id \in Nat
            /\ msgId' = msgId + 1
        <5>1. CASE sock = 0 BY <3>2, <5>1 DEF SubmitShare, NoShare
        <5>2. CASE sock # 0
          <6>1. /\ submitter' = [submitter EXCEPT !.at = "note", !.id = msgId + 1]
                /\ msgId' = msgId + 1 /\ msgId + 1 \in Nat
            BY <3>2, <5>2 DEF SubmitShare
          <6> QED BY <6>1
        <5> QED BY <5>1, <5>2
      <4>2. pending' \subseteq 1..msgId' BY <3>2, <4>1 DEF SubmitShare
      <4> QED BY <3>2, <4>1, <4>2 DEF SubmitShare
    <3>3. CASE SubmitFails BY <3>3 DEF SubmitFails, NoShare
    <3>4. CASE NoteShare
      <4>1. submitter.id \in 1..msgId BY <3>4 DEF NoteShare, Ids
      <4>2. DOMAIN submitter' = DOMAIN submitter /\ submitter'.id \in Nat
        BY <3>4 DEF NoteShare, NoShare
      <4>3. pending' \subseteq 1..msgId' BY <3>4, <4>1 DEF NoteShare
      <4>4. submitted' \in Nat BY <3>4 DEF NoteShare
      <4> QED BY <3>4, <4>2, <4>3, <4>4 DEF NoteShare
    <3> QED BY <2>6, <3>1, <3>2, <3>3, <3>4 DEF SubmitterNext
  <2>7. CASE FindHit BY <2>7 DEF FindHit
  <2>8. CASE Stop BY <2>8 DEF Stop
  <2> QED BY <1>3, <2>2, <2>3, <2>4, <2>5, <2>6, <2>7, <2>8 DEF Working
<1> QED
  BY <1>1, <1>2, <1>3, Steps

LEMMA ThreadsKept ==
    ASSUME IInv, Next
    PROVE  Threads'
<1> USE DEF IInv, Types, ClientType, Threads, shares, header, ready, clientVars, threadVars
<1>1. CASE Sending
  BY <1>1, SendsOneLine DEF Sending
<1>2. CASE Reading
  <2>1. UNCHANGED <<sock, stopped, watch>> /\ reader = "recv"
    BY <1>2, ReadingReads
  <2> QED BY <2>1
<1>3. CASE Working
  <2>2. CASE PoolCloses BY <2>2 DEF PoolCloses
  <2>3. CASE WatchNext
    <3>1. CASE WatchWakes BY <3>1 DEF WatchWakes
    <3>2. CASE Connect BY <3>2 DEF Connect
    <3>3. CASE ConnectFails BY <3>3 DEF ConnectFails, AfterConnect
    <3>4. CASE Subscribe BY <3>4 DEF Subscribe, Greet
    <3>5. CASE Authorize BY <3>5 DEF Authorize, Greet
    <3>6. CASE StartReader BY <3>6 DEF StartReader, AfterConnect
    <3> QED BY <2>3, <3>1, <3>2, <3>3, <3>4, <3>5, <3>6 DEF WatchNext
  <2>4. CASE RebuildPrefix BY <2>4 DEF RebuildPrefix
  <2>5. CASE ReaderLeaves BY <2>5 DEF ReaderLeaves
  <2>6. CASE SubmitterNext
    BY <2>6 DEF SubmitterNext, TakeHit, SubmitShare, SubmitFails, NoteShare
  <2>7. CASE FindHit BY <2>7 DEF FindHit
  <2>8. CASE Stop BY <2>8 DEF Stop
  <2> QED BY <1>3, <2>2, <2>3, <2>4, <2>5, <2>6, <2>7, <2>8 DEF Working
<1> QED
  BY <1>1, <1>2, <1>3, Steps

LEMMA NumberedKept ==
    ASSUME IInv, Next
    PROVE  Numbered'
<1> USE DEF IInv, Types, PoolType
<1>0. /\ job <= pool.announced /\ job \in Nat /\ pool.announced \in Nat
      /\ \A i \in DOMAIN pool.inbox : pool.inbox[i].id \in Nat
  <2>1. \A i \in DOMAIN pool.inbox : pool.inbox[i] \in Lines
    OBVIOUS
  <2> QED BY <2>1 DEF Numbered, ClientType, Lines
<1>1. CASE Sending
  <2>1. UNCHANGED job BY <1>1, SendsOneLine DEF Sending, clientVars
  <2>2. PICK m \in Lines : Sends(m)
    BY <1>1, SendsOneLine DEF Sending
  <2> DEFINE s == pool.inbox
             t == pool'.inbox
  <2>3. /\ DOMAIN t = 1..(Len(s) + 1) /\ DOMAIN s = 1..Len(s) /\ Len(s) \in Nat
        /\ \A i \in DOMAIN s : t[i] = s[i]
        /\ t[Len(s) + 1] = m /\ t # << >>
    BY <2>2, Appended DEF Sends
  <2>4. /\ pool'.opened > 0 /\ pool'.announced \in Nat /\ pool.announced <= pool'.announced
        /\ m.kind = "notify" => m.id = pool.announced + 1 /\ pool'.announced = m.id
    BY <2>2 DEF Sends
  <2> HIDE DEF t
  <2>5. ASSUME NEW i \in DOMAIN t, t[i].kind = "notify"
        PROVE  job < t[i].id /\ t[i].id <= pool'.announced
    <3>1. CASE i \in DOMAIN s
      <4>1. job < s[i].id /\ s[i].id <= pool.announced /\ t[i] = s[i] /\ s[i].id \in Nat
        BY <1>0, <2>3, <2>5, <3>1 DEF Numbered, Announces
      <4> QED BY <1>0, <4>1, <2>4
    <3>2. CASE i = Len(s) + 1
      BY <1>0, <2>3, <2>4, <2>5, <3>2
    <3> QED BY <2>3, <3>1, <3>2
  <2>6. ASSUME NEW i \in DOMAIN t, NEW j \in DOMAIN t, i < j,
               t[i].kind = "notify", t[j].kind = "notify"
        PROVE  t[i].id < t[j].id
    <3>1. i \in DOMAIN s /\ t[i] = s[i] /\ s[i].id \in Nat /\ s[i].id <= pool.announced
      BY <1>0, <2>3, <2>6 DEF Numbered, Announces
    <3>2. CASE j \in DOMAIN s
      BY <2>3, <2>6, <3>1, <3>2 DEF Numbered, Announces
    <3>3. CASE j = Len(s) + 1
      BY <1>0, <2>3, <2>4, <2>6, <3>1, <3>3
    <3> QED BY <2>3, <3>2, <3>3
  <2>7. job <= pool'.announced BY <1>0, <2>4
  <2> QED BY <2>1, <2>4, <2>5, <2>6, <2>7 DEF Numbered, Announces, t
<1>2. CASE Reading
  <2> DEFINE s == pool.inbox
             t == pool'.inbox
  <2>1. /\ s # << >> /\ Line = s[1] /\ t = Tail(s)
        /\ pool'.opened = pool.opened /\ pool'.announced = pool.announced
    BY <1>2, ReadingReads
  <2>2. /\ DOMAIN t = 1..(Len(s) - 1) /\ DOMAIN s = 1..Len(s) /\ Len(s) \in Nat
        /\ \A i \in DOMAIN t : i + 1 \in DOMAIN s /\ t[i] = s[i + 1]
        /\ 1 \in DOMAIN s
    BY <2>1, Consumed
  <2>3. pool'.opened > 0
    BY <2>1 DEF Numbered
  <2>4. \/ job' = job
        \/ job' = s[1].id /\ s[1].kind = "notify"
    BY <1>2, <2>1 DEF Reading, HandleNotify, HandleDifficulty, HandleShareAnswer,
         HandleOtherAnswer, HandleSubscribed, header, Reads
  <2> HIDE DEF t
  <2>5. job' <= pool'.announced
    BY <1>0, <2>1, <2>2, <2>4 DEF Numbered, Announces
  <2>6. ASSUME NEW i \in DOMAIN t, t[i].kind = "notify"
        PROVE  job' < t[i].id /\ t[i].id <= pool'.announced
    <3>1. i + 1 \in DOMAIN s /\ 1 < i + 1 /\ t[i] = s[i + 1] /\ s[i + 1].kind = "notify"
      BY <2>2, <2>6
    <3>2. job < s[i + 1].id /\ s[i + 1].id <= pool.announced
      BY <3>1 DEF Numbered, Announces
    <3>3. s[1].kind = "notify" => s[1].id < s[i + 1].id
      BY <2>2, <3>1 DEF Numbered, Announces
    <3> QED BY <2>1, <2>4, <3>1, <3>2, <3>3
  <2>7. ASSUME NEW i \in DOMAIN t, NEW j \in DOMAIN t, i < j,
               t[i].kind = "notify", t[j].kind = "notify"
        PROVE  t[i].id < t[j].id
    <3>1. /\ i + 1 \in DOMAIN s /\ j + 1 \in DOMAIN s /\ i + 1 < j + 1
          /\ t[i] = s[i + 1] /\ t[j] = s[j + 1]
      BY <2>2, <2>7
    <3> QED BY <2>7, <3>1 DEF Numbered, Announces
  <2> QED BY <2>3, <2>5, <2>6, <2>7 DEF Numbered, Announces, t
<1>3. CASE Working
  <2>1. SameLines /\ job' = job
    BY <1>3, LeavesLines DEF Working
  <2>2. CASE pool'.inbox = << >>
    BY <1>0, <2>1, <2>2 DEF SameLines, Numbered
  <2>3. CASE pool'.inbox = pool.inbox /\ pool'.opened = pool.opened
    BY <2>1, <2>3 DEF SameLines, Numbered, Announces
  <2> QED BY <2>1, <2>2, <2>3 DEF SameLines
<1> QED
  BY <1>1, <1>2, <1>3, Steps

LEMMA BuiltKept ==
    ASSUME IInv, Next
    PROVE  Built'
<1> USE DEF IInv, Types, ClientType, Built, shares, header, ready, clientVars, threadVars
<1>1. CASE Sending
  BY <1>1, SendsOneLine DEF Sending, Sends
<1>2. CASE Reading
  <2>1. /\ pool.inbox # << >> /\ Line = pool.inbox[1] /\ pool'.bad = pool.bad
        /\ 1 \in DOMAIN pool.inbox /\ Line.id \in Nat
    BY <1>2, ReadingReads, Consumed DEF PoolType, Lines
  <2>2. CASE HandleNotify
    <3>1. job < Line.id BY <2>1, <2>2 DEF HandleNotify, Reads, Numbered, Announces
    <3> QED BY <2>1, <2>2, <3>1 DEF HandleNotify
  <2>3. CASE HandleDifficulty BY <2>1, <2>3 DEF HandleDifficulty
  <2>4. CASE HandleShareAnswer BY <2>1, <2>4 DEF HandleShareAnswer
  <2>5. CASE HandleOtherAnswer BY <2>1, <2>5 DEF HandleOtherAnswer
  <2>6. CASE HandleSubscribed
    <3>1. pool.opened > 0 /\ pool.opened \in Nat BY <2>1 DEF Numbered, PoolType
    <3> QED BY <2>1, <2>6, <3>1 DEF HandleSubscribed
  <2> QED BY <1>2, <2>2, <2>3, <2>4, <2>5, <2>6 DEF Reading
<1>3. CASE Working
  <2>1. pool'.bad = pool.bad /\ UNCHANGED <<job, en1>>
    BY <1>3, LeavesLines DEF Working, SameLines
  <2>2. CASE PoolCloses BY <2>1, <2>2 DEF PoolCloses
  <2>3. CASE WatchNext
    <3>1. UNCHANGED <<jobId, prefix>>
      BY <2>3 DEF WatchNext, WatchWakes, Connect, ConnectFails, Subscribe, Authorize,
                  Greet, StartReader
    <3>2. reader' = reader \/ (reader = "off" /\ reader' = "recv")
      BY <2>3 DEF WatchNext, WatchWakes, Connect, ConnectFails, Subscribe, Authorize,
                  Greet, StartReader, AfterConnect, Threads
    <3> QED BY <2>1, <3>1, <3>2
  <2>4. CASE RebuildPrefix
    <3>1. CASE job = 0 \/ en1 = 0
      <4>1. jobId = 0 BY <3>1
      <4> QED BY <2>1, <2>4, <3>1, <4>1 DEF RebuildPrefix
    <3>2. CASE job # 0 /\ en1 # 0 /\ job \in pool.bad
      BY <2>1, <2>4, <3>2 DEF RebuildPrefix
    <3>3. CASE job # 0 /\ en1 # 0 /\ job \notin pool.bad
      <4>1. jobId' = job /\ prefix'.job = job
        BY <2>4, <3>3 DEF RebuildPrefix
      <4> QED BY <2>1, <3>3, <4>1
    <3> QED BY <3>1, <3>2, <3>3
  <2>5. CASE ReaderLeaves BY <2>1, <2>5 DEF ReaderLeaves
  <2>6. CASE SubmitterNext
    BY <2>1, <2>6 DEF SubmitterNext, TakeHit, SubmitShare, SubmitFails, NoteShare
  <2>7. CASE FindHit BY <2>1, <2>7 DEF FindHit
  <2>8. CASE Stop BY <2>1, <2>8 DEF Stop
  <2> QED BY <1>3, <2>2, <2>3, <2>4, <2>5, <2>6, <2>7, <2>8 DEF Working
<1> QED
  BY <1>1, <1>2, <1>3, Steps

LEMMA HitsKept ==
    ASSUME IInv, Next
    PROVE  Hits'
<1> USE DEF IInv, Types, ClientType, shares, header, ready, clientVars, threadVars
<1>0. ASSUME UNCHANGED <<prefix, jobId, en2, hits>> PROVE Hits'
  BY <1>0 DEF Hits, Follows
<1>1. CASE Sending
  BY <1>0, <1>1, SendsOneLine DEF Sending
<1>2. CASE Reading
  <2>1. UNCHANGED <<prefix, jobId, en2, hits>>
    BY <1>2 DEF Reading, Reads, HandleNotify, HandleDifficulty, HandleShareAnswer,
         HandleOtherAnswer, HandleSubscribed
  <2> QED BY <1>0, <2>1
<1>3. CASE Working
  <2>2. CASE PoolCloses BY <1>0, <2>2 DEF PoolCloses
  <2>3. CASE WatchNext
    <3>1. UNCHANGED <<prefix, jobId, en2, hits>>
      BY <2>3 DEF WatchNext, WatchWakes, Connect, ConnectFails, Subscribe, Authorize,
                  Greet, StartReader, AfterConnect
    <3> QED BY <1>0, <3>1
  <2>4. CASE RebuildPrefix
    <3>0. \A h \in AnyHeader : Follows(h, jobId, en2) => Follows(h, jobId, en2 + 1)
                                 /\ Follows(h, job, en2 + 1)
      BY DEF AnyHeader, Follows, Built
    <3>1. \A i \in DOMAIN hits : hits[i] \in AnyHeader
      OBVIOUS
    <3>2. CASE job = 0 \/ en1 = 0
      BY <1>0, <2>4, <3>2 DEF RebuildPrefix
    <3>3. CASE job # 0 /\ en1 # 0 /\ job \in pool.bad
      <4>1. jobId' = jobId /\ prefix' = prefix /\ en2' = en2 + 1 /\ hits' = hits
        BY <2>4, <3>3 DEF RebuildPrefix
      <4> QED BY <3>0, <3>1, <4>1 DEF Hits
    <3>4. CASE job # 0 /\ en1 # 0 /\ job \notin pool.bad
      <4>1. /\ jobId' = job /\ en2' = en2 + 1 /\ hits' = hits
            /\ prefix' = [job |-> job, en1 |-> en1, en2 |-> en2 + 1]
        BY <2>4, <3>4 DEF RebuildPrefix
      <4>2. Follows(prefix', job, en2 + 1)
        BY <4>1 DEF Follows
      <4> QED BY <3>0, <3>1, <4>1, <4>2 DEF Hits
    <3> QED BY <3>2, <3>3, <3>4
  <2>5. CASE ReaderLeaves BY <1>0, <2>5 DEF ReaderLeaves
  <2>6. CASE TakeHit
    <3>1. /\ hits # << >> /\ hits' = Tail(hits) /\ UNCHANGED <<prefix, jobId, en2>>
      BY <2>6 DEF TakeHit
    <3>2. \A i \in DOMAIN hits' : i + 1 \in DOMAIN hits /\ hits'[i] = hits[i + 1]
      BY <3>1, Consumed
    <3> QED BY <3>1, <3>2 DEF Hits
  <2>7. CASE SubmitShare \/ SubmitFails \/ NoteShare
    BY <1>0, <2>7 DEF SubmitShare, SubmitFails, NoteShare
  <2>8. CASE FindHit
    <3>1. /\ prefix # NoHeader /\ UNCHANGED <<prefix, jobId, en2>>
          /\ hits' = hits \/ hits' = Append(hits, prefix)
      BY <2>8 DEF FindHit
    <3>2. CASE hits' = hits BY <1>0, <3>1, <3>2
    <3>3. CASE hits' = Append(hits, prefix)
      <4>1. /\ DOMAIN hits' = 1..(Len(hits) + 1) /\ DOMAIN hits = 1..Len(hits)
            /\ Len(hits) \in Nat
            /\ \A i \in DOMAIN hits : hits'[i] = hits[i]
            /\ hits'[Len(hits) + 1] = prefix
        BY <3>3, Appended
      <4> QED BY <3>1, <4>1 DEF Hits
    <3> QED BY <3>1, <3>2, <3>3
  <2>9. CASE Stop BY <1>0, <2>9 DEF Stop
  <2> QED BY <1>3, <2>2, <2>3, <2>4, <2>5, <2>6, <2>7, <2>8, <2>9 DEF Working, SubmitterNext
<1> QED
  BY <1>1, <1>2, <1>3, Steps

LEMMA CountedKept ==
    ASSUME IInv, Next
    PROVE  Counted'
<1>0. /\ accepted \in Nat /\ rejected \in Nat
      /\ pool.accepted \in Nat /\ pool.rejected \in Nat /\ pool.inbox \in Seq(Lines)
      /\ Counts(pool.inbox, TRUE, accepted, pool.accepted)
      /\ Counts(pool.inbox, FALSE, rejected, pool.rejected)
  BY DEF IInv, Types, ClientType, PoolType, Counted
<1>t. Types
  BY DEF IInv
<1>1. CASE Sending
  <2>1. UNCHANGED <<accepted, rejected>>
    BY <1>1, <1>t, SendsOneLine DEF Sending, clientVars
  <2>2. PICK m \in Lines : Sends(m)
    BY <1>1, <1>t, SendsOneLine DEF Sending
  <2>3. /\ pool'.inbox = Append(pool.inbox, m)
        /\ pool'.accepted = IF Waiting(m, TRUE) THEN pool.accepted + 1 ELSE pool.accepted
        /\ pool'.rejected = IF Waiting(m, FALSE) THEN pool.rejected + 1 ELSE pool.rejected
    BY <2>2 DEF Sends, Waiting, Lines
  <2>4. pool'.accepted \in Nat /\ pool'.rejected \in Nat
    <3>1. /\ pool'.accepted \in {pool.accepted, pool.accepted + 1}
          /\ pool'.rejected \in {pool.rejected, pool.rejected + 1}
      BY <2>3, Zenon
    <3> QED BY <1>0, <3>1
  <2>5. Counts(pool'.inbox, TRUE, accepted, pool'.accepted)
    BY <1>0, <2>3, <2>4, CountsMore
  <2>6. Counts(pool'.inbox, FALSE, rejected, pool'.rejected)
    BY <1>0, <2>3, <2>4, CountsMore
  <2> QED BY <2>1, <2>5, <2>6 DEF Counted
<1>2. CASE Reading
  <2>1. /\ pool.inbox # << >> /\ Line = pool.inbox[1] /\ Line \in Lines
        /\ pool'.inbox = Tail(pool.inbox)
        /\ pool'.accepted = pool.accepted /\ pool'.rejected = pool.rejected
        /\ 1 \in DOMAIN pool.inbox
    BY <1>0, <1>2, <1>t, ReadingReads, Consumed
  <2>2. /\ Counts(pool'.inbox, TRUE, accepted, pool'.accepted)
        /\ Waiting(Line, TRUE) => Counts(pool'.inbox, TRUE, accepted + 1, pool'.accepted)
    BY <1>0, <2>1, CountsFewer
  <2>3. /\ Counts(pool'.inbox, FALSE, rejected, pool'.rejected)
        /\ Waiting(Line, FALSE) => Counts(pool'.inbox, FALSE, rejected + 1, pool'.rejected)
    BY <1>0, <2>1, CountsFewer
  <2>4. CASE HandleShareAnswer
    <3>1. Line.kind = "submit"
      <4>1. Line.kind \in Greetings \union {"submit"} /\ Line.id \in pending
        BY <2>4 DEF HandleShareAnswer, Reads, Greetings
      <4>2. Line.kind \in Greetings => ~IsShare(Line.id)
        BY <2>1 DEF IInv, Ids
      <4> QED BY <4>1, <4>2 DEF IsShare
    <3>2. CASE Line.ok
      <4>1. Waiting(Line, TRUE) BY <2>1, <3>1, <3>2 DEF Waiting, Lines
      <4>2. accepted' = accepted + 1 /\ rejected' = rejected
        BY <2>4, <3>1, <3>2 DEF HandleShareAnswer
      <4> QED BY <2>2, <2>3, <4>1, <4>2 DEF Counted
    <3>3. CASE ~Line.ok
      <4>1. Waiting(Line, FALSE) BY <2>1, <3>1, <3>3 DEF Waiting, Lines
      <4>2. accepted' = accepted /\ rejected' = rejected + 1
        BY <2>4, <3>1, <3>3 DEF HandleShareAnswer
      <4> QED BY <2>2, <2>3, <4>1, <4>2 DEF Counted
    <3> QED BY <3>2, <3>3
  <2>5. CASE HandleNotify \/ HandleDifficulty \/ HandleOtherAnswer \/ HandleSubscribed
    <3>1. UNCHANGED <<accepted, rejected>>
      BY <2>5 DEF HandleNotify, HandleDifficulty, HandleOtherAnswer, HandleSubscribed, shares
    <3> QED BY <2>2, <2>3, <3>1 DEF Counted
  <2> QED BY <1>2, <2>4, <2>5 DEF Reading
<1>3. CASE Working
  <2>1. SameLines /\ UNCHANGED <<accepted, rejected>>
    BY <1>3, <1>t, LeavesLines DEF Working
  <2>2. CASE pool'.inbox = pool.inbox
    BY <1>0, <2>1, <2>2 DEF SameLines, Counted
  <2>3. CASE pool'.inbox = << >>
    <3>1. accepted <= pool.accepted /\ rejected <= pool.rejected
      BY <1>0 DEF Counts
    <3>2. /\ Counts(<< >>, TRUE, accepted, pool.accepted)
          /\ Counts(<< >>, FALSE, rejected, pool.rejected)
      BY <3>1, CountsNone
    <3> QED BY <2>1, <2>3, <3>2 DEF SameLines, Counted
  <2> QED BY <2>1, <2>2, <2>3 DEF SameLines
<1> QED
  BY <1>1, <1>2, <1>3, Steps

\* Requests are made with new ids, and no other step makes an id a share's.
LEMMA NewIds ==
    ASSUME IInv, Next
    PROVE  /\ msgId' \in Nat /\ msgId <= msgId'
           /\ submitter'.id <= msgId' /\ (submitter'.at = "note" => submitter'.id > 0)
           /\ \A id \in 1..msgId : IsShare(id)' => IsShare(id)
           /\ \A r \in pool'.requests :
                 \/ r \in pool.requests
                 \/ /\ r.id \in 1..msgId'
                    /\ r.kind \in Greetings => ~IsShare(r.id)'
<1> USE DEF IInv, Types, ClientType, IsShare, Ids, shares, header, ready,
            clientVars, threadVars
<1> DEFINE Same == /\ UNCHANGED <<msgId, pending, submitter>>
                   /\ pool'.requests \subseteq pool.requests
<1>0. ASSUME Same
      PROVE  /\ msgId' \in Nat /\ msgId <= msgId'
             /\ submitter'.id <= msgId' /\ (submitter'.at = "note" => submitter'.id > 0)
             /\ \A id \in 1..msgId : IsShare(id)' => IsShare(id)
             /\ \A r \in pool'.requests : r \in pool.requests
  BY <1>0
<1>1. CASE Sending
  <2>1. Same BY <1>1, SendsOneLine DEF Sending, Sends
  <2> QED BY <1>0, <2>1
<1>2. CASE Reading
  <2>1. pool'.requests = pool.requests /\ UNCHANGED <<msgId, submitter>>
    BY <1>2, ReadingReads
  <2>2. pending' \subseteq pending
    BY <1>2 DEF Reading, HandleNotify, HandleDifficulty, HandleShareAnswer,
         HandleOtherAnswer, HandleSubscribed
  <2> QED BY <2>1, <2>2
<1>3. CASE PoolCloses
  <2>1. Same BY <1>3 DEF PoolCloses, PoolType
  <2> QED BY <1>0, <2>1
<1>4. CASE WatchWakes \/ ConnectFails \/ StartReader \/ RebuildPrefix
  <2>1. Same BY <1>4 DEF WatchWakes, ConnectFails, StartReader, AfterConnect, RebuildPrefix
  <2> QED BY <1>0, <2>1
<1>5. CASE Connect
  <2>1. Same BY <1>5 DEF Connect, PoolType
  <2> QED BY <1>0, <2>1
<1>6. CASE Subscribe \/ Authorize
  <2>0. PICK kind \in Greetings : \E next : Greet(kind, next)
    BY <1>6 DEF Subscribe, Authorize, Greetings
  <2>1. PICK next : Greet(kind, next)
    BY <2>0
  <2> DEFINE r == [kind |-> kind, id |-> msgId + 1]
  <2>2. msgId' = msgId + 1 /\ UNCHANGED <<pending, submitter>>
    BY <2>1 DEF Greet
  <2>3. pool'.requests \subseteq pool.requests \union {r}
    <3>1. pool' = pool \/ pool' = [pool EXCEPT !.requests = @ \union {r}]
      BY <2>1 DEF Greet, Requested
    <3> HIDE DEF r
    <3> QED BY <3>1 DEF PoolType
  <2>4. ~IsShare(msgId + 1)'
    BY <2>2
  <2> QED BY <2>2, <2>3, <2>4
<1>7. CASE ReaderLeaves
  <2>1. Same BY <1>7 DEF ReaderLeaves, PoolType
  <2> QED BY <1>0, <2>1
<1>8. CASE TakeHit
  <2>1. /\ UNCHANGED <<msgId, pending, pool>>
        /\ submitter'.id = 0 /\ submitter'.at # "note" /\ submitter.at = "wait"
    BY <1>8 DEF TakeHit, NoShare
  <2> QED BY <2>1
<1>9. CASE SubmitShare
  <2> DEFINE r == [kind |-> "submit", id |-> msgId + 1]
  <2>1. msgId' = msgId + 1 /\ pending' = pending /\ submitter.at = "rpc"
    BY <1>9 DEF SubmitShare
  <2>2. \/ submitter'.id = 0 /\ submitter'.at = "wait"
        \/ submitter'.id = msgId + 1 /\ submitter'.at = "note"
    <3>1. \/ submitter' = NoShare
          \/ submitter' = [submitter EXCEPT !.at = "note", !.id = msgId + 1]
      BY <1>9 DEF SubmitShare
    <3>2. {"at", "id"} \subseteq DOMAIN submitter
      OBVIOUS
    <3> HIDE DEF IInv
    <3>3. CASE submitter' = NoShare
      BY <3>3 DEF NoShare
    <3>4. CASE submitter' = [submitter EXCEPT !.at = "note", !.id = msgId + 1]
      BY <3>2, <3>4
    <3> QED BY <3>1, <3>3, <3>4
  <2>3. pool'.requests \subseteq pool.requests \union {r}
    <3>1. pool' = pool \/ pool' = [pool EXCEPT !.requests = @ \union {r}]
      BY <1>9 DEF SubmitShare, Requested
    <3> HIDE DEF r
    <3> QED BY <3>1 DEF PoolType
  <2>4. r.kind \notin Greetings /\ r.id = msgId'
    BY <2>1 DEF Greetings
  <2> QED BY <2>1, <2>2, <2>3, <2>4
<1>10. CASE SubmitFails
  <2>1. /\ msgId' = msgId + 1 /\ UNCHANGED <<pending, pool>> /\ submitter.at = "rpc"
        /\ submitter'.id = 0 /\ submitter'.at = "wait"
    BY <1>10 DEF SubmitFails, NoShare
  <2> QED BY <2>1
<1>11. CASE NoteShare
  <2>1. /\ UNCHANGED <<msgId, pool>> /\ submitter.at = "note"
        /\ pending' = pending \union {submitter.id}
        /\ submitter'.id = 0 /\ submitter'.at = "wait"
    BY <1>11 DEF NoteShare, NoShare
  <2> QED BY <2>1
<1>12. CASE FindHit
  <2>1. Same BY <1>12 DEF FindHit, PoolType
  <2> QED BY <1>0, <2>1
<1>13. CASE Stop
  <2>1. Same BY <1>13 DEF Stop, PoolType
  <2> QED BY <1>0, <2>1
<1> HIDE DEF IInv
<1> QED
  BY <1>1, <1>2, <1>3, <1>4, <1>5, <1>6, <1>7, <1>8, <1>9, <1>10, <1>11, <1>12, <1>13,
     Steps DEF Working, WatchNext, SubmitterNext

LEMMA IdsKept ==
    ASSUME IInv, Next
    PROVE  Ids'
<1> DEFINE Apart(k, id) == k \in Greetings => id \in 1..msgId /\ ~IsShare(id)
           Later(id) == id \in pending' \/ (submitter'.at = "note" /\ id = submitter'.id)
           Fresh(k, id) == k \in Greetings => id \in 1..msgId' /\ ~Later(id)
<1>0. \A id : IsShare(id)' <=> Later(id)
  BY DEF IsShare
<1>1. /\ Types /\ msgId \in Nat /\ pool.inbox \in Seq(Lines)
      /\ \A r \in pool.requests : r.id \in 1..msgId /\ Apart(r.kind, r.id)
      /\ \A i \in DOMAIN pool.inbox : Apart(pool.inbox[i].kind, pool.inbox[i].id)
  BY DEF IInv, Ids, Types, ClientType, PoolType
<1> HIDE DEF Later
<1>2. \A k, id : Apart(k, id) => Fresh(k, id)
  BY <1>0, <1>1, NewIds
<1>3. \A r \in pool'.requests : r.id \in 1..msgId' /\ Fresh(r.kind, r.id)
  BY <1>0, <1>1, <1>2, NewIds
<1> HIDE DEF Apart, Fresh
<1>4. \A i \in DOMAIN pool'.inbox : Fresh(pool'.inbox[i].kind, pool'.inbox[i].id)
  <2>1. CASE Sending
    <3>1. PICK m \in Lines : Sends(m)
      BY <1>1, <2>1, SendsOneLine DEF Sending
    <3>2. Fresh(m.kind, m.id)
      <4>1. CASE m.kind \in Greetings
        BY <1>1, <1>2, <3>1, <4>1 DEF Sends
      <4>2. CASE m.kind \notin Greetings
        BY <4>2 DEF Fresh
      <4> QED BY <4>1, <4>2
    <3> DEFINE s == pool.inbox
    <3>3. /\ DOMAIN pool'.inbox = 1..(Len(s) + 1) /\ DOMAIN s = 1..Len(s) /\ Len(s) \in Nat
          /\ \A i \in DOMAIN s : pool'.inbox[i] = s[i]
          /\ pool'.inbox[Len(s) + 1] = m
      BY <1>1, <3>1, Appended DEF Sends
    <3>4. \A i \in DOMAIN pool'.inbox : i \in DOMAIN s \/ i = Len(s) + 1
      BY <3>3
    <3> QED BY <1>1, <1>2, <3>2, <3>3, <3>4
  <2>2. CASE Reading
    <3>1. pool.inbox # << >> /\ pool'.inbox = Tail(pool.inbox)
      BY <1>1, <2>2, ReadingReads
    <3>2. \A i \in DOMAIN pool'.inbox :
             i + 1 \in DOMAIN pool.inbox /\ pool'.inbox[i] = pool.inbox[i + 1]
      BY <1>1, <3>1, Consumed
    <3> QED BY <1>1, <1>2, <3>2
  <2>3. CASE Working
    <3>1. pool'.inbox = pool.inbox \/ pool'.inbox = << >>
      BY <1>1, <2>3, LeavesLines DEF Working, SameLines
    <3> QED BY <1>1, <1>2, <3>1
  <2> QED BY <2>1, <2>2, <2>3, Steps
<1> QED
  <2>1. submitter'.id <= msgId' /\ (submitter'.at = "note" => submitter'.id > 0)
    BY NewIds
  <2>2. \A i \in DOMAIN pool'.inbox : pool'.inbox[i].kind \in Greetings =>
           pool'.inbox[i].id \in 1..msgId' /\ ~Later(pool'.inbox[i].id)
    BY <1>4 DEF Fresh
  <2>3. \A r \in pool'.requests :
           r.id \in 1..msgId' /\ (r.kind \in Greetings => ~Later(r.id))
    BY <1>3 DEF Fresh
  <2> QED BY <2>1, <2>2, <2>3 DEF Ids, IsShare, Later

LEMMA SharesKept ==
    ASSUME IInv, Next
    PROVE  ShareIsOneJob' /\ HitIsNotPredated'
<1> USE DEF IInv, Types, shares, header, ready, clientVars, threadVars
<1>0. pool'.bad = pool.bad
  <2>1. Sending => pool'.bad = pool.bad BY SendsOneLine DEF Sending, Sends
  <2>2. Reading => pool'.bad = pool.bad BY ReadingReads
  <2>3. Working => pool'.bad = pool.bad BY LeavesLines DEF Working, SameLines
  <2> QED BY <2>1, <2>2, <2>3, Steps
<1>1. CASE TakeHit
  <2>1. CASE jobId = 0 \/ sock = 0
    BY <1>1, <2>1 DEF TakeHit, NoShare, ShareIsOneJob, HitIsNotPredated
  <2>2. CASE jobId # 0 /\ sock # 0
    <3>1. /\ hits # << >> /\ reader # "rebuild"
          /\ submitter' = [at |-> "rpc", id |-> 0, hit |-> Head(hits),
                           job |-> jobId, en2 |-> en2, ntime |-> job]
      BY <1>1, <2>2 DEF TakeHit, LockFree
    <3>2. Follows(Head(hits), jobId, en2) /\ Head(hits) \in AnyHeader
      BY <3>1, Consumed DEF Hits, ClientType
    <3>3. jobId = job \/ job \in pool.bad
      BY <2>2, <3>1 DEF Built
    <3>4. ShareIsOneJob'
      BY <1>0, <3>1, <3>3 DEF ShareIsOneJob
    <3>5. HitIsNotPredated'
      BY <3>1, <3>2 DEF HitIsNotPredated, Follows, ClientType, AnyHeader
    <3> QED BY <3>4, <3>5
  <2> QED BY <2>1, <2>2
<1>2. CASE ~TakeHit
  <2>1. \/ submitter' = submitter
        \/ submitter' = NoShare
        \/ submitter.at = "rpc" /\ submitter' = [submitter EXCEPT !.at = "note", !.id = msgId + 1]
    <3>1. Sending => submitter' = submitter BY SendsOneLine DEF Sending
    <3>2. Reading => submitter' = submitter BY ReadingReads
    <3>3. PoolCloses \/ RebuildPrefix \/ ReaderLeaves \/ FindHit \/ Stop => submitter' = submitter
      BY DEF PoolCloses, RebuildPrefix, ReaderLeaves, FindHit, Stop
    <3>4. WatchNext => submitter' = submitter
      BY DEF WatchNext, WatchWakes, Connect, ConnectFails, Subscribe, Authorize, Greet,
             StartReader, AfterConnect
    <3>5. SubmitFails \/ NoteShare => submitter' = NoShare
      BY DEF SubmitFails, NoteShare
    <3>6. SubmitShare => \/ submitter' = NoShare
                         \/ /\ submitter.at = "rpc"
                            /\ submitter' = [submitter EXCEPT !.at = "note", !.id = msgId + 1]
      BY DEF SubmitShare
    <3> QED BY <1>2, <3>1, <3>2, <3>3, <3>4, <3>5, <3>6, Steps DEF Working, SubmitterNext
  <2>2. CASE submitter' = submitter
    BY <1>0, <2>2 DEF ShareIsOneJob, HitIsNotPredated
  <2>3. CASE submitter' = NoShare
    BY <2>3 DEF NoShare, ShareIsOneJob, HitIsNotPredated
  <2>4. CASE /\ submitter.at = "rpc"
             /\ submitter' = [submitter EXCEPT !.at = "note", !.id = msgId + 1]
    <3>1. /\ submitter'.job = submitter.job /\ submitter'.ntime = submitter.ntime
          /\ submitter'.hit = submitter.hit /\ submitter'.en2 = submitter.en2
      BY <2>4 DEF ClientType
    <3> QED BY <1>0, <2>4, <3>1 DEF ShareIsOneJob, HitIsNotPredated
  <2> QED BY <2>1, <2>2, <2>3, <2>4
<1> QED
  BY <1>1, <1>2

LEMMA Kept ==
    ASSUME IInv, [Next]_vars
    PROVE  IInv'
<1>1. CASE Next
  BY <1>1, TypesKept, ThreadsKept, IdsKept, NumberedKept, BuiltKept, HitsKept, CountedKept,
     SharesKept DEF IInv
<1>2. CASE UNCHANGED vars
  <2> USE <1>2 DEF vars, clientVars, threadVars
  <2>1. Types' /\ Threads' BY DEF IInv, Types, ClientType, PoolType, Threads
  <2>2. Ids' BY DEF IInv, Ids, IsShare
  <2>3. Numbered' /\ Built' /\ Hits' /\ Counted'
    BY DEF IInv, Numbered, Announces, Built, Hits, Counted
  <2>4. ShareIsOneJob' /\ HitIsNotPredated' BY DEF IInv, ShareIsOneJob, HitIsNotPredated
  <2> QED BY <2>1, <2>2, <2>3, <2>4 DEF IInv
<1> QED
  BY <1>1, <1>2

\* The inductive invariant holds throughout: what the counters, the shares and the
\* hits under way have to do with the pool's side of the connection (222-355).
THEOREM Invariant == Spec => []IInv
BY StartsWell, Kept, PTL DEF Spec

----------------------------------------------------------------------------
(* The theorems.                                                            *)

\* The client never counts more shares accepted or rejected than the pool judged so:
\* across reconnects, answers out of order and greetings whose answers look like a
\* share's, every answer it counts is the pool's answer to a share (256-266).
THEOREM CountsAreThePools == Spec => []CountedWasJudged
<1>1. IInv => CountedWasJudged
  BY DEF IInv, Counted, Counts, CountedWasJudged
<1> QED
  BY <1>1, Invariant, PTL

\* The job id, the extranonce2 and the ntime a share is submitted with are of one job,
\* unless the last job announced did not parse: the submitter reads them under the
\* lock the reader holds from the assignment of the job to the end of the rebuild.
THEOREM SharesAreOfOneJob == Spec => []ShareIsOneJob
<1>1. IInv => ShareIsOneJob
  BY DEF IInv
<1> QED
  BY <1>1, Invariant, PTL

\* A hit is submitted as work of its own job or of a newer one, and with its own
\* extranonce2 only as work of its own job.
THEOREM HitsAreNotPredated == Spec => []HitIsNotPredated
<1>1. IInv => HitIsNotPredated
  BY DEF IInv
<1> QED
  BY <1>1, Invariant, PTL
=============================================================================
