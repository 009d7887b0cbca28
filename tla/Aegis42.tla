------------------------------ MODULE Aegis42 ------------------------------
(* AEGIS-42, the security oversight of a node (mods/aegis_42/core.py with     *)
(* identity.py, containment.py and the routes that read them).  ingest() runs *)
(* to its end on the thread of its caller, one caller at a time; the          *)
(* integrity loop and the routes only read.  Left out: the advisory watchdog, *)
(* whose judgments no decision uses, counters, and the disabled instance.     *)
EXTENDS AegisPolicy, AuditChain, FiniteSets

CONSTANTS
    EventIds,        \* the events that may be ingested, again and again
    EventOf,         \* what each of them says: its type, actor and tool
    Workers,         \* identities that lifecycle events create
    Caps,            \* capability names; a tool's name stands for "tool:<name>"
    NoActor,         \* an event without an actor
    QueueMax,        \* Aegis42.QUEUE_MAX, 1000
    MaxSeen,         \* _max_seen, 5000
    QuarantineFor,   \* 3600 seconds, here in ticks
    ToolLimitFor,    \* 60 seconds, here in ticks
    MaxTime,         \* bound: ticks of the clock
    MaxAppends       \* bound: no operation is taken after this many appends

Identities == Workers \cup {"aegis"}
Actors == (Identities \cup {EventOf[e].actor : e \in EventIds}) \ {NoActor}

ASSUME QueueAssumption ==
    /\ QueueMax \in Nat \ {0}
    /\ MaxSeen \in Nat
    /\ QueueMax <= MaxSeen
ASSUME TimesAssumption == ToolLimitFor \in Nat /\ QuarantineFor \in Nat

VARIABLES
    now,          \* the clock
    running,      \* _running, and with it the integrity loop
    seen,         \* _seen_event_ids
    queue,        \* _queue: accepted events, which nothing takes off
    identities,   \* IdentityRegistry._identities
    revoked,      \* IdentityRegistry._revoked
    limits,       \* ContainmentExecutor._rate_limits, until when
    audit,        \* the audit log and the head of its chain
    overruled     \* history: actors whose limit an operator has set

vars == <<now, running, seen, queue, identities, revoked, limits, audit, overruled>>
registry == <<identities, revoked>>

Absent == -1                     \* a capability not held
Forever == MaxTime + 1           \* a capability without an expiry
NoLimit == -1
TrustLevels == {"provisional", "operator"}
Unknown == [known |-> FALSE, caps |-> [c \in Caps |-> Absent], trust |-> "provisional"]

Record(kind, event, actor, outcome) ==
    [kind |-> kind, event |-> event, actor |-> actor, outcome |-> outcome, ts |-> now]
SystemRecord == Record("system", "none", NoActor, "none")

Init ==
    /\ now = 0
    /\ running = FALSE
    /\ seen = {}
    /\ queue = <<>>
    /\ identities = [i \in Identities |->
           IF i = "aegis" THEN [Unknown EXCEPT !.known = TRUE, !.trust = "operator"]
                          ELSE Unknown]
    /\ revoked = {}
    /\ limits = [a \in Actors |-> NoLimit]
    /\ audit = [log |-> <<>>, head |-> Genesis]
    /\ overruled = {}

-----------------------------------------------------------------------------
(* Identities.                                                               *)

\* IdentityRegistry.get: a revoked identity is as good as unknown.
Known(i) == i \in Identities \ revoked /\ identities[i].known
IsTrusted(i) == Known(i) /\ identities[i].trust = "operator"
CapabilitiesOf(i) ==
    {c \in Caps : /\ Known(i)
                  /\ identities[i].caps[c] # Absent
                  /\ now <= identities[i].caps[c]}

\* register() by on_worker_created: a revoked identity raises, and is ignored.
Register(w, caps) ==
    /\ identities' = IF w \in revoked THEN identities ELSE
           [identities EXCEPT ![w] =
               [known |-> TRUE, trust |-> "provisional",
                caps |-> [c \in Caps |-> IF c \in caps THEN Forever ELSE Absent]]]
    /\ UNCHANGED revoked

GrantCapability(i, c, by, until) ==
    /\ Known(i)
    /\ by \in {"operator", "system", "aegis"} \/ IsTrusted(by)
    /\ identities' = [identities EXCEPT ![i].caps[c] = until]
    /\ UNCHANGED <<now, running, seen, queue, revoked, limits, audit, overruled>>

-----------------------------------------------------------------------------
(* Containment and decisions.                                                *)

\* Mutant of IsRateLimited: the last second of a limit is free.
IsRateLimitedMutant(a) == IF a = NoActor THEN FALSE ELSE limits[a] # NoLimit /\ now < limits[a]

\* is_rate_limited: the last second of a limit still counts.
IsRateLimited(a) == IF a = NoActor THEN FALSE ELSE limits[a] # NoLimit /\ now <= limits[a]

\* _handle: the limit an actor is under comes before the policy, so that a limited
\* actor's events are neither evaluated nor answered by a containment.
Handle(id, event) ==
    LET a == event.actor
        outcome == Evaluate(event, CapabilitiesOf(a), IsTrusted(a))
        decided == AppendRecord(audit, Record("decision", id, a, outcome))
    IN  \/ /\ IsRateLimited(a)
           /\ audit' = AppendRecord(audit, Record("decision", id, a, "rate_limit"))
           /\ UNCHANGED limits
        \/ /\ ~IsRateLimited(a)
           /\ audit' = IF outcome = "quarantine" /\ a # NoActor
                       THEN AppendRecord(decided, Record("containment", id, a, outcome))
                       ELSE decided
           /\ limits' =
                  IF a = NoActor THEN limits ELSE
                  [limits EXCEPT ![a] =
                      CASE outcome = "quarantine" -> now + QuarantineFor
                        [] outcome = "deny" /\ event.type = "tool" -> now + ToolLimitFor
                        [] OTHER -> NoLimit]

\* Mutant of Remembered: the newest id takes the place of all others.
RememberedMutant(id, kept) == kept = {id}

\* The seen ids after one more; above MaxSeen half of them stay, in no known order.
Remembered(id, kept) ==
    /\ kept \subseteq seen \cup {id}
    /\ IF Cardinality(seen \cup {id}) > MaxSeen
       THEN Cardinality(kept) = (MaxSeen + 1) \div 2
       ELSE kept = seen \cup {id}

ReplayOf(id) == [type |-> "replay", actor |-> EventOf[id].actor, tool |-> NoTool]

\* ingest(): an id is remembered before the queue is looked at, and a full queue
\* drops the event without a decision.
IngestEvent(id) ==
    /\ audit.head < MaxAppends
    /\ \/ /\ id \in seen
          /\ Handle(id, ReplayOf(id))
          /\ UNCHANGED <<seen, queue>>
       \/ /\ id \notin seen
          /\ \E kept \in SUBSET (seen \cup {id}) :
                 Remembered(id, kept) /\ seen' = kept
          /\ \/ /\ Len(queue) >= QueueMax
                /\ audit' = AppendRecord(audit, SystemRecord)
                /\ UNCHANGED <<queue, limits>>
             \/ /\ Len(queue) < QueueMax
                /\ queue' = Append(queue, id)
                /\ Handle(id, EventOf[id])

\* An event of any other producer: a worker's end, a tool, a failed login, a route.
Ingest(id) ==
    /\ IngestEvent(id)
    /\ UNCHANGED <<now, running, identities, revoked, overruled>>

\* on_worker_created: the registration first, which the event's handling sees.
OnWorkerCreated(id, caps) ==
    /\ EventOf[id].type = "lifecycle"
    /\ EventOf[id].actor \in Workers
    /\ Register(EventOf[id].actor, caps)
    /\ IngestEvent(id)
    /\ UNCHANGED <<now, running, overruled>>

\* ContainmentExecutor.execute by an operator; other issuers are refused, and
\* LOG_ONLY and REJECT_ROUTE change nothing.
OperatorLimits(a, ticks) ==
    /\ limits' = [limits EXCEPT ![a] = now + ticks]
    /\ overruled' = overruled \cup {a}
    /\ UNCHANGED <<now, running, seen, queue, identities, revoked, audit>>

OperatorRevokesCapability(i, c) ==
    /\ Known(i) /\ identities[i].caps[c] # Absent
    /\ identities' = [identities EXCEPT ![i].caps[c] = Absent]
    /\ UNCHANGED <<now, running, seen, queue, revoked, limits, audit, overruled>>

OperatorRevokesIdentity(i) ==
    /\ revoked' = revoked \cup {i}
    /\ UNCHANGED <<now, running, seen, queue, identities, limits, audit, overruled>>

-----------------------------------------------------------------------------
(* The node's lifecycle, the clock, and somebody who changes a record in      *)
(* place, once.                                                              *)

StartStop ==
    /\ audit.head < MaxAppends
    /\ running' = ~running
    /\ audit' = AppendRecord(audit, SystemRecord)
    /\ UNCHANGED <<now, seen, queue, identities, revoked, limits, overruled>>

Tick ==
    /\ now < MaxTime
    /\ now' = now + 1
    /\ UNCHANGED <<running, seen, queue, identities, revoked, limits, audit, overruled>>

Tamper(i) ==
    /\ \A j \in DOMAIN audit.log : audit.log[j].intact
    /\ audit' = [audit EXCEPT !.log[i].intact = FALSE]
    /\ UNCHANGED <<now, running, seen, queue, identities, revoked, limits, overruled>>

\* Inputs: the operator's calls are about workers, the bootstrapped identity keeps out.
Next ==
    \/ \E id \in EventIds : Ingest(id)
    \/ \E id \in EventIds, caps \in SUBSET Caps : OnWorkerCreated(id, caps)
    \/ \E i \in Workers, c \in Caps, by \in Identities \cup {"operator"}, until \in {now, Forever} :
           GrantCapability(i, c, by, until)
    \/ \E a \in Workers, ticks \in {ToolLimitFor, QuarantineFor} : OperatorLimits(a, ticks)
    \/ \E i \in Workers, c \in Caps : OperatorRevokesCapability(i, c)
    \/ \E i \in Workers : OperatorRevokesIdentity(i)
    \/ \E i \in DOMAIN audit.log : Tamper(i)
    \/ StartStop \/ Tick

Spec == Init /\ [][Next]_vars

-----------------------------------------------------------------------------
(* Properties.                                                               *)

TypeOK ==
    /\ now \in 0 .. MaxTime
    /\ running \in BOOLEAN
    /\ seen \subseteq EventIds
    /\ queue \in Seq(EventIds)
    /\ identities \in [Identities -> [known : BOOLEAN, trust : TrustLevels,
                                      caps : [Caps -> Absent .. Forever]]]
    /\ revoked \subseteq Identities
    /\ limits \in [Actors -> Int]

(* No event is accepted twice, however often it is ingested: replay detection *)
(* forgets ids once there are too many of them, but by then the queue, which  *)
(* nothing drains, has been full for long (core.py:103-130).                  *)
AcceptedOnce ==
    \A i, j \in DOMAIN queue : queue[i] = queue[j] => i = j

(* While a quarantine of an actor lasts, every decision about the actor is a  *)
(* rate limit: no denial of a tool, replay or re-registration of the actor    *)
(* replaces its hour by the minute of a soft limit, unless an operator sets   *)
(* another limit (core.py:139-157, containment.py:101-135).                   *)
QuarantineHolds ==
    \A i, j \in DOMAIN audit.log :
        LET c == audit.log[i].body
            d == audit.log[j].body
        IN  /\ i < j /\ c.kind = "containment" /\ d.kind = "decision"
            /\ d.actor = c.actor /\ c.actor \notin overruled
            /\ d.ts <= c.ts + QuarantineFor
            => d.outcome = "rate_limit"

(* The chain verifies exactly as long as no record was changed and none was   *)
(* dropped: a changed record is never missed, and after the log has once been *)
(* trimmed every check fails for good, with nothing tampered with             *)
(* (audit.py:78-108).                                                         *)
IntegrityIsExact ==
    Verified(audit.log) <=>
        /\ Len(audit.log) = audit.head
        /\ \A i \in DOMAIN audit.log : audit.log[i].intact

=============================================================================
