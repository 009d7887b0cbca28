---------------------------- MODULE ControlPlane ----------------------------
(* The ecosystem control plane: the capability registry (control/registry.py),*)
(* the facade (control/plane.py) and the routes that call it                  *)
(* (dashboard/control_ops.py).  The POST handlers are coroutines without an   *)
(* await after the body is read: each is one step of the event loop.  The GET *)
(* handlers are plain functions, which FastAPI runs on a thread of its pool,  *)
(* so that the refresh of every record by list() overlaps the other calls.    *)
EXTENDS ControlState, FiniteSets

CONSTANTS
    Entities, Actions,   \* ids
    Adapters,           \* adapters that entities name, whether registered or not
    ActionsOf,          \* the actions an adapter's manifest declares
    NullAdapter,        \* "aurora.null", which the plane registers and which has no actions
    Readers,            \* threads of the pool that list the entities
    Keys, Values,       \* idempotency keys and values of desired and observed state
    StaleAfter,         \* stale_after_s, here in ticks
    MaxTime,            \* bound: ticks of the clock
    MaxCalls            \* bound: registrations, states and actions ever stored

ASSUME ControlAssumption ==
    /\ StaleAfter \in Nat
    /\ NullAdapter \notin Adapters
    /\ ActionsOf \in [Adapters -> SUBSET Actions]

VARIABLES
    now,        \* the clock
    objects,    \* every EntityRegistration made: the records and the replaced ones
    registry,   \* CapabilityRegistry._entities: entity id to object, 0 for none
    adapters,   \* ControlPlane._adapters
    desired, observed,   \* StateStore
    results,    \* the action results of the audit log, and what they were about
    made,       \* dashboard's _plane is not None
    readers     \* the list() calls under way

vars == <<now, objects, registry, adapters, desired, observed, results, made, readers>>

OutOfService == {"quarantined", "revoked"}
States == {"registered", "healthy", "degraded", "stale", "disconnected"} \cup OutOfService
Healths == {"unknown", "healthy", "degraded", "stale", "disconnected"}
Idle == [pc |-> "idle", at |-> 0, todo |-> {}, size |-> 0, object |-> 0, gone |-> FALSE, out |-> {}]

Init ==
    /\ now = 1
    /\ objects = <<>>
    /\ registry = [e \in Entities |-> 0]
    /\ adapters = {NullAdapter}
    /\ desired = <<>>
    /\ observed = <<>>
    /\ results = <<>>
    /\ made = FALSE
    /\ readers = [r \in Readers |-> Idle]

Registered(e) == registry[e] # 0
EntityOf(e) == objects[registry[e]]
Budget == Len(objects) + Len(desired) + Len(observed) + Len(results) < MaxCalls
Update(o, record) == objects' = [objects EXCEPT ![o] = record]

-----------------------------------------------------------------------------
(* The event loop.                                                           *)

\* get_control_plane() of a handler: looked at and assigned in one step.
Made == made' = TRUE

\* register(): the new record takes the place of the old one, with the operational
\* state and the health its sender wrote into it.
Register(e, state, health, adapter) ==
    /\ Budget
    /\ objects' = Append(objects,
           [entity |-> e, adapter |-> adapter, seen |-> now, health |-> health,
            state |-> IF state \in {"unknown", "disconnected"} THEN "registered" ELSE state])
    /\ registry' = [registry EXCEPT ![e] = Len(objects) + 1]
    /\ Made
    /\ UNCHANGED <<now, adapters, desired, observed, results, readers>>

\* Mutant of Beaten: what was heard is noted, not when.
BeatenUntimed(record, health) ==
    [record EXCEPT
        !.health = IF health = NoValue THEN @ ELSE health,
        !.state = IF @ \in {"stale", "disconnected", "registered"} THEN "healthy" ELSE @]

\* Mutant of Beaten: a heartbeat makes every entity healthy.
BeatenAlways(record, health) == [record EXCEPT !.seen = now, !.state = "healthy"]

\* heartbeat(): only the states that silence or registration left are replaced.
Beaten(record, health) ==
    LET h == IF health = NoValue THEN record.health ELSE health
    IN  [record EXCEPT
            !.seen = now,
            !.health = h,
            !.state = IF @ \in {"stale", "disconnected", "registered"}
                      THEN IF h \in {"degraded", "error"} THEN "degraded" ELSE "healthy"
                      ELSE @]

Heartbeat(e, health) ==
    /\ Registered(e)
    /\ Update(registry[e], Beaten(EntityOf(e), health))
    /\ UNCHANGED <<now, registry, adapters, desired, observed, results, made, readers>>

\* report_observed: stored for any entity, and a heartbeat of a registered one.
ReportObserved(e, value) ==
    /\ Budget \/ ObservedOf(observed, e) # <<>>
    /\ observed' = SetObserved(observed, e, value)
    /\ IF Registered(e) THEN Update(registry[e], Beaten(EntityOf(e), NoValue))
                        ELSE UNCHANGED objects
    /\ Made
    /\ UNCHANGED <<now, registry, adapters, desired, results, readers>>

RequestDesired(key, e, value) ==
    /\ Budget \/ \E i \in DOMAIN desired : desired[i].key = key
    /\ desired' = SetDesired(desired, key, e, value)
    /\ Made
    /\ UNCHANGED <<now, objects, registry, adapters, observed, results, readers>>

\* submit_action: the checks in their order; silence is not among them.
Verdict(e, action, authorized, expired, answer) ==
    CASE ~Registered(e)                        -> "failed"
      [] Registered(e) /\ EntityOf(e).state \in OutOfService -> "denied"
      [] OTHER ->
         CASE ~authorized                      -> "denied"
           [] authorized /\ expired            -> "timed_out"
           [] OTHER ->
              LET a == EntityOf(e).adapter
              IN  CASE a \notin adapters       -> "failed"
                    [] a \in adapters /\ action \notin ActionsOf[a] -> "denied"
                    [] OTHER                   -> answer

\* An exception of the adapter is a failure, like one it reports.
SubmitAction(e, action, authorized, expired, answer) ==
    /\ Budget
    /\ results' = Append(results,
           [entity |-> e, outcome |-> Verdict(e, action, authorized, expired, answer),
            state |-> IF Registered(e) THEN EntityOf(e).state ELSE "unknown"])
    /\ Made
    /\ UNCHANGED <<now, objects, registry, adapters, desired, observed, readers>>

-----------------------------------------------------------------------------
(* Other callers of the plane in the process.                                *)

RegisterAdapter(a) ==
    /\ made
    /\ adapters' = adapters \cup {a}
    /\ UNCHANGED <<now, objects, registry, desired, observed, results, made, readers>>

TakeOut(e, state) ==
    /\ Registered(e)
    /\ Update(registry[e], [EntityOf(e) EXCEPT !.state = state])
    /\ UNCHANGED <<now, registry, adapters, desired, observed, results, made, readers>>

Unregister(e) ==
    /\ Registered(e)
    /\ registry' = [registry EXCEPT ![e] = 0]
    /\ UNCHANGED <<now, objects, adapters, desired, observed, results, made, readers>>

-----------------------------------------------------------------------------
(* list() on a thread of the pool: the time is read once, then each record is *)
(* looked at and, in a later step, written, the records in any order; a       *)
(* change of the number of entities in between ends the call with an          *)
(* exception.                                                                *)

Known == {e \in Entities : Registered(e)}

Read(r, fields) == readers' = [readers EXCEPT ![r] = fields]

\* The plane does not exist yet: the thread makes one of its own...
FindNoPlane(r) ==
    /\ readers[r].pc = "idle" /\ ~made
    /\ Read(r, [Idle EXCEPT !.pc = "make"])
    /\ UNCHANGED <<now, objects, registry, adapters, desired, observed, results, made>>

\* ...and assigns it, over the one another thread may have assigned and filled.
AssignPlane(r) ==
    /\ readers[r].pc = "make"
    /\ made' = TRUE
    /\ registry' = [e \in Entities |-> 0]
    /\ adapters' = {NullAdapter}
    /\ desired' = <<>> /\ observed' = <<>> /\ results' = <<>>
    /\ Read(r, Idle)
    /\ UNCHANGED <<now, objects>>

StartList(r) ==
    /\ readers[r].pc = "idle" /\ made
    /\ Read(r, [Idle EXCEPT !.pc = "look", !.at = now, !.todo = Known,
                            !.size = Cardinality(Known)])
    /\ UNCHANGED <<now, objects, registry, adapters, desired, observed, results, made>>

\* The iteration is over a dictionary whose size has changed.
Fail(r) ==
    /\ readers[r].pc = "look" /\ readers[r].size # Cardinality(Known)
    /\ Read(r, Idle)
    /\ UNCHANGED <<now, objects, registry, adapters, desired, observed, results, made>>

\* Left alone: out of service, or heard of within the threshold before the call.
Fresh(record, at) == record.state \in OutOfService \/ at - record.seen <= StaleAfter

\* _refresh_staleness up to the comparison: the state and the age are read here.
Look(r, e) ==
    /\ readers[r].pc = "look" /\ e \in readers[r].todo
    /\ readers[r].size = Cardinality(Known)
    /\ IF Registered(e)
       THEN IF Fresh(EntityOf(e), readers[r].at)
            THEN Read(r, [readers[r] EXCEPT !.todo = @ \ {e}, !.out = @ \cup {registry[e]}])
            ELSE Read(r, [readers[r] EXCEPT
                     !.pc = "write", !.todo = @ \ {e}, !.object = registry[e],
                     !.gone = readers[r].at - EntityOf(e).seen > 2 * StaleAfter])
       ELSE Read(r, [readers[r] EXCEPT !.todo = @ \ {e}])
    /\ UNCHANGED <<now, objects, registry, adapters, desired, observed, results, made>>

\* Silent for longer than twice the threshold is gone, and health follows.
Silent(record, gone) ==
    IF gone
    THEN [record EXCEPT !.state = "disconnected",
                        !.health = IF @ \in {"unknown", "healthy"} THEN "disconnected" ELSE @]
    ELSE [record EXCEPT !.state = "stale",
                        !.health = IF @ = "healthy" THEN "stale" ELSE @]

WriteSilence(r) ==
    LET o == readers[r].object
    IN  /\ readers[r].pc = "write"
        /\ Update(o, Silent(objects[o], readers[r].gone))
        /\ Read(r, [readers[r] EXCEPT !.pc = "look", !.object = 0, !.gone = FALSE,
                                       !.out = @ \cup {o}])
        /\ UNCHANGED <<now, registry, adapters, desired, observed, results, made>>

\* The records are rendered as they are by now.
Respond(r) ==
    /\ readers[r].pc = "look" /\ readers[r].todo = {}
    /\ readers[r].size = Cardinality(Known)
    /\ Read(r, Idle)
    /\ UNCHANGED <<now, objects, registry, adapters, desired, observed, results, made>>

Tick ==
    /\ now < MaxTime
    /\ now' = now + 1
    /\ UNCHANGED <<objects, registry, adapters, desired, observed, results, made, readers>>

\* The handlers on the event loop, each of them in one step.
Requests ==
    \/ \E e \in Entities, a \in Adapters, s \in {"registered", "healthy", "unknown"} :
           Register(e, s, "unknown", a)
    \/ \E e \in Entities, h \in {"healthy", "degraded"} : Heartbeat(e, h)
    \/ \E e \in Entities, v \in Values : ReportObserved(e, v)
    \/ \E e \in Entities, k \in Keys, v \in Values : RequestDesired(k, e, v)
    \/ \E e \in Entities, a \in Actions, auth, late \in BOOLEAN, s \in {"succeeded", "failed"} :
           SubmitAction(e, a, auth, late, s)

\* The handlers on the pool that list: the entities, and how many are in which state.
Listing ==
    \E r \in Readers :
        \/ FindNoPlane(r) \/ AssignPlane(r)
        \/ StartList(r) \/ Fail(r) \/ (\E e \in Entities : Look(r, e)) \/ WriteSilence(r) \/ Respond(r)

Next ==
    \/ Requests
    \/ Listing
    \/ \E a \in Adapters : RegisterAdapter(a)
    \/ \E e \in Entities, s \in OutOfService : TakeOut(e, s)
    \/ \E e \in Entities : Unregister(e)
    \/ Tick

Spec == Init /\ [][Next]_vars

-----------------------------------------------------------------------------
(* Properties.                                                               *)

TypeOK ==
    /\ now \in 1 .. MaxTime
    /\ objects \in Seq([entity : Entities, adapter : Adapters, seen : 1 .. MaxTime,
                        health : Healths, state : States])
    /\ registry \in [Entities -> 0 .. Len(objects)]
    /\ adapters \subseteq Adapters \cup {NullAdapter}
    /\ made \in BOOLEAN

(* A listing never shows a silent entity as working: what it is about to      *)
(* answer with, and is neither marked as silent nor out of service, was heard *)
(* of within the threshold before the listing began, whatever registers, sends*)
(* heartbeats or is taken out while the thread walks the registry             *)
(* (registry.py:263-284, 329-346; docs/ECOSYSTEM_CONTROL_PLANE.md: "Missing   *)
(* telemetry is not reported as healthy").                                    *)
ListedWasHeard ==
    \A r \in Readers : \A o \in readers[r].out :
        objects[o].state \in {"registered", "healthy", "degraded"} =>
            objects[o].seen + StaleAfter >= readers[r].at

(* An entity in quarantine or revoked stays out of service through heartbeats,*)
(* observations and listings, until it registers anew or is removed; only a   *)
(* refresh that looked at it before can bring it back as silent, and the next *)
(* heartbeat then as healthy (registry.py:219-261, 313-346).                  *)
OutUntilRegistered ==
    [][\A e \in Entities :
           Registered(e) /\ EntityOf(e).state \in OutOfService =>
               \/ registry'[e] # registry[e]
               \/ objects'[registry[e]].state \in OutOfService
               \/ \E r \in Readers : /\ readers[r].pc = "write"
                                     /\ readers[r].object = registry[e]
                                     /\ readers'[r].pc # "write"]_vars

(* Asking again changes nothing: what reconcile() answers about an entity     *)
(* changes only by an observation or by a request with a key that nobody has  *)
(* used, so that a retry that arrives late never undoes a newer request, until*)
(* a plane is made anew (state.py:123-131, 158-229).                          *)
RetriesChangeNothing ==
    [][\A e \in Entities :
           Reconcile(desired', observed', e, FALSE) # Reconcile(desired, observed, e, FALSE) =>
               \/ observed' # observed
               \/ desired' = <<>>
               \/ \A i \in DOMAIN desired : desired[i].key # Last(desired').key]_vars

=============================================================================
