------------------------- MODULE ControlPlaneProofs -------------------------
(* The three properties of the control plane, for any entities, adapters,     *)
(* threads, thresholds and bounds.  What a listing promises is about records  *)
(* that others go on changing: the invariant says that a listing never began  *)
(* later than now and lists only records there are, and that nothing was      *)
(* heard later than now, so that whoever beats meanwhile beats in time.       *)
EXTENDS ControlPlane, TLAPS

Working == {"registered", "healthy", "degraded"}
Records == [entity : Entities, adapter : Adapters, seen : Nat, health : Healths, state : States]
Sizes   == {Cardinality(S) : S \in SUBSET Entities} \cup {0}
Listings == [pc : {"idle", "make", "look", "write"}, at : Nat, todo : SUBSET Entities,
             size : Sizes, object : Nat, gone : BOOLEAN, out : SUBSET Nat]

ObjectsType ==
    /\ now \in Nat
    /\ objects \in Seq(Records)
    /\ \A o \in DOMAIN objects : objects[o].seen <= now
    /\ registry \in [Entities -> 0 .. Len(objects)]

Heard(o, at) == objects[o].state \in Working => objects[o].seen + StaleAfter >= at

\* A listing in progress that tells the truth.
True(l) ==
    /\ l \in Listings
    /\ l.at <= now
    /\ l.pc = "write" => l.object \in DOMAIN objects
    /\ \A o \in l.out : o \in DOMAIN objects /\ Heard(o, l.at)

ReadersType == /\ readers \in [Readers -> Listings]
               /\ \A r \in Readers : True(readers[r])

\* The inductive invariant.
CInv == ObjectsType /\ ReadersType

-----------------------------------------------------------------------------
(* What the operators on records return.                                     *)

LEMMA RegisteredRecord ==
    ASSUME ObjectsType, NEW e \in Entities, Registered(e)
    PROVE  registry[e] \in DOMAIN objects /\ EntityOf(e) \in Records
BY DEF ObjectsType, Registered, EntityOf

LEMMA BeatenRecord ==
    ASSUME now \in Nat, NEW x \in Records, NEW h \in Healths \cup {NoValue}
    PROVE  /\ Beaten(x, h) \in Records
           /\ Beaten(x, h).seen = now
           /\ x.state \in OutOfService => Beaten(x, h).state = x.state
BY DEF Beaten, Records, Healths, States, OutOfService, NoValue

LEMMA SilentRecord ==
    ASSUME NEW x \in Records, NEW gone \in BOOLEAN
    PROVE  /\ Silent(x, gone) \in Records
           /\ Silent(x, gone).seen = x.seen
           /\ Silent(x, gone).state \notin Working
BY DEF Silent, Records, Healths, States, OutOfService, Working

LEMMA UpdateObjects ==
    ASSUME ObjectsType, NEW o \in DOMAIN objects, NEW x \in Records, Update(o, x),
           x.seen <= now, UNCHANGED <<now, registry>>
    PROVE  /\ ObjectsType'
           /\ DOMAIN objects' = DOMAIN objects
           /\ objects'[o] = x
           /\ \A i \in DOMAIN objects : i # o => objects'[i] = objects[i]
BY DEF ObjectsType, Update

-----------------------------------------------------------------------------
(* The two ways a step can matter to a listing.                              *)

\* Records change while the listings stand still: what changes is heard of now or
\* does not work.
LEMMA RecordsStep ==
    ASSUME CInv, ObjectsType', readers' = readers, now' \in {now, now + 1},
           \A o \in DOMAIN objects :
               /\ o \in DOMAIN objects'
               /\ \/ objects'[o] = objects[o]
                  \/ objects'[o].seen = now
                  \/ objects'[o].state \notin Working
    PROVE  CInv'
<1>1. now \in Nat /\ StaleAfter \in Nat
  BY ControlAssumption DEF CInv, ObjectsType
<1>2. ASSUME NEW r \in Readers PROVE True(readers[r])'
  <2>1. True(readers[r]) /\ readers[r].at \in Nat
    BY DEF CInv, ReadersType, Listings
  <2>2. ASSUME NEW o \in readers[r].out PROVE o \in DOMAIN objects' /\ Heard(o, readers[r].at)'
    <3>1. o \in DOMAIN objects /\ Heard(o, readers[r].at)
      BY <2>1, <2>2 DEF True
    <3> QED
      BY <1>1, <2>1, <3>1 DEF Heard, True
  <2>3. readers[r].at <= now'
    BY <1>1, <2>1 DEF True
  <2> QED
    BY <2>1, <2>2, <2>3 DEF True
<1> QED
  BY <1>2 DEF CInv, ReadersType

\* A listing goes on while the records stand still.
LEMMA ListingStep ==
    ASSUME CInv, NEW r \in Readers, NEW l, Read(r, l), True(l),
           UNCHANGED <<now, objects>>, registry' \in [Entities -> 0 .. Len(objects)]
    PROVE  CInv'
<1>1. ObjectsType'
  BY DEF CInv, ObjectsType
<1>2. l \in Listings /\ readers' = [readers EXCEPT ![r] = l]
  BY DEF True, Read
<1>3. readers' \in [Readers -> Listings]
  BY <1>2 DEF CInv, ReadersType
<1>4. \A k : True(k) => True(k)'
  BY DEF True, Heard
<1>5. \A q \in Readers : True(readers[q])'
  BY <1>2, <1>4, <1>3 DEF CInv, ReadersType
<1> QED
  BY <1>1, <1>3, <1>5 DEF CInv, ReadersType

-----------------------------------------------------------------------------
(* The invariant.                                                            *)

LEMMA InitCInv == Init => CInv
BY ControlAssumption DEF Init, CInv, ObjectsType, ReadersType, True, Idle, Listings, Sizes, Heard

LEMMA RegisterStep ==
    ASSUME CInv, NEW e \in Entities, NEW a \in Adapters,
           NEW s \in {"registered", "healthy", "unknown"}, Register(e, s, "unknown", a)
    PROVE  /\ CInv' /\ registry' = [registry EXCEPT ![e] = Len(objects) + 1]
           /\ \A o \in DOMAIN objects : o \in DOMAIN objects' /\ objects'[o] = objects[o]
<1>1. PICK x \in Records : objects' = Append(objects, x) /\ x.seen = now
  BY DEF Register, Records, Healths, States, CInv, ObjectsType
<1>2. registry' = [registry EXCEPT ![e] = Len(objects) + 1] /\ UNCHANGED <<now, readers>>
  BY DEF Register
<1>3. /\ objects' \in Seq(Records) /\ Len(objects') = Len(objects) + 1
      /\ \A o \in DOMAIN objects : o \in DOMAIN objects' /\ objects'[o] = objects[o]
      /\ \A o \in DOMAIN objects' : o \in DOMAIN objects \/ objects'[o] = x
  BY <1>1 DEF CInv, ObjectsType
<1>4. ObjectsType'
  BY <1>1, <1>2, <1>3 DEF CInv, ObjectsType
<1> QED
  BY <1>2, <1>3, <1>4, RecordsStep

\* One record is replaced on the event loop.
LEMMA ReplaceStep ==
    ASSUME CInv, NEW e \in Entities, Registered(e), NEW x \in Records, Update(registry[e], x),
           x.seen <= now, x.seen = now \/ x.state \notin Working,
           UNCHANGED <<now, registry, readers>>
    PROVE  CInv'
BY RegisteredRecord, UpdateObjects, RecordsStep DEF CInv

LEMMA BeatStep ==
    ASSUME CInv, NEW e \in Entities, Registered(e), NEW h \in Healths \cup {NoValue},
           Update(registry[e], Beaten(EntityOf(e), h)), UNCHANGED <<now, registry, readers>>
    PROVE  CInv'
<1>1. /\ Beaten(EntityOf(e), h) \in Records
      /\ Beaten(EntityOf(e), h).seen = now /\ now <= now
  BY RegisteredRecord, BeatenRecord DEF CInv, ObjectsType
<1> QED
  BY <1>1, ReplaceStep

LEMMA TakeOutStep ==
    ASSUME CInv, NEW e \in Entities, NEW s \in OutOfService, TakeOut(e, s)
    PROVE  CInv'
<1>1. /\ EntityOf(e) \in Records /\ EntityOf(e).seen <= now
  BY RegisteredRecord DEF TakeOut, CInv, ObjectsType, EntityOf
<1>2. PICK x : x = [EntityOf(e) EXCEPT !.state = s]
  OBVIOUS
<1>3. x \in Records /\ x.seen = EntityOf(e).seen /\ x.state = s
  BY <1>1, <1>2 DEF Records, States
<1>4. x.state \notin Working
  BY <1>3 DEF OutOfService, Working
<1> QED
  BY <1>1, <1>2, <1>3, <1>4, ReplaceStep DEF TakeOut

\* The records stand still, or one of the requests left them alone.
LEMMA QuietStep ==
    ASSUME CInv, UNCHANGED <<now, objects, readers>>,
           registry' \in [Entities -> 0 .. Len(objects)]
    PROVE  CInv'
BY RecordsStep DEF CInv, ObjectsType

LEMMA RequestsStep ==
    ASSUME CInv, Requests
    PROVE  CInv'
<1>1. ASSUME NEW e \in Entities, NEW a \in Adapters,
             NEW s \in {"registered", "healthy", "unknown"}, Register(e, s, "unknown", a)
      PROVE  CInv'
  BY <1>1, RegisterStep
<1>2. ASSUME NEW e \in Entities, NEW h \in {"healthy", "degraded"}, Heartbeat(e, h)
      PROVE  CInv'
  BY <1>2, BeatStep DEF Heartbeat, Healths
<1>3. ASSUME NEW e \in Entities, NEW v \in Values, ReportObserved(e, v)
      PROVE  CInv'
  <2>1. CASE Registered(e)
    BY <1>3, <2>1, BeatStep DEF ReportObserved
  <2>2. CASE ~Registered(e)
    BY <1>3, <2>2, QuietStep DEF ReportObserved, CInv, ObjectsType
  <2> QED
    BY <2>1, <2>2
<1>4. ASSUME NEW e \in Entities, NEW k \in Keys, NEW v \in Values, RequestDesired(k, e, v)
      PROVE  CInv'
  BY <1>4, QuietStep DEF RequestDesired, CInv, ObjectsType
<1>5. ASSUME NEW e \in Entities, NEW a \in Actions, NEW auth \in BOOLEAN, NEW late \in BOOLEAN,
             NEW s \in {"succeeded", "failed"}, SubmitAction(e, a, auth, late, s)
      PROVE  CInv'
  BY <1>5, QuietStep DEF SubmitAction, CInv, ObjectsType
<1> QED
  BY <1>1, <1>2, <1>3, <1>4, <1>5 DEF Requests

\* A listing that has just begun, or is over, says nothing yet.
LEMMA EmptyListing ==
    ASSUME CInv, NEW l \in Listings, l.at <= now, l.pc # "write", l.out = {}
    PROVE  True(l)
BY DEF True

LEMMA IdleListing ==
    ASSUME CInv
    PROVE  /\ Idle \in Listings /\ Idle.at <= now /\ Idle.pc # "write" /\ Idle.out = {}
           /\ True(Idle)
<1>1. Idle \in Listings /\ Idle.at <= now /\ Idle.pc # "write" /\ Idle.out = {}
  BY DEF Idle, Listings, Sizes, CInv, ObjectsType
<1> QED
  BY <1>1, EmptyListing

LEMMA LookStep ==
    ASSUME CInv, NEW r \in Readers, NEW e \in Entities, Look(r, e)
    PROVE  CInv'
<1>1. UNCHANGED <<now, objects, registry>> /\ registry' \in [Entities -> 0 .. Len(objects)]
  BY DEF Look, CInv, ObjectsType
<1>2. True(readers[r]) /\ readers[r] \in Listings /\ readers[r].at \in Nat
  BY DEF CInv, ReadersType, Listings
<1>3. CASE Registered(e) /\ Fresh(EntityOf(e), readers[r].at)
  <2>1. PICK l : l = [readers[r] EXCEPT !.todo = @ \ {e}, !.out = @ \cup {registry[e]}]
    OBVIOUS
  <2>2. /\ l \in Listings /\ l.at = readers[r].at /\ l.pc = "look"
        /\ l.out = readers[r].out \cup {registry[e]}
    <3>1. readers[r].pc = "look" /\ registry[e] \in Nat
      BY DEF Look, CInv, ObjectsType
    <3> QED
      BY <2>1, <3>1, <1>2 DEF Listings
  <2>3. registry[e] \in DOMAIN objects /\ Heard(registry[e], l.at)
    <3>1. EntityOf(e) = objects[registry[e]] /\ EntityOf(e).seen \in Nat
      BY <1>3, RegisteredRecord DEF CInv, EntityOf, Records
    <3>2. registry[e] \in DOMAIN objects
      BY <1>3, RegisteredRecord DEF CInv
    <3> QED
      BY <3>1, <3>2, <1>2, <1>3, <2>2, ControlAssumption DEF Heard, Fresh, Working, OutOfService
  <2>4. True(l)
    BY <2>2, <2>3, <1>2 DEF True
  <2> QED
    BY <2>1, <2>4, <1>1, <1>3, ListingStep DEF Look
<1>4. CASE Registered(e) /\ ~Fresh(EntityOf(e), readers[r].at)
  <2>1. PICK l : l = [readers[r] EXCEPT
                        !.pc = "write", !.todo = @ \ {e}, !.object = registry[e],
                        !.gone = readers[r].at - EntityOf(e).seen > 2 * StaleAfter]
    OBVIOUS
  <2>2. registry[e] \in DOMAIN objects /\ registry[e] \in Nat
    BY <1>4, RegisteredRecord DEF CInv, ObjectsType
  <2>3. (readers[r].at - EntityOf(e).seen > 2 * StaleAfter) \in BOOLEAN
    BY DEF CInv
  <2>4. /\ l \in Listings /\ l.at = readers[r].at /\ l.object = registry[e]
        /\ l.out = readers[r].out
    BY <2>1, <2>2, <2>3, <1>2 DEF Listings
  <2>5. True(l)
    BY <2>2, <2>4, <1>2 DEF True
  <2> QED
    BY <2>1, <2>5, <1>1, <1>4, ListingStep DEF Look
<1>5. CASE ~Registered(e)
  <2>1. PICK l : l = [readers[r] EXCEPT !.todo = @ \ {e}]
    OBVIOUS
  <2>2. True(l)
    BY <2>1, <1>2 DEF True, Listings
  <2> QED
    BY <2>1, <2>2, <1>1, <1>5, ListingStep DEF Look
<1> QED
  BY <1>3, <1>4, <1>5

\* The record written does not work any more, so it may be listed.
LEMMA WriteStep ==
    ASSUME CInv, NEW r \in Readers, WriteSilence(r)
    PROVE  /\ CInv'
           /\ \A o \in DOMAIN objects : o # readers[r].object => objects'[o] = objects[o]
<1>1. PICK o : o = readers[r].object
  OBVIOUS
<1>2. True(readers[r]) /\ readers[r] \in Listings /\ o \in DOMAIN objects /\ o \in Nat
  BY <1>1 DEF WriteSilence, CInv, ReadersType, True, Listings
<1>3. PICK x : x = Silent(objects[o], readers[r].gone)
  OBVIOUS
<1>4. x \in Records /\ x.seen <= now /\ x.state \notin Working
  <2>1. objects[o] \in Records /\ objects[o].seen <= now
    BY <1>2 DEF CInv, ObjectsType
  <2> QED
    BY <1>2, <1>3, <2>1, SilentRecord DEF Listings
<1>5. UNCHANGED <<now, registry>> /\ Update(o, x)
  BY <1>1, <1>3 DEF WriteSilence
<1>6. /\ ObjectsType' /\ DOMAIN objects' = DOMAIN objects /\ objects'[o] = x
      /\ \A i \in DOMAIN objects : i # o => objects'[i] = objects[i]
  BY <1>2, <1>4, <1>5, UpdateObjects DEF CInv
<1>7. PICK l : l = [readers[r] EXCEPT !.pc = "look", !.object = 0, !.gone = FALSE,
                                      !.out = @ \cup {o}]
  OBVIOUS
<1>8. l \in Listings /\ l.at = readers[r].at /\ l.pc = "look" /\ l.out = readers[r].out \cup {o}
  BY <1>2, <1>7 DEF Listings
<1>9. \A k : True(k) => True(k)'
  BY <1>4, <1>5, <1>6 DEF True, Heard
<1>10. True(l)'
  <2>1. \A i \in readers[r].out : (i \in DOMAIN objects /\ Heard(i, l.at))'
    BY <1>2, <1>4, <1>6, <1>8 DEF True, Heard
  <2>2. (o \in DOMAIN objects /\ Heard(o, l.at))'
    BY <1>2, <1>4, <1>6 DEF Heard
  <2> QED
    BY <2>1, <2>2, <1>2, <1>5, <1>8 DEF True
<1>11. readers' = [readers EXCEPT ![r] = l]
  BY <1>1, <1>7 DEF WriteSilence, Read
<1>12. readers' \in [Readers -> Listings]
  BY <1>8, <1>11 DEF CInv, ReadersType
<1>13. \A q \in Readers : True(readers[q])'
  BY <1>9, <1>10, <1>11 DEF CInv, ReadersType
<1> QED
  BY <1>1, <1>6, <1>12, <1>13 DEF CInv, ReadersType

LEMMA ListingsStep ==
    ASSUME CInv, NEW r \in Readers,
           FindNoPlane(r) \/ AssignPlane(r) \/ StartList(r) \/ Fail(r) \/ Respond(r)
    PROVE  CInv'
<1>1. UNCHANGED <<now, objects>> /\ registry' \in [Entities -> 0 .. Len(objects)]
  BY DEF FindNoPlane, AssignPlane, StartList, Fail, Respond, CInv, ObjectsType
<1>2. True(Idle) /\ Idle \in Listings
  BY IdleListing
<1>3. CASE FindNoPlane(r)
  <2>1. PICK l : l = [Idle EXCEPT !.pc = "make"]
    OBVIOUS
  <2>2. l \in Listings /\ l.at = Idle.at /\ l.pc = "make" /\ l.out = Idle.out
    BY <2>1, <1>2 DEF Listings
  <2> QED
    BY <1>1, <1>3, <2>1, <2>2, IdleListing, EmptyListing, ListingStep DEF FindNoPlane
<1>4. CASE StartList(r)
  <2>1. PICK l : l = [Idle EXCEPT !.pc = "look", !.at = now, !.todo = Known,
                                  !.size = Cardinality(Known)]
    OBVIOUS
  <2>2. now \in Nat /\ Known \subseteq Entities /\ Cardinality(Known) \in Sizes
    BY DEF CInv, ObjectsType, Known, Sizes
  <2>3. l \in Listings /\ l.at = now /\ l.pc = "look" /\ l.out = Idle.out
    BY <2>1, <2>2, <1>2 DEF Listings
  <2>4. True(l)
    BY <2>2, <2>3, IdleListing, EmptyListing
  <2> QED
    BY <1>1, <1>4, <2>1, <2>4, ListingStep DEF StartList
<1>5. CASE AssignPlane(r) \/ Fail(r) \/ Respond(r)
  BY <1>1, <1>2, <1>5, ListingStep DEF AssignPlane, Fail, Respond
<1> QED
  BY <1>3, <1>4, <1>5

LEMMA NextCInv == CInv /\ [Next]_vars => CInv'
<1> SUFFICES ASSUME CInv, [Next]_vars PROVE CInv'
  OBVIOUS
<1>1. CASE Requests
  BY <1>1, RequestsStep
<1>2. CASE Listing
  BY <1>2, ListingsStep, LookStep, WriteStep DEF Listing
<1>3. ASSUME NEW a \in Adapters, RegisterAdapter(a) PROVE CInv'
  BY <1>3, QuietStep DEF RegisterAdapter, CInv, ObjectsType
<1>4. ASSUME NEW e \in Entities, NEW s \in OutOfService, TakeOut(e, s) PROVE CInv'
  BY <1>4, TakeOutStep
<1>5. ASSUME NEW e \in Entities, Unregister(e) PROVE CInv'
  BY <1>5, QuietStep DEF Unregister, CInv, ObjectsType
<1>6. CASE Tick
  <2>1. now' = now + 1 /\ UNCHANGED <<objects, registry, readers>>
    BY <1>6 DEF Tick
  <2>2. \A o \in DOMAIN objects : objects[o].seen \in Nat
    <3>1. \A o \in DOMAIN objects : objects[o] \in Records
      BY DEF CInv, ObjectsType
    <3> QED
      BY <3>1 DEF Records
  <2>3. ObjectsType'
    BY <2>1, <2>2 DEF CInv, ObjectsType
  <2> QED
    BY <2>1, <2>3, RecordsStep
<1>7. CASE UNCHANGED vars
  BY <1>7, QuietStep DEF vars, CInv, ObjectsType
<1> QED
  BY <1>1, <1>2, <1>3, <1>4, <1>5, <1>6, <1>7 DEF Next

LEMMA AlwaysCInv == Spec => []CInv
BY InitCInv, NextCInv, PTL DEF Spec

(* Whatever registers, beats or is taken out while a thread walks the         *)
(* registry, no listing shows an entity as working that was silent.           *)
THEOREM ListingsAreHeard == Spec => []ListedWasHeard
<1>1. CInv => ListedWasHeard
  BY DEF CInv, ReadersType, True, Heard, Working, ListedWasHeard
<1> QED
  BY <1>1, AlwaysCInv, PTL

-----------------------------------------------------------------------------
(* Out of service.                                                           *)

\* What a step may do to an entity that is out of service.
StaysOut(e) ==
    \/ registry'[e] # registry[e]
    \/ objects'[registry[e]].state \in OutOfService
    \/ \E r \in Readers : /\ readers[r].pc = "write"
                          /\ readers[r].object = registry[e]
                          /\ readers'[r].pc # "write"

Out(e) == Registered(e) /\ EntityOf(e).state \in OutOfService

\* One record is replaced, and one that is out of service stays so.
LEMMA ReplaceKeepsOut ==
    ASSUME CInv, NEW e \in Entities, Out(e), NEW f \in Entities, Registered(f), NEW x,
           Update(registry[f], x),
           EntityOf(f).state \in OutOfService => x.state \in OutOfService
    PROVE  objects'[registry[e]].state \in OutOfService
<1>1. /\ registry[e] \in DOMAIN objects /\ registry[f] \in DOMAIN objects
      /\ objects' = [objects EXCEPT ![registry[f]] = x]
  BY RegisteredRecord DEF CInv, Out, Update
<1>2. CASE registry[e] = registry[f]
  BY <1>1, <1>2 DEF Out, EntityOf
<1>3. CASE registry[e] # registry[f]
  BY <1>1, <1>3 DEF Out, EntityOf
<1> QED
  BY <1>2, <1>3

LEMMA BeatKeepsOut ==
    ASSUME CInv, NEW e \in Entities, Out(e), NEW f \in Entities, Registered(f),
           NEW h \in Healths \cup {NoValue}, Update(registry[f], Beaten(EntityOf(f), h))
    PROVE  StaysOut(e)
<1>1. EntityOf(f).state \in OutOfService => Beaten(EntityOf(f), h).state \in OutOfService
  BY RegisteredRecord, BeatenRecord DEF CInv, ObjectsType
<1> QED
  BY <1>1, ReplaceKeepsOut DEF StaysOut

LEMMA QuietKeepsOut ==
    ASSUME CInv, NEW e \in Entities, Out(e), objects' = objects
    PROVE  StaysOut(e)
BY DEF Out, EntityOf, StaysOut

LEMMA RequestsKeepOut ==
    ASSUME CInv, NEW e \in Entities, Out(e), Requests
    PROVE  StaysOut(e)
<1>1. ASSUME NEW f \in Entities, NEW a \in Adapters,
             NEW s \in {"registered", "healthy", "unknown"}, Register(f, s, "unknown", a)
      PROVE  StaysOut(e)
  <2>1. registry[e] \in DOMAIN objects
    BY RegisteredRecord DEF CInv, Out
  <2>2. objects'[registry[e]] = objects[registry[e]]
    BY <1>1, <2>1, RegisterStep
  <2> QED
    BY <2>2 DEF Out, EntityOf, StaysOut
<1>2. ASSUME NEW f \in Entities, NEW h \in {"healthy", "degraded"}, Heartbeat(f, h)
      PROVE  StaysOut(e)
  BY <1>2, BeatKeepsOut DEF Heartbeat, Healths
<1>3. ASSUME NEW f \in Entities, NEW v \in Values, ReportObserved(f, v)
      PROVE  StaysOut(e)
  <2>1. CASE Registered(f)
    BY <1>3, <2>1, BeatKeepsOut DEF ReportObserved
  <2>2. CASE ~Registered(f)
    BY <1>3, <2>2, QuietKeepsOut DEF ReportObserved
  <2> QED
    BY <2>1, <2>2
<1>4. ASSUME NEW f \in Entities, NEW k \in Keys, NEW v \in Values, RequestDesired(k, f, v)
      PROVE  StaysOut(e)
  BY <1>4, QuietKeepsOut DEF RequestDesired
<1>5. ASSUME NEW f \in Entities, NEW a \in Actions, NEW auth \in BOOLEAN, NEW late \in BOOLEAN,
             NEW s \in {"succeeded", "failed"}, SubmitAction(f, a, auth, late, s)
      PROVE  StaysOut(e)
  BY <1>5, QuietKeepsOut DEF SubmitAction
<1> QED
  BY <1>1, <1>2, <1>3, <1>4, <1>5 DEF Requests

\* The only way back is a refresh that looked before.
LEMMA WriteKeepsOut ==
    ASSUME CInv, NEW e \in Entities, Out(e), NEW r \in Readers, WriteSilence(r)
    PROVE  StaysOut(e)
<1>1. CASE readers[r].object = registry[e]
  <2>1. readers'[r].pc = "look" /\ readers[r].pc = "write"
    BY DEF WriteSilence, Read, CInv, ReadersType, Listings
  <2> QED
    BY <1>1, <2>1 DEF StaysOut
<1>2. CASE readers[r].object # registry[e]
  <2>1. registry[e] \in DOMAIN objects
    BY RegisteredRecord DEF CInv, Out
  <2>2. objects'[registry[e]] = objects[registry[e]]
    BY <1>2, <2>1, WriteStep
  <2> QED
    BY <2>2 DEF Out, EntityOf, StaysOut
<1> QED
  BY <1>1, <1>2

LEMMA NextKeepsOut ==
    ASSUME CInv, NEW e \in Entities, Out(e), [Next]_vars
    PROVE  StaysOut(e)
<1>1. CASE Requests
  BY <1>1, RequestsKeepOut
<1>2. ASSUME NEW r \in Readers,
             FindNoPlane(r) \/ AssignPlane(r) \/ StartList(r) \/ Fail(r) \/ Respond(r)
      PROVE  StaysOut(e)
  BY <1>2, QuietKeepsOut DEF FindNoPlane, AssignPlane, StartList, Fail, Respond
<1>3. ASSUME NEW r \in Readers, NEW f \in Entities, Look(r, f) PROVE StaysOut(e)
  BY <1>3, QuietKeepsOut DEF Look
<1>4. ASSUME NEW r \in Readers, WriteSilence(r) PROVE StaysOut(e)
  BY <1>4, WriteKeepsOut
<1>5. ASSUME NEW a \in Adapters, RegisterAdapter(a) PROVE StaysOut(e)
  BY <1>5, QuietKeepsOut DEF RegisterAdapter
<1>6. ASSUME NEW f \in Entities, NEW s \in OutOfService, TakeOut(f, s) PROVE StaysOut(e)
  <2>1. EntityOf(f) \in Records
    BY <1>6, RegisteredRecord DEF TakeOut, CInv
  <2>2. [EntityOf(f) EXCEPT !.state = s].state \in OutOfService
    BY <2>1 DEF Records
  <2> QED
    BY <1>6, <2>2, ReplaceKeepsOut DEF TakeOut, StaysOut
<1>7. ASSUME NEW f \in Entities, Unregister(f) PROVE StaysOut(e)
  BY <1>7, QuietKeepsOut DEF Unregister
<1>8. CASE Tick \/ UNCHANGED vars
  BY <1>8, QuietKeepsOut DEF Tick, vars
<1> QED
  BY <1>1, <1>2, <1>3, <1>4, <1>5, <1>6, <1>7, <1>8 DEF Next, Listing

(* Quarantine and revocation outlast heartbeats, observations and listings,   *)
(* but for a refresh that looked at the entity before it was taken out.       *)
THEOREM OutOfServiceLasts == Spec => OutUntilRegistered
<1>1. CInv /\ [Next]_vars =>
          [\A e \in Entities : Out(e) => StaysOut(e)]_vars
  BY NextKeepsOut
<1>2. CInv /\ [Next]_vars =>
          [\A e \in Entities :
              Registered(e) /\ EntityOf(e).state \in OutOfService =>
                  \/ registry'[e] # registry[e]
                  \/ objects'[registry[e]].state \in OutOfService
                  \/ \E r \in Readers : /\ readers[r].pc = "write"
                                        /\ readers[r].object = registry[e]
                                        /\ readers'[r].pc # "write"]_vars
  BY <1>1 DEF Out, StaysOut
<1> QED
  BY <1>2, AlwaysCInv, PTL DEF Spec, OutUntilRegistered

-----------------------------------------------------------------------------
(* Requests made again.                                                      *)

DesiredType == desired \in Seq([key : Keys, entity : Entities, value : Values])

\* What a step may do to the requests.
NewOnly ==
    \/ desired' = desired
    \/ desired' = <<>>
    \/ \A i \in DOMAIN desired : desired[i].key # Last(desired').key

LEMMA RequestIsNew ==
    ASSUME DesiredType, NEW e \in Entities, NEW k \in Keys, NEW v \in Values,
           desired' = SetDesired(desired, k, e, v)
    PROVE  DesiredType' /\ NewOnly
<1>1. CASE \E i \in DOMAIN desired : desired[i].key = k
  BY <1>1 DEF SetDesired, DesiredType, NewOnly
<1>2. CASE ~ \E i \in DOMAIN desired : desired[i].key = k
  <2>1. PICK d \in [key : Keys, entity : Entities, value : Values] :
            d.key = k /\ desired' = Append(desired, d)
    BY <1>2 DEF SetDesired
  <2>2. DesiredType' /\ Last(desired') = d
    BY <2>1 DEF DesiredType, Last
  <2> QED
    BY <1>2, <2>1, <2>2 DEF NewOnly
<1> QED
  BY <1>1, <1>2

LEMMA NextIsNew ==
    ASSUME DesiredType, [Next]_vars
    PROVE  DesiredType' /\ NewOnly
<1>1. CASE UNCHANGED desired
  BY <1>1 DEF DesiredType, NewOnly
<1>2. CASE desired' = <<>>
  BY <1>2 DEF DesiredType, NewOnly
<1>3. ASSUME NEW e \in Entities, NEW k \in Keys, NEW v \in Values, RequestDesired(k, e, v)
      PROVE  DesiredType' /\ NewOnly
  BY <1>3, RequestIsNew DEF RequestDesired
<1>4. CASE Requests
  BY <1>1, <1>3, <1>4 DEF Requests, Register, Heartbeat, ReportObserved, SubmitAction
<1>5. CASE Listing
  BY <1>1, <1>2, <1>5 DEF Listing, FindNoPlane, AssignPlane, StartList, Fail, Look,
                          WriteSilence, Respond
<1> QED
  BY <1>1, <1>4, <1>5 DEF Next, RegisterAdapter, TakeOut, Unregister, Tick, vars

(* Only an observation, or a request with a key nobody has used, changes what *)
(* reconcile() answers, until a plane is made anew.                           *)
THEOREM RetriesAreHarmless == Spec => RetriesChangeNothing
<1>1. Init => DesiredType
  BY DEF Init, DesiredType
<1>2. DesiredType /\ [Next]_vars => DesiredType'
  BY NextIsNew
<1>3. DesiredType /\ [Next]_vars =>
          [\A e \in Entities :
              Reconcile(desired', observed', e, FALSE) # Reconcile(desired, observed, e, FALSE) =>
                  \/ observed' # observed
                  \/ desired' = <<>>
                  \/ \A i \in DOMAIN desired : desired[i].key # Last(desired').key]_vars
  BY NextIsNew DEF NewOnly
<1> QED
  BY <1>1, <1>2, <1>3, PTL DEF Spec, RetriesChangeNothing
=============================================================================
