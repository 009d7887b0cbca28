--------------------------- MODULE Aegis42Proofs ---------------------------
(* The three properties of AEGIS-42, for any events, workers, capacities and  *)
(* durations.  That no event is accepted twice rests on the sizes of the      *)
(* queue and of the memory of ids; that a quarantine lasts, on the limit of   *)
(* the actor, which the audit log does not show; that the chain verifies, on  *)
(* the numbers of the records that were dropped.                              *)
EXTENDS Aegis42, FiniteSetTheorems, TLAPS

Bodies == [kind : {"system", "decision", "containment"}, event : EventIds \cup {"none"},
           actor : Actors \cup {NoActor}, outcome : Outcomes \cup {"none"}, ts : Nat]
Entries == [hash : Nat, prev : Nat, intact : BOOLEAN, body : Bodies]

-----------------------------------------------------------------------------
(* The chain.                                                                *)

\* Record i of a log is number head - Len(log) + i, and only a log that nothing was
\* ever appended to is empty.
Chained(a) ==
    /\ a = [log |-> a.log, head |-> a.head]
    /\ a.head \in Nat /\ a.log \in Seq(Entries) /\ Len(a.log) <= a.head
    /\ a.head > 0 => Len(a.log) > 0
    /\ \A i \in DOMAIN a.log : /\ a.log[i].hash = a.head - Len(a.log) + i
                               /\ a.log[i].prev = a.log[i].hash - 1

\* The records of log b are those of log a from the one after s, and one with this body.
Extended(a, b, s, body) ==
    /\ s \in Nat /\ Len(b.log) + s = Len(a.log) + 1 /\ Len(b.log) > 0
    /\ b.head = a.head + 1
    /\ \A i \in DOMAIN b.log :
          \/ i < Len(b.log) /\ i + s \in DOMAIN a.log /\ b.log[i] = a.log[i + s]
          \/ i = Len(b.log) /\ b.log[i].body = body /\ b.log[i].intact

LEMMA AppendChains ==
    ASSUME NEW a, Chained(a), NEW body \in Bodies
    PROVE  /\ Chained(AppendRecord(a, body))
           /\ \E s \in Nat : Extended(a, AppendRecord(a, body), s, body)
<1> DEFINE entry == [hash |-> a.head + 1, prev |-> a.head, intact |-> TRUE, body |-> body]
           whole == Append(a.log, entry)
           n == Len(a.log) + 1
<1>1. a.head \in Nat /\ a.log \in Seq(Entries) /\ Len(a.log) \in Nat
  BY DEF Chained
<1>2. entry \in Entries
  BY <1>1 DEF Entries
<1>3. /\ whole \in Seq(Entries) /\ Len(whole) = n
      /\ \A i \in 1 .. n : whole[i] = IF i = n THEN entry ELSE a.log[i]
  BY <1>1, <1>2
<1>4. \A i \in 1 .. n : /\ whole[i].hash = a.head + 1 - n + i
                        /\ whole[i].prev = whole[i].hash - 1
  <2> SUFFICES ASSUME NEW i \in 1 .. n
               PROVE  whole[i].hash = a.head + 1 - n + i /\ whole[i].prev = whole[i].hash - 1
    OBVIOUS
  <2>1. n \in Nat /\ n = Len(a.log) + 1 /\ DOMAIN a.log = 1 .. Len(a.log)
    BY <1>1
  <2>2. entry.hash = a.head + 1 /\ entry.prev = a.head
    OBVIOUS
  <2>3. whole[i] = IF i = n THEN entry ELSE a.log[i]
    BY <1>3
  <2> HIDE DEF whole, entry, n
  <2>4. CASE i = n
    BY <1>1, <2>1, <2>2, <2>3, <2>4
  <2>5. CASE i # n
    <3>1. i \in DOMAIN a.log /\ whole[i] = a.log[i]
      BY <1>1, <2>1, <2>3, <2>5
    <3>2. a.log[i].hash = a.head - Len(a.log) + i /\ a.log[i].prev = a.log[i].hash - 1
      BY <3>1 DEF Chained
    <3> QED
      BY <1>1, <2>1, <3>1, <3>2
  <2> QED
    BY <2>4, <2>5
<1>5. n \in Nat /\ n > 0 /\ n <= a.head + 1 /\ MaxRecords \in Nat /\ MaxRecords > 0
  BY <1>1, MaxRecordsAssumption DEF Chained
<1>6. /\ AppendRecord(a, body).head = a.head + 1
      /\ AppendRecord(a, body).log = Trimmed(whole)
      /\ AppendRecord(a, body) = [log |-> AppendRecord(a, body).log,
                                  head |-> AppendRecord(a, body).head]
  BY DEF AppendRecord
<1>7. entry.body = body /\ entry.intact
  OBVIOUS
<1> HIDE DEF whole, entry, n
<1>8. CASE n > MaxRecords
  <2>1. PICK s \in Nat : s = n - MaxRecords
    BY <1>5, <1>8
  <2>2. Trimmed(whole) = SubSeq(whole, s + 1, n)
    BY <1>3, <1>8, <2>1, <1>5 DEF Trimmed
  <2>3. /\ Trimmed(whole) \in Seq(Entries)
        /\ Len(Trimmed(whole)) = MaxRecords
        /\ \A i \in 1 .. MaxRecords : Trimmed(whole)[i] = whole[i + s]
    BY <1>3, <1>5, <2>1, <2>2
  <2>4. Chained(AppendRecord(a, body))
    <3>1. ASSUME NEW i \in 1 .. MaxRecords
          PROVE  /\ Trimmed(whole)[i].hash = a.head + 1 - MaxRecords + i
                 /\ Trimmed(whole)[i].prev = Trimmed(whole)[i].hash - 1
      <4>1. Trimmed(whole)[i] = whole[i + s] /\ i + s \in 1 .. n
        BY <1>5, <2>1, <2>3
      <4>2. whole[i + s].hash = a.head + 1 - n + (i + s) /\ whole[i + s].prev = whole[i + s].hash - 1
        BY <1>4, <4>1
      <4> QED
        BY <1>1, <1>5, <2>1, <4>1, <4>2
    <3>2. DOMAIN Trimmed(whole) = 1 .. MaxRecords
      BY <2>3
    <3> QED
      BY <1>1, <1>5, <1>6, <1>8, <2>3, <3>1, <3>2 DEF Chained
  <2>5. Extended(a, AppendRecord(a, body), s, body)
    <3>1. Len(a.log) + 1 = n /\ DOMAIN a.log = 1 .. Len(a.log)
      BY <1>1 DEF n
    <3>2. PICK b : b = AppendRecord(a, body)
      OBVIOUS
    <3>3. /\ b.head = a.head + 1 /\ b.log \in Seq(Entries) /\ Len(b.log) = MaxRecords
          /\ \A i \in 1 .. MaxRecords : b.log[i] = whole[i + s]
      BY <1>6, <2>3, <3>2
    <3>4. ASSUME NEW i \in 1 .. MaxRecords
          PROVE  \/ i < MaxRecords /\ i + s \in DOMAIN a.log /\ b.log[i] = a.log[i + s]
                 \/ i = MaxRecords /\ b.log[i].body = body /\ b.log[i].intact
      <4>1. b.log[i] = whole[i + s] /\ i + s \in 1 .. n /\ (i + s = n <=> i = MaxRecords)
        BY <1>5, <2>1, <3>3
      <4>2. whole[i + s] = IF i + s = n THEN entry ELSE a.log[i + s]
        BY <1>3, <4>1
      <4> QED
        BY <1>1, <1>5, <1>7, <3>1, <4>1, <4>2
    <3>5. Len(b.log) + s = Len(a.log) + 1 /\ Len(b.log) > 0 /\ DOMAIN b.log = 1 .. MaxRecords
      BY <1>5, <2>1, <3>1, <3>3
    <3> QED
      BY <3>2, <3>3, <3>4, <3>5 DEF Extended
  <2> QED
    BY <2>4, <2>5
<1>9. CASE n <= MaxRecords
  <2>1. Trimmed(whole) = whole
    BY <1>3, <1>5, <1>9 DEF Trimmed
  <2>2. Chained(AppendRecord(a, body))
    BY <1>1, <1>3, <1>4, <1>5, <1>6, <2>1 DEF Chained
  <2>3. Extended(a, AppendRecord(a, body), 0, body)
    <3>1. Len(a.log) + 1 = n /\ DOMAIN a.log = 1 .. Len(a.log)
      BY <1>1 DEF n
    <3> QED
      BY <1>1, <1>3, <1>5, <1>6, <1>7, <2>1, <3>1 DEF Extended
  <2> QED
    BY <2>2, <2>3
<1> QED
  BY <1>5, <1>8, <1>9

LEMMA ChainIsExact == Chained(audit) => IntegrityIsExact
<1> SUFFICES ASSUME Chained(audit) PROVE IntegrityIsExact
  OBVIOUS
<1>1. Len(audit.log) \in Nat /\ audit.head \in Nat /\ DOMAIN audit.log = 1 .. Len(audit.log)
  BY DEF Chained
<1>2. CASE Len(audit.log) = audit.head
  <2>1. \A i \in DOMAIN audit.log :
            audit.log[i].prev = (IF i = 1 THEN Genesis ELSE audit.log[i - 1].hash)
    <3> SUFFICES ASSUME NEW i \in DOMAIN audit.log
                 PROVE  audit.log[i].prev = (IF i = 1 THEN Genesis ELSE audit.log[i - 1].hash)
      OBVIOUS
    <3>1. i \in Nat /\ audit.log[i].prev = i - 1
      <4>1. i \in Nat
        BY <1>1
      <4>2. /\ audit.log[i].hash = audit.head - Len(audit.log) + i
            /\ audit.log[i].prev = audit.log[i].hash - 1
        BY DEF Chained
      <4> QED
        BY <1>1, <1>2, <4>1, <4>2
    <3>2. i # 1 => audit.log[i - 1].hash = i - 1
      <4>1. i # 1 => i - 1 \in DOMAIN audit.log
        BY <1>1
      <4> QED
        BY <1>1, <1>2, <3>1, <4>1 DEF Chained
    <3> QED
      BY <3>1, <3>2 DEF Genesis
  <2> QED
    BY <1>2, <2>1 DEF IntegrityIsExact, Verified
<1>3. CASE Len(audit.log) # audit.head
  <2>1. 1 \in DOMAIN audit.log /\ audit.log[1].prev # Genesis
    BY <1>1, <1>3 DEF Chained, Genesis
  <2> QED
    BY <1>3, <2>1 DEF IntegrityIsExact, Verified
<1> QED
  BY <1>2, <1>3

-----------------------------------------------------------------------------
(* Quarantines.                                                              *)

\* Record i of a log is of a quarantine that no operator has overruled.
Quarantine(log, i, ov) ==
    /\ i \in DOMAIN log /\ log[i].body.kind = "containment"
    /\ log[i].body.actor \notin ov

\* Until a quarantine is over, the actor's limit holds at least as long.
Held(log, lim, t, ov) ==
    \A i \in DOMAIN log : Quarantine(log, i, ov) =>
        /\ log[i].body.actor \in Actors
        /\ \/ lim[log[i].body.actor] >= log[i].body.ts + QuarantineFor
           \/ t > log[i].body.ts + QuarantineFor

\* QuarantineHolds, of any log.
Lasts(log, ov) ==
    \A i, j \in DOMAIN log :
        /\ i < j /\ Quarantine(log, i, ov) /\ log[j].body.kind = "decision"
        /\ log[j].body.actor = log[i].body.actor
        /\ log[j].body.ts <= log[i].body.ts + QuarantineFor
        => log[j].body.outcome = "rate_limit"

LogInv(a, lim, t, ov) ==
    /\ t \in Nat /\ lim \in [Actors -> Int] /\ Chained(a)
    /\ Held(a.log, lim, t, ov) /\ Lasts(a.log, ov)

\* What a record may say for the log to stay good.
Permitted(a, lim, t, ov, body) ==
    /\ body \in Bodies
    /\ body.kind = "decision" =>
          \/ body.outcome = "rate_limit"
          \/ \A i \in DOMAIN a.log :
                Quarantine(a.log, i, ov) /\ a.log[i].body.actor = body.actor =>
                    body.ts > a.log[i].body.ts + QuarantineFor
    /\ body.kind = "containment" =>
          body.actor \in Actors /\ lim[body.actor] >= body.ts + QuarantineFor

LEMMA AppendKeeps ==
    ASSUME NEW a, NEW lim, NEW t, NEW ov, NEW body,
           LogInv(a, lim, t, ov), Permitted(a, lim, t, ov, body)
    PROVE  LogInv(AppendRecord(a, body), lim, t, ov)
<1>1. PICK b : b = AppendRecord(a, body)
  OBVIOUS
<1>2. Chained(a) /\ body \in Bodies
  BY DEF LogInv, Permitted
<1>3. PICK s \in Nat : Chained(b) /\ Extended(a, b, s, body)
  BY <1>1, <1>2, AppendChains
<1>4. /\ Len(a.log) \in Nat /\ Len(b.log) \in Nat
      /\ DOMAIN a.log = 1 .. Len(a.log) /\ DOMAIN b.log = 1 .. Len(b.log)
  BY <1>2, <1>3 DEF Chained
<1>5. ASSUME NEW i \in DOMAIN b.log
      PROVE  \/ i < Len(b.log) /\ i + s \in DOMAIN a.log /\ b.log[i] = a.log[i + s]
             \/ i = Len(b.log) /\ b.log[i].body = body
  BY <1>3 DEF Extended
<1>6. \A i \in DOMAIN a.log : a.log[i].body.ts \in Nat
  <2> SUFFICES ASSUME NEW i \in DOMAIN a.log PROVE a.log[i].body.ts \in Nat
    OBVIOUS
  <2>1. a.log[i] \in Entries
    BY <1>2 DEF Chained
  <2> QED
    BY <2>1 DEF Entries, Bodies
<1>7. Held(b.log, lim, t, ov)
  <2> SUFFICES ASSUME NEW i \in DOMAIN b.log, Quarantine(b.log, i, ov)
               PROVE  /\ b.log[i].body.actor \in Actors
                      /\ \/ lim[b.log[i].body.actor] >= b.log[i].body.ts + QuarantineFor
                         \/ t > b.log[i].body.ts + QuarantineFor
    BY DEF Held
  <2>1. CASE i + s \in DOMAIN a.log /\ b.log[i] = a.log[i + s]
    BY <2>1 DEF LogInv, Held, Quarantine
  <2>2. CASE b.log[i].body = body
    BY <2>2 DEF Permitted, Quarantine
  <2> QED
    BY <1>5, <2>1, <2>2
<1>8. Lasts(b.log, ov)
  <2> SUFFICES ASSUME NEW i \in DOMAIN b.log, NEW j \in DOMAIN b.log,
                      i < j, Quarantine(b.log, i, ov), b.log[j].body.kind = "decision",
                      b.log[j].body.actor = b.log[i].body.actor,
                      b.log[j].body.ts <= b.log[i].body.ts + QuarantineFor
               PROVE  b.log[j].body.outcome = "rate_limit"
    BY DEF Lasts
  <2>1. i + s \in DOMAIN a.log /\ b.log[i] = a.log[i + s]
    BY <1>4, <1>5
  <2>2. Quarantine(a.log, i + s, ov)
    BY <2>1 DEF Quarantine
  <2>3. CASE j + s \in DOMAIN a.log /\ b.log[j] = a.log[j + s]
    <3>1. i + s < j + s
      BY <1>4
    <3> QED
      BY <2>1, <2>2, <2>3, <3>1 DEF LogInv, Lasts
  <2>4. CASE b.log[j].body = body
    <3>1. ~ (body.ts > a.log[i + s].body.ts + QuarantineFor)
      <4>1. body.ts \in Nat /\ a.log[i + s].body.ts \in Nat /\ QuarantineFor \in Nat
        BY <1>2, <1>6, <2>1, TimesAssumption DEF Bodies
      <4> QED
        BY <4>1, <2>1, <2>4
    <3> QED
      BY <2>1, <2>2, <2>4, <3>1 DEF Permitted
  <2> QED
    BY <1>5, <2>3, <2>4
<1> QED
  BY <1>1, <1>3, <1>7, <1>8 DEF LogInv

LogGood == LogInv(audit, limits, now, overruled)

LEMMA EvaluateOutcome ==
    ASSUME NEW event, NEW caps, NEW trusted
    PROVE  Evaluate(event, caps, trusted) \in Outcomes
BY DEF Evaluate, Outcomes, RuleOutcome, RuleTypes

LEMMA RecordBody ==
    ASSUME now \in Nat, NEW id \in EventIds \cup {"none"}, NEW a \in Actors \cup {NoActor},
           NEW kind \in {"system", "decision", "containment"},
           NEW outcome \in Outcomes \cup {"none"}
    PROVE  /\ Record(kind, id, a, outcome) \in Bodies
           /\ Record(kind, id, a, outcome).kind = kind
           /\ Record(kind, id, a, outcome).actor = a
           /\ Record(kind, id, a, outcome).outcome = outcome
           /\ Record(kind, id, a, outcome).ts = now
BY DEF Record, Bodies

\* Nobody who is not limited has a quarantine left.
LEMMA LimitIsOver ==
    ASSUME LogGood, NEW i, Quarantine(audit.log, i, overruled),
           ~IsRateLimited(audit.log[i].body.actor), audit.log[i].body.actor # NoActor
    PROVE  now > audit.log[i].body.ts + QuarantineFor
<1>1. PICK c : c = audit.log[i].body
  OBVIOUS
<1>2. c \in Bodies /\ now \in Nat /\ limits \in [Actors -> Int]
  <2>1. audit.log[i] \in Entries
    BY DEF LogGood, LogInv, Chained, Quarantine
  <2> QED
    BY <1>1, <2>1 DEF Entries, LogGood, LogInv
<1>3. /\ c.actor \in Actors
      /\ limits[c.actor] >= c.ts + QuarantineFor \/ now > c.ts + QuarantineFor
  BY <1>1 DEF LogGood, LogInv, Held, Quarantine
<1>4. c.ts \in Nat /\ limits[c.actor] \in Int /\ QuarantineFor \in Nat
  BY <1>2, <1>3, TimesAssumption DEF Bodies
<1>5. limits[c.actor] = NoLimit \/ now > limits[c.actor]
  BY <1>1, <1>2, <1>4 DEF IsRateLimited
<1> QED
  BY <1>1, <1>2, <1>3, <1>4, <1>5 DEF NoLimit

LEMMA HandleKeeps ==
    ASSUME LogGood, NEW id \in EventIds, NEW event, event.actor = EventOf[id].actor,
           Handle(id, event), UNCHANGED <<now, overruled>>
    PROVE  LogGood'
<1>1. PICK a : a = event.actor
  OBVIOUS
<1>2. a \in Actors \cup {NoActor}
  BY <1>1 DEF Actors
<1>3. now \in Nat /\ QuarantineFor \in Nat /\ ToolLimitFor \in Nat
  BY TimesAssumption DEF LogGood, LogInv
<1>4. CASE IsRateLimited(a)
  <2>1. PICK d : d = Record("decision", id, a, "rate_limit")
    OBVIOUS
  <2>2. Permitted(audit, limits, now, overruled, d)
    BY <1>2, <1>3, <2>1, RecordBody DEF Permitted, Outcomes
  <2>3. audit' = AppendRecord(audit, d) /\ limits' = limits
    BY <1>1, <1>4, <2>1 DEF Handle
  <2> QED
    BY <2>2, <2>3, AppendKeeps DEF LogGood
<1>5. CASE ~IsRateLimited(a)
  <2>1. PICK outcome : outcome = Evaluate(event, CapabilitiesOf(a), IsTrusted(a))
    OBVIOUS
  <2>2. outcome \in Outcomes
    BY <2>1, EvaluateOutcome
  <2>3. PICK d, c : /\ d = Record("decision", id, a, outcome)
                    /\ c = Record("containment", id, a, outcome)
    OBVIOUS
  <2>4. /\ d \in Bodies /\ d.kind = "decision" /\ d.actor = a /\ d.ts = now
        /\ c \in Bodies /\ c.kind = "containment" /\ c.actor = a /\ c.ts = now
    BY <1>2, <1>3, <2>2, <2>3, RecordBody
  <2>5. /\ limits' \in [Actors -> Int]
        /\ \A b \in Actors : b # a => limits'[b] = limits[b]
        /\ outcome = "quarantine" /\ a # NoActor => limits'[a] = now + QuarantineFor
    <3>1. PICK t : t = CASE outcome = "quarantine" -> now + QuarantineFor
                         [] outcome = "deny" /\ event.type = "tool" -> now + ToolLimitFor
                         [] OTHER -> NoLimit
      OBVIOUS
    <3>2. limits' = IF a = NoActor THEN limits ELSE [limits EXCEPT ![a] = t]
      BY <1>1, <1>5, <2>1, <3>1 DEF Handle
    <3>3. t \in Int /\ (outcome = "quarantine" => t = now + QuarantineFor)
      BY <1>3, <3>1 DEF NoLimit
    <3> QED
      BY <1>2, <3>1, <3>2, <3>3 DEF LogGood, LogInv
  <2>6. \A i : Quarantine(audit.log, i, overruled) /\ audit.log[i].body.actor = a =>
                  now > audit.log[i].body.ts + QuarantineFor
    <3> SUFFICES ASSUME NEW i, Quarantine(audit.log, i, overruled), audit.log[i].body.actor = a
                 PROVE  now > audit.log[i].body.ts + QuarantineFor
      OBVIOUS
    <3>1. a # NoActor
      BY DEF LogGood, LogInv, Held, Quarantine, Actors
    <3> QED
      BY <1>5, <3>1, LimitIsOver
  <2>7. LogInv(audit, limits', now, overruled)
    <3>1. Held(audit.log, limits', now, overruled)
      BY <2>5, <2>6 DEF LogGood, LogInv, Held
    <3> QED
      BY <2>5, <3>1 DEF LogGood, LogInv
  <2>8. PICK b : b = AppendRecord(audit, d)
    OBVIOUS
  <2>9. LogInv(b, limits', now, overruled)
    <3>1. Permitted(audit, limits', now, overruled, d)
      BY <2>4, <2>6 DEF Permitted
    <3> QED
      BY <2>7, <2>8, <3>1, AppendKeeps
  <2>10. audit' = IF outcome = "quarantine" /\ a # NoActor THEN AppendRecord(b, c) ELSE b
    BY <1>1, <1>5, <2>1, <2>3, <2>8 DEF Handle
  <2>11. CASE outcome = "quarantine" /\ a # NoActor
    <3>1. Permitted(b, limits', now, overruled, c)
      BY <1>2, <1>3, <2>4, <2>5, <2>11 DEF Permitted
    <3> QED
      BY <2>9, <2>10, <2>11, <3>1, AppendKeeps DEF LogGood
  <2>12. CASE ~ (outcome = "quarantine" /\ a # NoActor)
    BY <2>9, <2>10, <2>12 DEF LogGood
  <2> QED
    BY <2>11, <2>12
<1> QED
  BY <1>4, <1>5

LEMMA SystemKeeps ==
    ASSUME LogGood, audit' = AppendRecord(audit, SystemRecord),
           UNCHANGED <<limits, now, overruled>>
    PROVE  LogGood'
<1>1. Permitted(audit, limits, now, overruled, SystemRecord)
  BY RecordBody DEF SystemRecord, Permitted, LogGood, LogInv
<1> QED
  BY <1>1, AppendKeeps DEF LogGood

LEMMA IngestKeeps ==
    ASSUME LogGood, NEW id \in EventIds, IngestEvent(id), UNCHANGED <<now, overruled>>
    PROVE  LogGood'
<1>1. CASE Handle(id, ReplayOf(id))
  BY <1>1, HandleKeeps DEF ReplayOf
<1>2. CASE Handle(id, EventOf[id])
  BY <1>2, HandleKeeps
<1>3. CASE audit' = AppendRecord(audit, SystemRecord) /\ UNCHANGED limits
  BY <1>3, SystemKeeps
<1> QED
  BY <1>1, <1>2, <1>3 DEF IngestEvent

\* Time passes, an operator sets a limit, or a record is changed in place.
LEMMA TickKeeps ==
    ASSUME LogGood, Tick
    PROVE  LogGood'
<1>1. now \in Nat /\ now' = now + 1 /\ UNCHANGED <<audit, limits, overruled>>
  BY DEF Tick, LogGood, LogInv
<1>2. \A i \in DOMAIN audit.log : audit.log[i].body.ts + QuarantineFor \in Nat
  <2> SUFFICES ASSUME NEW i \in DOMAIN audit.log
               PROVE  audit.log[i].body.ts + QuarantineFor \in Nat
    OBVIOUS
  <2>1. audit.log[i] \in Entries
    BY DEF LogGood, LogInv, Chained
  <2> QED
    BY <2>1, TimesAssumption DEF Entries, Bodies
<1>3. Held(audit.log, limits, now + 1, overruled)
  BY <1>1, <1>2 DEF LogGood, LogInv, Held
<1> QED
  BY <1>1, <1>3 DEF LogGood, LogInv

LEMMA OperatorKeeps ==
    ASSUME LogGood, NEW a \in Workers, NEW ticks \in {ToolLimitFor, QuarantineFor},
           OperatorLimits(a, ticks)
    PROVE  LogGood'
<1>1. /\ limits' = [limits EXCEPT ![a] = now + ticks] /\ overruled' = overruled \cup {a}
      /\ UNCHANGED <<audit, now>> /\ now + ticks \in Int
  BY TimesAssumption DEF OperatorLimits, LogGood, LogInv
<1>2. limits' \in [Actors -> Int] /\ \A b \in Actors : b # a => limits'[b] = limits[b]
  BY <1>1 DEF LogGood, LogInv
<1>3. \A i : Quarantine(audit.log, i, overruled') =>
                Quarantine(audit.log, i, overruled) /\ audit.log[i].body.actor # a
  BY <1>1 DEF Quarantine
<1>4. Held(audit.log, limits', now, overruled')
  BY <1>2, <1>3 DEF LogGood, LogInv, Held
<1>5. Lasts(audit.log, overruled')
  BY <1>3 DEF LogGood, LogInv, Lasts
<1> QED
  BY <1>1, <1>2, <1>4, <1>5 DEF LogGood, LogInv

LEMMA TamperKeeps ==
    ASSUME LogGood, NEW k \in DOMAIN audit.log, Tamper(k)
    PROVE  LogGood'
<1>1. PICK log : log = [audit.log EXCEPT ![k].intact = FALSE]
  OBVIOUS
<1>2. audit' = [audit EXCEPT !.log = log] /\ UNCHANGED <<limits, now, overruled>>
  BY <1>1 DEF Tamper
<1>3. audit = [log |-> audit.log, head |-> audit.head]
  BY DEF LogGood, LogInv, Chained
<1>4. audit'.log = log /\ audit'.head = audit.head
  BY <1>2, <1>3
<1>5. audit.log \in Seq(Entries) /\ audit.log[k] \in Entries
  BY DEF LogGood, LogInv, Chained
<1>6. /\ log \in Seq(Entries) /\ Len(log) = Len(audit.log) /\ DOMAIN log = DOMAIN audit.log
      /\ \A i \in DOMAIN log : /\ log[i].hash = audit.log[i].hash
                               /\ log[i].prev = audit.log[i].prev
                               /\ log[i].body = audit.log[i].body
  <2>1. PICK e : e = [audit.log[k] EXCEPT !.intact = FALSE]
    OBVIOUS
  <2>2. /\ e \in Entries /\ e.hash = audit.log[k].hash
        /\ e.prev = audit.log[k].prev /\ e.body = audit.log[k].body
    BY <1>5, <2>1 DEF Entries
  <2>3. log = [audit.log EXCEPT ![k] = e]
    BY <1>1, <2>1
  <2>4. log \in Seq(Entries) /\ Len(log) = Len(audit.log) /\ DOMAIN log = DOMAIN audit.log
    BY <1>5, <2>2, <2>3
  <2>5. \A i \in DOMAIN log : log[i] = IF i = k THEN e ELSE audit.log[i]
    BY <1>5, <2>3, <2>4
  <2> QED
    BY <2>2, <2>4, <2>5
<1>7. Chained(audit')
  <2>1. PICK b : b = audit'
    OBVIOUS
  <2>2. b = [log |-> b.log, head |-> b.head] /\ b.log = log /\ b.head = audit.head
    BY <1>2, <1>3, <1>4, <2>1
  <2>3. Chained(audit)
    BY DEF LogGood, LogInv
  <2>4. Chained(b)
    BY <1>6, <2>2, <2>3 DEF Chained
  <2> QED
    BY <2>1, <2>4
<1>8. \A i : Quarantine(log, i, overruled) => Quarantine(audit.log, i, overruled)
  BY <1>6 DEF Quarantine
<1>9. Held(log, limits, now, overruled)
  BY <1>6, <1>8 DEF LogGood, LogInv, Held, Quarantine
<1>10. Lasts(log, overruled)
  BY <1>6, <1>8 DEF LogGood, LogInv, Lasts
<1> QED
  BY <1>2, <1>4, <1>7, <1>9, <1>10 DEF LogGood, LogInv

LEMMA NextKeepsLog ==
    ASSUME LogGood, [Next]_vars
    PROVE  LogGood'
<1>1. ASSUME NEW id \in EventIds, Ingest(id) PROVE LogGood'
  BY <1>1, IngestKeeps DEF Ingest
<1>2. ASSUME NEW id \in EventIds, NEW caps \in SUBSET Caps, OnWorkerCreated(id, caps)
      PROVE  LogGood'
  BY <1>2, IngestKeeps DEF OnWorkerCreated
<1>3. ASSUME UNCHANGED <<now, limits, audit, overruled>> PROVE LogGood'
  BY <1>3 DEF LogGood
<1>4. ASSUME NEW i, NEW c, NEW by, NEW until, GrantCapability(i, c, by, until) PROVE LogGood'
  BY <1>3, <1>4 DEF GrantCapability
<1>5. ASSUME NEW i, NEW c, OperatorRevokesCapability(i, c) PROVE LogGood'
  BY <1>3, <1>5 DEF OperatorRevokesCapability
<1>6. ASSUME NEW i, OperatorRevokesIdentity(i) PROVE LogGood'
  BY <1>3, <1>6 DEF OperatorRevokesIdentity
<1>7. CASE StartStop
  BY <1>7, SystemKeeps DEF StartStop
<1>8. CASE UNCHANGED vars
  BY <1>3, <1>8 DEF vars
<1> QED
  BY <1>1, <1>2, <1>4, <1>5, <1>6, <1>7, <1>8, TickKeeps, OperatorKeeps, TamperKeeps DEF Next

LEMMA InitLog == Init => LogGood
BY DEF Init, LogGood, LogInv, Chained, Held, Lasts, Genesis, NoLimit, Quarantine

\* The chain verifies exactly as long as nothing was changed and nothing was dropped
\* (audit.py:78-108), whatever is appended, by whom and for how long.
THEOREM ChainVerifiesExactly == Spec => []IntegrityIsExact
<1>1. LogGood /\ [Next]_vars => LogGood'
  BY NextKeepsLog
<1>2. LogGood => IntegrityIsExact
  BY ChainIsExact DEF LogGood, LogInv
<1> QED
  BY <1>1, <1>2, InitLog, PTL DEF Spec

\* A quarantine lasts for its hour, whatever else the actor does in it
\* (core.py:139-157, containment.py:101-135), for any durations and events.
THEOREM QuarantinesLast == Spec => []QuarantineHolds
<1>1. LogGood /\ [Next]_vars => LogGood'
  BY NextKeepsLog
<1>2. LogGood => QuarantineHolds
  BY DEF LogGood, LogInv, Lasts, QuarantineHolds, Quarantine
<1> QED
  BY <1>1, <1>2, InitLog, PTL DEF Spec

-----------------------------------------------------------------------------
(* The queue.                                                                *)

Queued == {queue[i] : i \in DOMAIN queue}

\* While the queue has room the ids of all its events are remembered.
QueueInv ==
    /\ queue \in Seq(EventIds) /\ Len(queue) <= QueueMax
    /\ AcceptedOnce
    /\ Len(queue) < QueueMax => seen = Queued

LEMMA QueuedIsSmall ==
    ASSUME NEW q \in Seq(EventIds)
    PROVE  LET S == {q[i] : i \in DOMAIN q}
           IN  IsFiniteSet(S) /\ Cardinality(S) \in Nat /\ Cardinality(S) <= Len(q)
<1> DEFINE S == {q[i] : i \in DOMAIN q}
           f == [i \in 1 .. Len(q) |-> q[i]]
<1>1. DOMAIN q = 1 .. Len(q) /\ Len(q) \in Nat
  OBVIOUS
<1>2. IsFiniteSet(1 .. Len(q)) /\ Cardinality(1 .. Len(q)) = Len(q)
  BY <1>1, FS_Interval
<1>3. f \in Surjection(1 .. Len(q), S)
  BY <1>1 DEF Surjection
<1>4. IsFiniteSet(S) /\ Cardinality(S) <= Cardinality(1 .. Len(q))
  <2>1. PICK g : g \in Surjection(1 .. Len(q), S)
    BY <1>3
  <2> HIDE DEF S, f
  <2> QED
    BY <1>2, <2>1, FS_Surjection
<1>5. Cardinality(S) \in Nat
  <2> HIDE DEF S
  <2> QED
    BY <1>4, FS_CardinalityType
<1> QED
  BY <1>2, <1>4, <1>5

LEMMA IngestKeepsQueue ==
    ASSUME QueueInv, NEW id \in EventIds, IngestEvent(id)
    PROVE  QueueInv'
<1>1. QueueMax \in Nat /\ MaxSeen \in Nat /\ QueueMax <= MaxSeen /\ Len(queue) \in Nat
  BY QueueAssumption DEF QueueInv
<1>2. CASE UNCHANGED <<seen, queue>>
  BY <1>2 DEF QueueInv, AcceptedOnce, Queued
<1>3. CASE Len(queue) >= QueueMax /\ UNCHANGED queue
  BY <1>1, <1>3 DEF QueueInv, AcceptedOnce
<1>4. CASE /\ id \notin seen /\ Len(queue) < QueueMax /\ queue' = Append(queue, id)
           /\ \E kept \in SUBSET (seen \cup {id}) : Remembered(id, kept) /\ seen' = kept
  <2>1. queue \in Seq(EventIds) /\ seen = Queued /\ AcceptedOnce
    BY <1>4 DEF QueueInv
  <2>2. /\ queue' \in Seq(EventIds) /\ Len(queue') = Len(queue) + 1
        /\ DOMAIN queue = 1 .. Len(queue) /\ DOMAIN queue' = 1 .. Len(queue')
        /\ \A i \in DOMAIN queue' :
              queue'[i] = IF i = Len(queue') THEN id ELSE queue[i]
    BY <1>4, <2>1
  <2>3. Queued' = seen \cup {id}
    <3>1. \A i \in DOMAIN queue' : queue'[i] \in Queued \cup {id}
      BY <1>1, <2>2 DEF Queued
    <3>2. Len(queue') \in DOMAIN queue' /\ queue'[Len(queue')] = id
      BY <1>1, <2>2
    <3>3. \A i \in DOMAIN queue : i \in DOMAIN queue' /\ queue'[i] = queue[i]
      BY <1>1, <2>2
    <3> QED
      BY <2>1, <3>1, <3>2, <3>3 DEF Queued
  <2>4. Cardinality(seen \cup {id}) \in Nat /\ Cardinality(seen \cup {id}) <= MaxSeen
    BY <1>1, <1>4, <2>2, <2>3, QueuedIsSmall DEF Queued
  <2>5. seen' = seen \cup {id}
    BY <1>1, <1>4, <2>4 DEF Remembered
  <2>6. AcceptedOnce'
    <3> SUFFICES ASSUME NEW i \in DOMAIN queue', NEW j \in DOMAIN queue', queue'[i] = queue'[j]
                 PROVE  i = j
      BY DEF AcceptedOnce
    <3>1. \A m \in DOMAIN queue : queue[m] # id
      BY <1>4, <2>1 DEF Queued
    <3>2. \A m \in DOMAIN queue' : m = Len(queue') \/ m \in DOMAIN queue
      BY <1>1, <2>2
    <3>3. i = Len(queue') <=> j = Len(queue')
      BY <2>2, <3>1, <3>2
    <3> QED
      BY <2>1, <2>2, <3>2, <3>3 DEF AcceptedOnce
  <2> QED
    BY <1>1, <1>4, <2>2, <2>3, <2>5, <2>6 DEF QueueInv
<1> QED
  BY <1>1, <1>2, <1>3, <1>4 DEF IngestEvent

\* No event is accepted twice (core.py:103-130), however often it is ingested, as
\* long as the memory of ids is no smaller than the queue.
THEOREM NothingIsAcceptedTwice == Spec => []AcceptedOnce
<1>1. Init => QueueInv
  BY QueueAssumption DEF Init, QueueInv, AcceptedOnce, Queued
<1>2. QueueInv /\ [Next]_vars => QueueInv'
  <2> SUFFICES ASSUME QueueInv, [Next]_vars PROVE QueueInv'
    OBVIOUS
  <2>1. CASE \E id \in EventIds : IngestEvent(id)
    BY <2>1, IngestKeepsQueue
  <2>2. CASE UNCHANGED <<seen, queue>>
    BY <2>2 DEF QueueInv, AcceptedOnce, Queued
  <2> QED
    BY <2>1, <2>2 DEF Next, vars, Ingest, OnWorkerCreated, GrantCapability, OperatorLimits,
       OperatorRevokesCapability, OperatorRevokesIdentity, Tamper, StartStop, Tick
<1>3. QueueInv => AcceptedOnce
  BY DEF QueueInv
<1> QED
  BY <1>1, <1>2, <1>3, PTL DEF Spec

=============================================================================
