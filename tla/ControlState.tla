---------------------------- MODULE ControlState ----------------------------
(* Desired and observed state of the control plane (control/state.py), for    *)
(* one key of the entities: "desired" lists what was asked for in the order   *)
(* of the first request with each idempotency key, "observed" the slots in    *)
(* the order in which they were first written.                                *)
EXTENDS Integers, Sequences, SequencesExt

CONSTANT Extends             \* pairs <<e, f>>: the id of f is the id of e, ":" and more

NoValue == "no value"

\* Mutant of SetDesired: a known key is asked for once more.
SetDesiredMutant(desired, key, e, value) ==
    Append(desired, [key |-> key, entity |-> e, value |-> value])

\* set_desired: a known idempotency key, whoever used it, gets the earlier record.
SetDesired(desired, key, e, value) ==
    IF \E i \in DOMAIN desired : desired[i].key = key THEN desired
    ELSE Append(desired, [key |-> key, entity |-> e, value |-> value])

DesiredOf(desired, e) == SelectSeq(desired, LAMBDA d : d.entity = e)

\* set_observed: a slot keeps its place when its value is replaced.
SetObserved(observed, e, value) ==
    LET slot == [entity |-> e, value |-> value]
    IN  IF \E i \in DOMAIN observed : observed[i].entity = e
        THEN [i \in DOMAIN observed |-> IF observed[i].entity = e THEN slot ELSE observed[i]]
        ELSE Append(observed, slot)

\* get_observed: slots are found by the prefix "<entity>:", which the slots of an
\* entity with a longer id have too.
ObservedOf(observed, e) ==
    SelectSeq(observed, LAMBDA o : o.entity = e \/ <<e, o.entity>> \in Extends)

LastValue(records) == IF records = <<>> THEN NoValue ELSE Last(records).value

\* reconcile: the outcome and the effective value.
Reconcile(desired, observed, e, canExecute) ==
    LET want == LastValue(DesiredOf(desired, e))
        have == LastValue(ObservedOf(observed, e))
    IN  CASE have = want \/ want = NoValue ->
                [outcome |-> IF have = NoValue THEN "unknown" ELSE "succeeded", effective |-> have]
          [] OTHER -> IF canExecute
                      THEN [outcome |-> "accepted", effective |-> NoValue]
                      ELSE [outcome |-> "requested", effective |-> have]
=============================================================================
