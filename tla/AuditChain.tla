----------------------------- MODULE AuditChain -----------------------------
(* The hash-chained audit log of AEGIS-42 (mods/aegis_42/audit.py).  A record *)
(* hash is the number of the append that made the record: distinct bodies     *)
(* hash to distinct numbers, and "intact" says whether the record still       *)
(* hashes to what it stores.                                                  *)
EXTENDS Integers, Sequences

CONSTANT MaxRecords          \* AuditLog(max_records), 2000

ASSUME MaxRecordsAssumption == MaxRecords \in Nat \ {0}

Genesis == 0

\* The records kept after an append: the newest MaxRecords.
Trimmed(log) ==
    IF Len(log) > MaxRecords
    THEN SubSeq(log, Len(log) - MaxRecords + 1, Len(log))
    ELSE log

\* AuditLog.append: the record points at the head of the chain and becomes it.
AppendRecord(audit, body) ==
    [log  |-> Trimmed(Append(audit.log,
                  [hash |-> audit.head + 1, prev |-> audit.head,
                   intact |-> TRUE, body |-> body])),
     head |-> audit.head + 1]

\* Mutant of Verified: the hashes stored are compared, and none is computed anew.
VerifiedMutant(log) ==
    \A i \in DOMAIN log : log[i].prev = (IF i = 1 THEN Genesis ELSE log[i - 1].hash)

\* verify_integrity(): the walk starts from the genesis hash whatever was dropped.
Verified(log) ==
    \A i \in DOMAIN log :
        /\ log[i].prev = (IF i = 1 THEN Genesis ELSE log[i - 1].hash)
        /\ log[i].intact
=============================================================================
