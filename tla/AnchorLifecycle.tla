-------------------------- MODULE AnchorLifecycle --------------------------
(***************************************************************************)
(* The lifecycle mods/btc_anchor/lifecycle.py promises of an anchor, seen  *)
(* by whoever reads its status: it moves along TRANSITIONS, at most two    *)
(* edges between two readings (the service never stores REORGED, it goes   *)
(* on to RE_ANCHOR_REQUIRED), or the asset is recorded anew.  The edges    *)
(* are those of the table and no others.                                   *)
(***************************************************************************)
CONSTANT Assets
VARIABLE status

Statuses ==
    {"NONE", "COMMITMENT_PENDING", "BROADCAST", "INCLUDED", "CONFIRMED", "REORGED",
     "RE_ANCHOR_REQUIRED"}

\* "NONE" stands for an asset without a record.  UNANCHORED is a status of the
\* code that no stored record ever has.
Transitions ==
    [s \in Statuses |->
        CASE s = "COMMITMENT_PENDING" -> {"BROADCAST", "INCLUDED"}
          [] s = "BROADCAST"          -> {"INCLUDED", "REORGED"}
          [] s = "INCLUDED"           -> {"CONFIRMED", "REORGED"}
          [] s = "CONFIRMED"          -> {"REORGED"}
          [] s = "REORGED"            -> {"RE_ANCHOR_REQUIRED"}
          [] s = "RE_ANCHOR_REQUIRED" -> {"COMMITMENT_PENDING", "BROADCAST", "INCLUDED"}
          [] s = "NONE"               -> {}]

\* transition() raises when this is false.
CanTransition(from, to) == from = to \/ to \in Transitions[from]

Commit(a) == status'[a] = "COMMITMENT_PENDING"

Advance(a) ==
    \E s \in Statuses :
        /\ status[a] # "NONE"
        /\ s \in Transitions[status[a]]
        /\ CanTransition(s, status'[a])

\* What one step may do to the status a reader sees of an asset.
Moved(a) == Commit(a) \/ Advance(a) \/ status'[a] = status[a]

=============================================================================
