----------------------------- MODULE AssetFabric -----------------------------
(***************************************************************************)
(* One asset behind the facade of mods/asset_fabric/fabric.py: its manifest *)
(* and its history in Redis (history.py), the clock that every event of the *)
(* history is stamped with (btc_clock.py, artifact_clock.py), and what each *)
(* node verified and claims to hold.                                        *)
(*                                                                          *)
(* Callers are threads of the nodes: HTTP handlers and the torrent          *)
(* listener, whose on_complete hook records a finished download.  An        *)
(* operation is a list of steps; an append to the history is two, for it    *)
(* reads the list and writes it back whole.  The anchor record moves as     *)
(* AnchorLifecycle allows, which AssetAnchor implements.                    *)
(***************************************************************************)
EXTENDS Naturals, FiniteSets, Sequences, SequencesExt

CONSTANTS
    Members, Callers,
    NodeOf,       \* the node a caller is a thread of
    Heights,      \* block heights an anchor may be included at
    Enabled,      \* the nodes whose bitcoin clock is enabled
    MaxOps,       \* operations begun
    MaxMoves      \* moves of the anchor and of the environment

ASSUME FabricAssumption ==
    /\ NodeOf \in [Callers -> Members] /\ Enabled \subseteq Members
    /\ Heights \subseteq Nat
    /\ {MaxOps, MaxMoves} \subseteq Nat

VARIABLES
    history,   \* asset:history:<asset>, the list as it is stored
    manifest,  \* asset:manifest:<asset>: "none", or its temporal part, or "plain"
    anchor,    \* the anchor record: its status and its height
    held,      \* the nodes whose transport has all pieces, verified
    tracker,   \* PossessionTracker: the nodes that recorded themselves verified
    claims,    \* the nodes whose possession snapshot lists the asset
    job,       \* what each caller is in the middle of
    overlap,   \* two appends were between their read and their write (history)
    spent      \* operations and moves so far

fabricVars == <<history, manifest, anchor, held, tracker, claims, job, overlap, spent>>

NoEpoch == 0
Idle    == [todo |-> <<>>, op |-> "none", at |-> "read", copy |-> <<>>, epoch |-> NoEpoch]

Lifecycle == INSTANCE AnchorLifecycle WITH Assets <- {"asset"},
                                           status <- [a \in {"asset"} |-> anchor.status]

FabricInit ==
    /\ history = <<>> /\ manifest = "none"
    /\ anchor = [status |-> "NONE", height |-> NoEpoch]
    /\ held = {} /\ tracker = {} /\ claims = {}
    /\ job = [c \in Callers |-> Idle]
    /\ overlap = FALSE
    /\ spent = [ops |-> 0, moves |-> 0]

----------------------------------------------------------------------------
(* The clock of the asset.                                                  *)

(* confidence_from_status, with confirmed only on the canonical chain (which *)
(* the anchor service's CONFIRMED always is, RecordsConsistent of            *)
(* AssetAnchor).                                                             *)
Confidence(status) ==
    CASE status = "NONE" -> "none"
      [] status \in {"REORGED", "RE_ANCHOR_REQUIRED"} -> "reorged"
      [] status = "CONFIRMED" -> "confirmed"
      [] status = "INCLUDED" -> "included"
      [] OTHER -> "pending"

(* from_anchor_record: no coordinates while the record gives no confidence. *)
RecordEpoch == IF Confidence(anchor.status) = "none" THEN NoEpoch ELSE anchor.height

(* get_asset_clock: nor any with the layer off.                             *)
Epoch(n) == IF n \in Enabled THEN RecordEpoch ELSE NoEpoch

(* The service's handle_reorg has moved the anchor of the asset.            *)
Reorged(n) == n \in Enabled /\ Confidence(anchor.status) = "reorged"

----------------------------------------------------------------------------
(* The manifest.                                                            *)

(* get_manifest: what is stored, or else what the transport knows of it.    *)
HasManifest(n) == manifest # "none" \/ n \in held

(* _store_manifest swallows what goes wrong.                                *)
StoreManifest(part) == manifest' \in {part, manifest}

----------------------------------------------------------------------------
(* The history.                                                             *)

\* Mutant of Get: the oldest events are cut off, as in the other lists.
GetMutant == IF Len(history) > 1 THEN Tail(history) ELSE history

(* get sorts the list by the sequence numbers, and equal ones stay as they  *)
(* are: the position of an event is where it ends up.                       *)
Position(s, i) ==
    Cardinality({j \in DOMAIN s : \/ s[j].sequence < s[i].sequence
                                  \/ s[j].sequence = s[i].sequence /\ j <= i})

Get == [k \in DOMAIN history |->
          history[CHOOSE i \in DOMAIN history : Position(history, i) = k]]

HasAnchored(events) == \E i \in DOMAIN events : events[i].type \in {"ANCHORED", "REANCHORED"}

Event(c) ==
    [sequence |-> IF job[c].copy = <<>> THEN 1 ELSE Last(job[c].copy).sequence + 1,
     type |-> Head(job[c].todo), peer |-> NodeOf[c], epoch |-> job[c].epoch]

\* Mutant of Appended: the list is read again when it is written.
AppendedMutant(c) == Append(history, Event(c))

Appended(c) == Append(job[c].copy, Event(c))

EventTypes == {"PUBLISHED", "ANNOUNCED", "REQUESTED", "PIECE_VERIFIED",
               "POSSESSION_VERIFIED", "COMPLETE", "ANCHORED", "REANCHORED"}

Doing(c) == Head(job[c].todo)
Rest(c)  == IF Tail(job[c].todo) = <<>> THEN Idle
            ELSE [job[c] EXCEPT !.todo = Tail(@), !.at = "read", !.copy = <<>>]

ReadHistory(c) ==
    /\ job[c].op # "none" /\ Doing(c) \in EventTypes /\ job[c].at = "read"
    /\ job' = [job EXCEPT ![c].copy = Get, ![c].at = "write"]
    /\ overlap' = (overlap \/ \E d \in Callers : job[d].at = "write")
    /\ UNCHANGED <<history, manifest, anchor, held, tracker, claims, spent>>

Write(c) ==
    /\ job[c].at = "write"
    /\ history' = Appended(c)
    /\ job' = [job EXCEPT ![c] = Rest(c)]
    /\ UNCHANGED <<manifest, anchor, held, tracker, claims, overlap, spent>>

----------------------------------------------------------------------------
(* The operations.                                                          *)

Begin(c, op, todo) ==
    /\ job[c].op = "none" /\ spent.ops < MaxOps
    /\ spent' = [spent EXCEPT !.ops = @ + 1]
    /\ job' = [job EXCEPT ![c] = [Idle EXCEPT !.op = op, !.todo = todo,
                                              !.epoch = Epoch(NodeOf[c])]]
    /\ UNCHANGED <<history, anchor, tracker, claims, overlap>>

RegisterManifest(c) ==
    /\ Begin(c, "register", <<"PUBLISHED">>)
    /\ StoreManifest("plain")
    /\ UNCHANGED held

(* The anchoring is optional, and so is the announcement.                   *)
Publish(c, announce, anchored) ==
    /\ Begin(c, "publish",
             <<"PUBLISHED">> \o (IF announce THEN <<"ANNOUNCED">> ELSE <<>>)
               \o <<"mark", "POSSESSION_VERIFIED">>
               \o (IF anchored THEN <<"anchor", "prior">> ELSE <<>>) \o <<"snapshot">>)
    /\ StoreManifest("plain")
    /\ held' = held \union {NodeOf[c]}

(* With the asset complete it is recorded as verified here and claimed; else *)
(* the transport is asked for it (TorrentSwarm).                             *)
Ensure(c) ==
    /\ Begin(c, "ensure", <<"REQUESTED">> \o
             IF NodeOf[c] \in held THEN <<"mark", "snapshot">> ELSE <<>>)
    /\ UNCHANGED <<manifest, held>>

RecordPieceVerified(c) ==
    /\ NodeOf[c] \in held
    /\ Begin(c, "piece", <<"mark piece", "PIECE_VERIFIED">>)
    /\ UNCHANGED <<manifest, held>>

(* The hook of a finished download, in the node that has it; the claim of a  *)
(* peer is returned as not verified, and changes nothing.                    *)
IngestComplete(c) ==
    /\ NodeOf[c] \in held
    /\ Begin(c, "complete", <<"mark", "COMPLETE", "snapshot">>)
    /\ UNCHANGED <<manifest, held>>

(* Without a manifest anchor_asset raises.                                  *)
AnchorAsset(c) ==
    /\ HasManifest(NodeOf[c])
    /\ Begin(c, "anchor", <<"anchor", "prior">>)
    /\ UNCHANGED <<manifest, held>>

(* handle_reorg: an event for an anchor that it moved.                      *)
HandleReorg(c) ==
    /\ Reorged(NodeOf[c])
    /\ Begin(c, "reorg", <<"REANCHORED">>)
    /\ UNCHANGED <<manifest, held>>

----------------------------------------------------------------------------
(* The other steps of an operation.                                         *)

(* Of the node's own completeness only what has a manifest is recorded.     *)
Mark(c) ==
    /\ job[c].op # "none" /\ Doing(c) \in {"mark", "mark piece"}
    /\ tracker' = IF Doing(c) = "mark piece" \/ HasManifest(NodeOf[c])
                  THEN tracker \union {NodeOf[c]} ELSE tracker
    /\ job' = [job EXCEPT ![c] = Rest(c)]
    /\ UNCHANGED <<history, manifest, anchor, held, claims, overlap, spent>>

(* The anchor service records the asset anew, then its clock is read again  *)
(* and kept with the manifest.                                               *)
Anchor(c) ==
    /\ job[c].op # "none" /\ Doing(c) = "anchor"
    /\ \E e \in {NoEpoch} \union Heights :
          /\ anchor' = IF NodeOf[c] \notin Enabled THEN anchor
                       ELSE [status |-> IF e = NoEpoch THEN "COMMITMENT_PENDING" ELSE "INCLUDED",
                             height |-> e]
          /\ job' = [job EXCEPT ![c] = [Rest(c) EXCEPT !.epoch =
                                           IF NodeOf[c] \in Enabled THEN e ELSE NoEpoch]]
    /\ StoreManifest("temporal")
    /\ UNCHANGED <<history, held, tracker, claims, overlap, spent>>

(* Whether it was anchored before is read before the event is appended.     *)
Prior(c) ==
    /\ job[c].op # "none" /\ Doing(c) = "prior"
    /\ job' = [job EXCEPT ![c].todo =
                 <<IF HasAnchored(Get) THEN "REANCHORED" ELSE "ANCHORED">> \o Tail(@)]
    /\ UNCHANGED <<history, manifest, anchor, held, tracker, claims, overlap, spent>>

Snapshot(c) ==
    /\ job[c].op # "none" /\ Doing(c) = "snapshot"
    /\ claims' = IF NodeOf[c] \in held THEN claims \union {NodeOf[c]} ELSE claims \ {NodeOf[c]}
    /\ job' = [job EXCEPT ![c] = Rest(c)]
    /\ UNCHANGED <<history, manifest, anchor, held, tracker, overlap, spent>>

(* Redis does not answer: the operation ends where it is, but for publish,  *)
(* whose anchoring may fail.                                                *)
Fails(c) ==
    /\ job[c].op # "none"
    /\ job' = [job EXCEPT ![c] =
                 IF @.op = "publish" /\ Doing(c) \in {"anchor", "prior", "ANCHORED", "REANCHORED"}
                 THEN [Idle EXCEPT !.op = "publish", !.todo = <<"snapshot">>]
                 ELSE Idle]
    /\ UNCHANGED <<history, manifest, anchor, held, tracker, claims, overlap, spent>>

----------------------------------------------------------------------------
(* What happens besides.                                                    *)

Moves == spent.moves < MaxMoves /\ spent' = [spent EXCEPT !.moves = @ + 1]

(* The chain and the broadcaster move the anchor; apply_chain_progress of   *)
(* the next reading sees it.                                                *)
AnchorMoves ==
    /\ Moves
    /\ \E s \in Lifecycle!Statuses, h \in {NoEpoch} \union Heights :
          /\ s \in Lifecycle!Transitions[anchor.status]
          /\ (s \in {"INCLUDED", "CONFIRMED"}) => h # NoEpoch
          /\ (s \in {"COMMITMENT_PENDING", "BROADCAST"}) => h = NoEpoch
          /\ anchor' = [status |-> s, height |-> IF s = "INCLUDED" THEN h ELSE anchor.height]
    /\ UNCHANGED <<history, manifest, held, tracker, claims, job, overlap>>

(* A download ends, verified, and the transport calls the hook.             *)
Completes(n) ==
    /\ Moves /\ n \notin held
    /\ held' = held \union {n}
    /\ UNCHANGED <<history, manifest, anchor, tracker, claims, job, overlap>>

(* The manifest's week or a snapshot's two minutes are over.                *)
Expires ==
    /\ Moves
    /\ \/ manifest' = "none" /\ UNCHANGED claims
       \/ UNCHANGED manifest /\ \E n \in claims : claims' = claims \ {n}
    /\ UNCHANGED <<history, anchor, held, tracker, job, overlap>>

(* The process of a node starts again: its tracker and its threads are gone. *)
Restart(n) ==
    /\ Moves
    /\ tracker' = tracker \ {n}
    /\ job' = [c \in Callers |-> IF NodeOf[c] = n THEN Idle ELSE job[c]]
    /\ UNCHANGED <<history, manifest, anchor, held, claims, overlap>>

FabricNext ==
    \/ \E c \in Callers :
          \/ RegisterManifest(c) \/ Ensure(c) \/ RecordPieceVerified(c)
          \/ AnchorAsset(c) \/ HandleReorg(c) \/ IngestComplete(c)
          \/ \E announce, anchored \in BOOLEAN : Publish(c, announce, anchored)
          \/ ReadHistory(c) \/ Write(c) \/ Mark(c) \/ Anchor(c) \/ Prior(c) \/ Snapshot(c) \/ Fails(c)
    \/ AnchorMoves \/ Expires
    \/ \E n \in Members : Completes(n) \/ Restart(n)

FabricSpec == FabricInit /\ [][FabricNext]_fabricVars

----------------------------------------------------------------------------
(* Properties.                                                              *)

(* However appends overlap, stop midway or fail, the stored list is in the  *)
(* order of its sequence numbers, which have neither gap nor duplicate      *)
(* (history.py 116-167).                                                    *)
SequenceIsPosition == \A i \in DOMAIN history : history[i].sequence = i

(* Events are only ever added, as history.py 1-9 says, as long as no two    *)
(* appends are between their reading of the list and their writing: only an *)
(* overlap deletes events.                                                  *)
LossNeedsOverlap == [][overlap \/ IsPrefix(history, history')]_fabricVars
=============================================================================
