----------------------------- MODULE PieceStore -----------------------------
(***************************************************************************)
(* What one node keeps of one torrent: the dictionaries of its             *)
(* TorrentManager, which a restart loses, and the files of its storage     *)
(* directory, which it keeps.  Bytes are told apart by whether they hash   *)
(* to what the torrent's metadata says: "right" bytes do, "wrong" bytes    *)
(* (damaged, or cut short by a crash in the middle of a write) do not.     *)
(***************************************************************************)
EXTENDS Naturals, FiniteSets

CONSTANTS
    Nodes,     \* processes with a TorrentManager
    Pieces     \* indexes of the torrent's pieces

ASSUME StoreAssumption == IsFiniteSet(Pieces) /\ Pieces # {}

VARIABLES
    memory,    \* known: torrents; wanted; have; below: the indexes below zero in have,
               \* which count from the end, by the piece they stand for; data: pieces;
               \* pending, with those that timed out in late; backoff
    disk       \* piece: the piece files; file: the complete file; meta: whether
               \* the .meta.json is there

storeVars == <<memory, disk>>

Content == {"none", "wrong", "right"}

Memory == [known: BOOLEAN, wanted: BOOLEAN, have: SUBSET Pieces, below: SUBSET Pieces,
           data: [Pieces -> Content], pending: SUBSET Pieces, late: SUBSET Pieces,
           backoff: SUBSET Pieces]

Disk == [piece: [Pieces -> Content], file: Content, meta: BOOLEAN]

Nothing == [p \in Pieces |-> "none"]
Everything == [p \in Pieces |-> "right"]

Fresh == [known |-> FALSE, wanted |-> FALSE, have |-> {}, below |-> {},
          data |-> Nothing, pending |-> {}, late |-> {}, backoff |-> {}]

\* is_complete compares numbers, an index below zero counts like any other; a torrent
\* it does not know is complete when a complete file is there.
Complete(n) ==
    IF memory[n].known
    THEN Cardinality(memory[n].have) + Cardinality(memory[n].below) = Cardinality(Pieces)
    ELSE disk[n].file # "none"

\* What the node reads to answer a request: memory, the piece file, the complete file.
Read(n, p) ==
    IF memory[n].data[p] # "none" THEN memory[n].data[p]
    ELSE IF disk[n].piece[p] # "none" THEN disk[n].piece[p]
    ELSE disk[n].file

Missing(n) == Pieces \ (memory[n].have \cup memory[n].pending \cup memory[n].backoff)

\* _load_partial_pieces: piece files whose hash fits are taken into memory; those that
\* cannot be read are deleted.
Loaded(m, d, unreadable) ==
    LET found == {p \in Pieces \ unreadable : d.piece[p] = "right"}
    IN  [m EXCEPT !.have = @ \cup found,
                  !.data = [p \in Pieces |-> IF p \in found THEN "right" ELSE @[p]]]

Without(d, unreadable) ==
    [d EXCEPT !.piece = [p \in Pieces |-> IF p \in unreadable THEN "none" ELSE @[p]]]

\* Mutant of ResumedMemory: what is missing is not wanted.
ResumedMemoryMutant(d, unreadable) ==
    IF ~d.meta THEN Fresh
    ELSE [Loaded([Fresh EXCEPT !.known = TRUE], d, unreadable)
             EXCEPT !.have = IF d.file = "right" THEN Pieces ELSE @]

\* Pieces the constructor finds: those of files when the complete file is short, all
\* of them when it has the right size.
ResumedMemory(d, unreadable) ==
    IF ~d.meta THEN Fresh
    ELSE LET loaded == Loaded([Fresh EXCEPT !.known = TRUE], d, unreadable)
         IN  IF d.file = "right" THEN [loaded EXCEPT !.have = Pieces]
                                 ELSE [loaded EXCEPT !.wanted = TRUE]

\* Mutant of ResumedDisk: the size of the complete file is not compared.
ResumedDiskMutant(d, unreadable) ==
    IF d.file # "none" THEN [d EXCEPT !.piece = Nothing]
    ELSE IF d.meta THEN Without(d, unreadable) ELSE d

ResumedDisk(d, unreadable) ==
    IF ~d.meta THEN d
    ELSE IF d.file = "right" THEN [d EXCEPT !.piece = Nothing] ELSE Without(d, unreadable)

Unused == [piece |-> Nothing, file |-> "none", meta |-> FALSE]
Whole == [piece |-> Nothing, file |-> "right", meta |-> TRUE]

\* Some nodes start on a storage directory that has the whole torrent already.
StoreInit(whole) ==
    /\ disk = [n \in Nodes |-> IF n \in whole THEN Whole ELSE Unused]
    /\ memory = [n \in Nodes |-> ResumedMemory(disk[n], {})]

\* The piece is safe from a crash.
OnDisk(n, p) == disk[n].piece[p] = "right" \/ disk[n].file = "right"

StoreTypeOK ==
    /\ memory \in [Nodes -> Memory]
    /\ disk \in [Nodes -> Disk]

=============================================================================
