----------------------------- MODULE SnapshotStore -----------------------------
(***************************************************************************)
(* The files of the vector index (mcp_codebase/index/store/chroma.py): the *)
(* active snapshot, the previous one, the staging directories, and the     *)
(* manifest active.json, which names the collection inside the active      *)
(* snapshot and says what it was made from.  Nothing is locked.  A         *)
(* snapshot is a directory with one collection: the units (symbols,        *)
(* sections) of every file.  The operations are the single file-system     *)
(* steps of the store; the module Index strings them together.             *)
(***************************************************************************)
EXTENDS Naturals, FiniteSets

CONSTANTS
    File,          \* the indexable files of the repository
    Content,       \* what a file may hold,
    None,          \* or that there is no file; no directory; no collection
    Coll,          \* collection names (uuids)
    Writer,        \* the processes that write snapshots
    MaxStaging     \* _MAX_STAGING_DIRS

ASSUME StoreAssumption ==
    /\ None \notin Content \cup Coll
    /\ MaxStaging \in Nat \ {0}
    /\ IsFiniteSet(Writer)

VARIABLES
    active,        \* the directory "active": a snapshot, or None
    previous,      \* the directory "previous", which nobody reads: "none", or
                   \* "good", or "other" when its snapshot is not whole
    staging,       \* the writers whose staging directory is there; what is in
                   \* it they keep in their own state
    litter,        \* the number of directories left by writers that died
    manifest       \* active.json

storeVars == <<active, previous, staging, litter, manifest>>

\* What the files hold, by file, and the units made from it.
Tree == [File -> Content \cup {None}]
UnitsOf(c) == IF c = None THEN {} ELSE {c}
Units(tree) == [f \in File |-> UnitsOf(tree[f])]
NoUnits == [f \in File |-> {}]

\* whole: every record is there, and all come from one writing.
Snapshot == [coll : Coll \cup {None}, units : [File -> SUBSET Content], whole : BOOLEAN]

\* A directory somebody made and put nothing into.
Blank == [coll |-> None, units |-> NoUnits, whole |-> FALSE]
Full(c, u) == [coll |-> c, units |-> u, whole |-> TRUE]

Absent == [is |-> "absent"]
Torn == [is |-> "torn"]

StoreInit ==
    /\ active = None /\ previous = "none"
    /\ staging = {} /\ litter = 0
    /\ manifest = Absent

(***************************************************************************)
(* Reading: _load_active_metadata, then _open_collection.  Opening makes   *)
(* the directory if somebody has just moved it away.                       *)
(***************************************************************************)
ManifestReadable == manifest.is # "torn"
NoIndex == manifest.is = "absent" \/ active = None

Openable(coll) == active # None /\ active.coll = coll

OpenTouches == active' = IF active = None THEN Blank ELSE active

(***************************************************************************)
(* _prune_orphaned_staging_dirs keeps the newest; a clone has the time of  *)
(* its source, so any may be the oldest.                                   *)
(***************************************************************************)
AllStaged == litter + Cardinality(staging)

\* Mutant: one more than the bound is kept.
Prune_OneMore ==
    \E keep \in SUBSET staging, left \in 0 .. litter :
        /\ left + Cardinality(keep) =
                (IF AllStaged > MaxStaging + 1 THEN MaxStaging + 1 ELSE AllStaged)
        /\ staging' = keep /\ litter' = left

Prune ==
    \E keep \in SUBSET staging, left \in 0 .. litter :
        /\ left + Cardinality(keep) =
                (IF AllStaged > MaxStaging THEN MaxStaging ELSE AllStaged)
        /\ staging' = keep /\ litter' = left

MakeStaging(p) == staging' = staging \cup {p} /\ UNCHANGED litter
DropStaging(p) == staging' = staging \ {p} /\ UNCHANGED litter

\* Its writer dies.
AbandonStaging(p) ==
    /\ staging' = staging \ {p}
    /\ litter' = IF p \in staging THEN litter + 1 ELSE litter

(***************************************************************************)
(* _activate_snapshot: three steps on directories.  Moving onto a          *)
(* directory that exists puts the source inside it, where nobody looks.    *)
(***************************************************************************)
DropPrevious == previous' = "none"

Retire ==
    /\ active' = None
    /\ previous' = IF active = None \/ previous # "none" THEN previous
                   ELSE IF active.whole THEN "good" ELSE "other"

Promotable(p) == p \in staging

Promote(p, snap) ==
    /\ active' = IF active = None THEN snap ELSE active
    /\ DropStaging(p)

\* _write_manifest: write_text empties the file and then writes.
TruncateManifest == manifest' = Torn
FillManifest(m) == manifest' = m

StoreTypeOK ==
    /\ active \in Snapshot \cup {None}
    /\ previous \in {"none", "good", "other"}
    /\ staging \subseteq Writer /\ litter \in Nat
    /\ manifest.is \in {"absent", "torn", "ok"}
    /\ manifest.is = "ok" => manifest.coll \in Coll /\ manifest.seen \in Tree
=============================================================================
