------------------------------ MODULE IndexProofs ------------------------------
(***************************************************************************)
(* Proofs about the vector index: what a status may call fresh, what a     *)
(* refresh leaves, how many staging directories there are and, unless a    *)
(* snapshot is retired while it is copied, that nobody reads half of one.  *)
(* They hold for any number of files, contents, writers, readers, edits,   *)
(* commits and crashes.                                                    *)
(***************************************************************************)
EXTENDS Index, FiniteSetTheorems, TLAPS

PC == {"idle", "open", "load", "collect", "stamp", "base", "guard", "make", "fill",
       "drop", "retire", "promote", "truncate", "publish", "wait", "settle", "flush"}

\* The places of a writer that has stamped its metadata, and of one that
\* holds a snapshot.
StampedPC == {"base", "guard", "make", "fill", "drop", "retire", "promote", "truncate",
              "publish"}
FilledPC == {"drop", "retire", "promote"}

Meta == [is : {"ok"}, coll : Coll, head : Nat, sig : SUBSET File, seen : Tree]

Job == [pc : PC, kind : {None, "build", "refresh"}, paths : SUBSET File, got : Tree,
        meta : Meta \cup {Absent}, snap : Snapshot \cup {None}]

\* What the place of a process says of the rest of it.
JobOK(p) ==
    /\ p \in Reader => job[p].pc \in {"idle", "open"}
    /\ job[p].pc \in StampedPC \cup {"open"} => job[p].meta \in Meta
    /\ job[p].pc \in FilledPC \cup {"fill"} => job[p].snap \in Snapshot

WatchState == [pending : SUBSET File, trigger : BOOLEAN, queue : SUBSET File,
               added : BOOLEAN]

StoreTypes ==
    /\ active \in Snapshot \cup {None}
    /\ staging \subseteq Writer /\ litter \in Nat
    /\ manifest \in Meta \cup {Absent, Torn}

IndexTypeOK ==
    /\ StoreTypes
    /\ work \in Tree /\ committed \in Tree /\ head \in Nat
    /\ job \in [Proc -> Job]
    /\ watch \in WatchState
    /\ \A p \in Proc : JobOK(p)

\* Metadata says the truth about the files that git names and that were clean at its
\* commit.
Truthful(m) ==
    /\ m.head <= head
    /\ m.head = head => \A f \in File \ (m.sig \cup Hidden) : m.seen[f] = committed[f]

AllTruthful ==
    /\ manifest \in Meta => Truthful(manifest)
    /\ \A p \in Proc : job[p].pc \in StampedPC => Truthful(job[p].meta)

\* Every writer about to make a directory has its place among those counted.
Makers == { p \in Writer : At(p, "make") }
StagedBound == AllStaged + Cardinality(Makers) <= MaxStaging + Cardinality(Writer)

\* No writer is about to move the active snapshot away while another one copies it.
Uncrossed ==
    \A p, q \in Writer : At(p, "fill") /\ job[p].kind = "refresh" => ~At(q, "retire")

\* What is copied is what is active, what a writer holds is whole.
Whole ==
    /\ active # None /\ active.coll # None => active.whole
    /\ \A p \in Writer :
        /\ At(p, "fill") /\ job[p].kind = "refresh" =>
             active # None /\ active = job[p].snap
        /\ job[p].pc \in FilledPC => job[p].snap.whole

IndexInv == IndexTypeOK /\ AllTruthful /\ StagedBound

(***************************************************************************)
(* What a step of one process does.                                        *)
(***************************************************************************)
\* To the files: the manifest is emptied or gets the writer's metadata, the
\* active snapshot is made by an opening, retired or promoted.
StoreMove(p) ==
    /\ StoreTypes'
    /\ \/ manifest' = manifest \/ manifest' = Torn
       \/ job[p].pc \in StampedPC /\ manifest' = job[p].meta
    /\ \/ active' = active
       \/ active = None /\ active' = Blank
       \/ p \in Writer /\ At(p, "retire") /\ active' = None
       \/ p \in Writer /\ At(p, "promote") /\ active = None /\ active' = job[p].snap

\* To the staging directories: a pruning, one more, or none more.
Stages(p) ==
    \/ AllStaged' <= MaxStaging
    \/ At(p, "make") /\ ~At(p, "make")' /\ AllStaged' <= AllStaged + 1
    \/ AllStaged' <= AllStaged /\ ~At(p, "make")'

\* The metadata: kept, or taken from the repository as it is.
Stamps(p) ==
    /\ UNCHANGED <<head, committed>>
    /\ job'[p].pc \in StampedPC =>
         \/ /\ job[p].pc \in StampedPC
            /\ job'[p].meta.head = job[p].meta.head /\ job'[p].meta.sig = job[p].meta.sig
            /\ job'[p].meta.seen = job[p].meta.seen
         \/ /\ job'[p].meta.head = head /\ job'[p].meta.sig = Dirty
            /\ job'[p].meta.seen = work

\* The snapshot held: what is active is copied, and filled.
Fills(p) ==
    \/ job[p].kind = "build" /\ job'[p].snap.whole
    \/ /\ job[p].snap.coll = job[p].meta.coll
       /\ job'[p].snap.whole = (job[p].snap.whole /\ active = job[p].snap)
       /\ job'[p].snap.units = [f \in File |-> IF f \in job[p].paths
              THEN UnitsOf(job[p].got[f]) ELSE job[p].snap.units[f]]
       /\ job[p].kind = "refresh"

Holds(p) ==
    /\ At(p, "fill")' /\ job'[p].kind = "refresh" =>
         active # None /\ active' = active /\ job'[p].snap = active
    /\ job'[p].pc \in FilledPC =>
         \/ job[p].pc \in FilledPC /\ job'[p].snap = job[p].snap
         \/ At(p, "fill") /\ Fills(p)

StepOf(p) ==
    /\ job' \in [Proc -> Job] /\ \A q \in Proc : q # p => job'[q] = job[q]
    /\ JobOK(p)'
    /\ work' \in Tree /\ committed' \in Tree /\ head' \in Nat /\ watch' \in WatchState
    /\ StoreMove(p) /\ Stages(p) /\ Stamps(p) /\ Holds(p)

(***************************************************************************)
(* Jobs and their parts.                                                   *)
(***************************************************************************)
LEMMA JobMoves ==
    ASSUME IndexTypeOK, NEW p \in Proc, NEW new \in Job, Set(p, new)
    PROVE  /\ job' \in [Proc -> Job] /\ job'[p] = new
           /\ \A q \in Proc : q # p => job'[q] = job[q]
  BY DEF IndexTypeOK, Set

LEMMA JobFields ==
    ASSUME NEW r \in Job
    PROVE  /\ \A pc \in PC : /\ [r EXCEPT !.pc = pc] \in Job
                             /\ [r EXCEPT !.pc = pc].pc = pc
                             /\ [r EXCEPT !.pc = pc].meta = r.meta
                             /\ [r EXCEPT !.pc = pc].snap = r.snap
                             /\ [r EXCEPT !.pc = pc].kind = r.kind
           /\ r.pc \in PC /\ r.kind \in {None, "build", "refresh"} /\ r.paths \subseteq File
           /\ r.got \in Tree /\ r.meta \in Meta \cup {Absent} /\ r.snap \in Snapshot \cup {None}
  BY DEF Job

LEMMA IdleJob ==
    /\ Idle \in Job /\ Idle.pc = "idle"
    /\ \A pc \in PC : [Idle EXCEPT !.pc = pc] \in Job /\ [Idle EXCEPT !.pc = pc].pc = pc
    /\ NoTree \in Tree
<1>1. NoTree \in Tree
  BY DEF NoTree, Tree
<1>2. Idle \in Job /\ Idle.pc = "idle"
  BY <1>1 DEF Idle, Job, PC
<1> QED BY <1>1, <1>2, JobFields

LEMMA Placed ==
    /\ \A p \in Proc : p \in Writer \/ p \in Reader
    /\ \A p \in Reader : p \notin Writer
    /\ \A p \in Watcher : p \in Writer
  BY IndexAssumption DEF Proc

LEMMA StagedCount ==
    ASSUME StoreTypes
    PROVE  /\ IsFiniteSet(staging) /\ Cardinality(staging) \in Nat /\ AllStaged \in Nat
           /\ \A s \in SUBSET Writer : IsFiniteSet(s) /\ Cardinality(s) \in Nat
<1>1. \A s \in SUBSET Writer : IsFiniteSet(s) /\ Cardinality(s) \in Nat
  BY StoreAssumption, FS_Subset, FS_CardinalityType
<1> QED BY <1>1 DEF StoreTypes, AllStaged

\* No file of the store moves.
LEMMA StoreStays ==
    ASSUME IndexInv, NEW p \in Proc, UNCHANGED storeVars
    PROVE  StoreMove(p) /\ AllStaged' = AllStaged /\ AllStaged \in Nat
<1>1. StoreTypes /\ AllStaged \in Nat
  BY StagedCount DEF IndexInv, IndexTypeOK
<1> QED BY <1>1 DEF StoreMove, StoreTypes, AllStaged, storeVars

\* An unstamped job, whatever it does to the store short of a new directory.
LEMMA QuietStep ==
    ASSUME IndexInv, NEW p \in Proc, NEW new \in Job, Set(p, new),
           new.pc \notin StampedPC,
           p \in Reader => new.pc \in {"idle", "open"},
           new.pc = "open" => new.meta \in Meta,
           UNCHANGED <<head, committed>>, work' \in Tree, watch' \in WatchState,
           StoreMove(p), AllStaged' <= AllStaged \/ AllStaged' <= MaxStaging
    PROVE  StepOf(p)
<1>1. job' \in [Proc -> Job] /\ (\A q \in Proc : q # p => job'[q] = job[q])
      /\ job'[p] = new
  BY JobMoves DEF IndexInv
<1>2. JobOK(p)'
  BY <1>1 DEF JobOK, StampedPC, FilledPC
<1>3. Stages(p)
  BY <1>1 DEF Stages, At, StampedPC
<1>4. Stamps(p) /\ Holds(p)
  BY <1>1 DEF Stamps, Holds, At, StampedPC, FilledPC
<1> QED BY <1>1, <1>2, <1>3, <1>4 DEF StepOf, IndexInv, IndexTypeOK

\* An operation ends.
LEMMA EndStep ==
    ASSUME IndexInv, NEW p \in Proc, NEW ok \in BOOLEAN, Ends(p, ok),
           UNCHANGED <<repoVars, watch>>,
           StoreMove(p), AllStaged' <= AllStaged \/ AllStaged' <= MaxStaging
    PROVE  StepOf(p)
<1> DEFINE pc == IF ok /\ p \in Watcher THEN "wait" ELSE "idle"
           s == [Idle EXCEPT !.pc = pc]
<1>1. pc \in {"idle", "wait"} /\ (p \in Reader => pc = "idle")
  BY Placed
<1>2. Set(p, s)
  BY DEF Ends
<1> HIDE DEF pc
<1>3. s \in Job /\ s.pc = pc
  BY <1>1, IdleJob DEF PC
<1> HIDE DEF s
<1>4. UNCHANGED <<head, committed>> /\ work' \in Tree /\ watch' \in WatchState
  BY DEF repoVars, IndexInv, IndexTypeOK
<1> QED BY <1>1, <1>2, <1>3, <1>4, QuietStep DEF StampedPC

(***************************************************************************)
(* Each action is a step of its process.                                   *)
(***************************************************************************)
\* One that leaves the files and the repository alone, on an unstamped job.
LEMMA PlainStep ==
    ASSUME IndexInv, NEW p \in Proc, NEW new \in Job, Set(p, new),
           new.pc \notin StampedPC,
           p \in Reader => new.pc \in {"idle", "open"},
           new.pc = "open" => new.meta \in Meta,
           UNCHANGED <<storeVars, repoVars>>, watch' \in WatchState
    PROVE  StepOf(p)
<1>1. UNCHANGED <<head, committed>> /\ work' \in Tree
  BY DEF repoVars, IndexInv, IndexTypeOK
<1>2. StoreMove(p) /\ AllStaged' <= AllStaged
  <2>1. UNCHANGED storeVars
    OBVIOUS
  <2> QED BY <2>1, StoreStays
<1> QED BY <1>1, <1>2, QuietStep

LEMMA BuildCallStep ==
    ASSUME IndexInv, NEW p \in Proc, BuildCall(p)
    PROVE  StepOf(p)
<1> DEFINE s == [Idle EXCEPT !.pc = "collect", !.kind = "build", !.paths = File]
<1>1. s \in Job /\ s.pc = "collect"
  <2>1. Idle \in Job
    BY IdleJob
  <2> QED BY <2>1 DEF Job, PC
<1>2. Set(p, s) /\ p \notin Reader /\ UNCHANGED <<storeVars, repoVars, watch>>
  BY Placed DEF BuildCall, onlyJob
<1> HIDE DEF s
<1> QED BY <1>1, <1>2, PlainStep DEF StampedPC, IndexInv, IndexTypeOK

LEMMA RefreshCallStep ==
    ASSUME IndexInv, NEW p \in Proc, NEW changed \in SUBSET File, RefreshCall(p, changed)
    PROVE  StepOf(p)
<1> DEFINE s == [Idle EXCEPT !.pc = "load", !.kind = "refresh", !.paths = changed]
<1>1. s \in Job /\ s.pc = "load"
  <2>1. Idle \in Job
    BY IdleJob
  <2> QED BY <2>1 DEF Job, PC
<1>2. Set(p, s) /\ p \notin Reader /\ UNCHANGED <<storeVars, repoVars, watch>>
  BY Placed DEF RefreshCall, onlyJob
<1> HIDE DEF s
<1> QED BY <1>1, <1>2, PlainStep DEF StampedPC, IndexInv, IndexTypeOK

LEMMA ManifestIs ==
    ASSUME StoreTypes
    PROVE  /\ ManifestReadable /\ ~NoIndex => manifest \in Meta
           /\ manifest.is = "ok" => manifest \in Meta
           /\ manifest \in Meta => manifest.coll \in Coll
  BY DEF StoreTypes, ManifestReadable, NoIndex, Absent, Torn, Meta

LEMMA LoadStep ==
    ASSUME IndexInv, NEW p \in Proc, Load(p), UNCHANGED onlyJob
    PROVE  StepOf(p)
<1>1. UNCHANGED <<storeVars, repoVars, watch>> /\ job[p] \in Job /\ StoreTypes
      /\ watch' \in WatchState
  BY DEF onlyJob, IndexInv, IndexTypeOK
<1>2. CASE Ends(p, TRUE) \/ Ends(p, FALSE)
  <2>1. StoreMove(p) /\ AllStaged' <= AllStaged
    BY <1>1, StoreStays
  <2> QED BY <1>1, <1>2, <2>1, EndStep
<1>3. CASE p \notin Reader /\ To(p, "collect")
  <2> DEFINE s == [job[p] EXCEPT !.pc = "collect"]
  <2>1. s \in Job /\ s.pc = "collect"
    BY <1>1 DEF Job, PC
  <2>2. Set(p, s)
    BY <1>3 DEF To
  <2> HIDE DEF s
  <2> QED BY <1>1, <1>3, <2>1, <2>2, PlainStep DEF StampedPC
<1>4. CASE /\ ManifestReadable /\ ~NoIndex
           /\ Set(p, [job[p] EXCEPT !.pc = "open", !.meta = OnlyColl(manifest.coll)])
  <2> DEFINE m == OnlyColl(manifest.coll)
             s == [job[p] EXCEPT !.pc = "open", !.meta = m]
  <2>1. m \in Meta
    BY <1>1, <1>4, ManifestIs, IdleJob DEF OnlyColl, Meta
  <2> HIDE DEF m
  <2>2. s \in Job /\ s.pc = "open" /\ s.meta = m
    BY <1>1, <2>1 DEF Job, PC
  <2>3. Set(p, s)
    BY <1>4 DEF m
  <2> HIDE DEF s
  <2> QED BY <1>1, <2>1, <2>2, <2>3, PlainStep DEF StampedPC
<1> QED BY <1>2, <1>3, <1>4 DEF Load

LEMMA OpenStep ==
    ASSUME IndexInv, NEW p \in Proc, Open(p)
    PROVE  StepOf(p)
<1>1. /\ UNCHANGED <<previous, staging, litter, manifest, repoVars, watch, mishaps>>
      /\ active' = IF active = None THEN Blank ELSE active
      /\ job[p] \in Job /\ StoreTypes /\ watch' \in WatchState
      /\ UNCHANGED <<head, committed>> /\ work' \in Tree
  BY DEF Open, OpenTouches, IndexInv, IndexTypeOK, repoVars
<1>2. Blank \in Snapshot
  BY DEF Blank, Snapshot, NoUnits
<1>3. StoreMove(p) /\ AllStaged' <= AllStaged
  <2>1. AllStaged' = AllStaged /\ AllStaged \in Nat
    BY <1>1, StagedCount DEF AllStaged
  <2> QED BY <1>1, <1>2, <2>1 DEF StoreMove, StoreTypes
<1>4. CASE Ends(p, TRUE) \/ Ends(p, FALSE)
  BY <1>1, <1>3, <1>4, EndStep
<1>5. CASE p \notin Reader /\ Set(p, [job[p] EXCEPT !.pc = "collect", !.meta = Absent])
  <2> DEFINE s == [job[p] EXCEPT !.pc = "collect", !.meta = Absent]
  <2>1. s \in Job /\ s.pc = "collect"
    BY <1>1 DEF Job, PC
  <2>2. Set(p, s)
    BY <1>5
  <2> HIDE DEF s
  <2> QED BY <1>1, <1>3, <1>5, <2>1, <2>2, QuietStep DEF StampedPC
<1> QED BY <1>4, <1>5 DEF Open

\* A writer past the call is no reader.
LEMMA WritersPlace ==
    ASSUME IndexInv, NEW p \in Proc, job[p].pc \notin {"idle", "open"}
    PROVE  p \notin Reader /\ p \in Writer /\ job[p] \in Job
  BY Placed DEF IndexInv, IndexTypeOK, JobOK

LEMMA CollectStep ==
    ASSUME IndexInv, NEW p \in Proc, Collect(p)
    PROVE  StepOf(p)
<1> DEFINE got == [f \in File |-> IF f \in job[p].paths THEN work[f] ELSE None]
           s == [job[p] EXCEPT !.pc = "stamp", !.got = got]
<1>1. p \notin Reader /\ job[p] \in Job
  BY WritersPlace DEF Collect, At
<1>2. got \in Tree
  BY DEF Tree, IndexInv, IndexTypeOK
<1>3. Set(p, s) /\ UNCHANGED <<storeVars, repoVars, watch>> /\ watch' \in WatchState
  BY DEF Collect, onlyJob, IndexInv, IndexTypeOK
<1> HIDE DEF got
<1>4. s \in Job /\ s.pc = "stamp"
  BY <1>1, <1>2 DEF Job, PC
<1> HIDE DEF s
<1> QED BY <1>1, <1>3, <1>4, PlainStep DEF StampedPC

\* A stamped job goes on, and holds on to what it has.
LEMMA StampedStep ==
    ASSUME IndexInv, NEW p \in Proc, NEW new \in Job, Set(p, new), p \notin Reader,
           new.pc \in StampedPC, new.meta \in Meta,
           new.pc \in FilledPC \cup {"fill"} => new.snap \in Snapshot,
           UNCHANGED <<head, committed, work, watch>>,
           StoreMove(p),
           \/ AllStaged' <= MaxStaging
           \/ At(p, "make") /\ new.pc # "make" /\ AllStaged' <= AllStaged + 1
           \/ AllStaged' <= AllStaged /\ new.pc # "make",
           \/ /\ job[p].pc \in StampedPC
              /\ new.meta.head = job[p].meta.head /\ new.meta.sig = job[p].meta.sig
              /\ new.meta.seen = job[p].meta.seen
           \/ new.meta.head = head /\ new.meta.sig = Dirty /\ new.meta.seen = work,
           new.pc = "fill" /\ new.kind = "refresh" =>
               active # None /\ active' = active /\ new.snap = active,
           new.pc \in FilledPC =>
               \/ job[p].pc \in FilledPC /\ new.snap = job[p].snap
               \/ At(p, "fill") /\ Fills(p)
    PROVE  StepOf(p)
<1>1. job' \in [Proc -> Job] /\ (\A q \in Proc : q # p => job'[q] = job[q])
      /\ job'[p] = new
  BY JobMoves DEF IndexInv
<1>2. JobOK(p)'
  BY <1>1 DEF JobOK, StampedPC, FilledPC
<1>3. Stages(p)
  BY <1>1 DEF Stages, At
<1>4. Stamps(p)
  BY <1>1 DEF Stamps
<1>5. Holds(p)
  BY <1>1 DEF Holds, At
<1>6. work' \in Tree /\ committed' \in Tree /\ head' \in Nat /\ watch' \in WatchState
  BY DEF IndexInv, IndexTypeOK
<1> QED BY <1>1, <1>2, <1>3, <1>4, <1>5, <1>6 DEF StepOf

LEMMA StampStep ==
    ASSUME IndexInv, NEW p \in Proc, Stamp(p)
    PROVE  StepOf(p)
<1> DEFINE fresh == CHOOSE c \in Coll \ UsedColl : TRUE
           pc == IF job[p].kind = "refresh" THEN "base" ELSE "guard"
           m == [is |-> "ok", coll |-> fresh, head |-> head, sig |-> Dirty, seen |-> work]
           s == [job[p] EXCEPT !.pc = pc, !.meta = m]
<1>1. /\ p \notin Reader /\ job[p] \in Job /\ job[p].pc = "stamp"
      /\ UNCHANGED <<storeVars, head, committed, work, watch>>
  BY WritersPlace DEF Stamp, At, onlyJob, repoVars
<1>2. fresh \in Coll
  BY DEF Stamp
<1>3. Set(p, s)
  BY DEF Stamp
<1>4. m \in Meta /\ m.head = head /\ m.sig = Dirty /\ m.seen = work
  <2> HIDE DEF fresh
  <2>1. Dirty \subseteq File /\ head \in Nat /\ work \in Tree
    BY DEF Dirty, IndexInv, IndexTypeOK
  <2> QED BY <1>2, <2>1 DEF Meta
<1>5. pc \in {"base", "guard"}
  OBVIOUS
<1> HIDE DEF m, pc
<1>6. s \in Job /\ s.pc = pc /\ s.meta = m
  BY <1>1, <1>4, <1>5 DEF Job, PC
<1>7. StoreMove(p) /\ AllStaged' <= AllStaged
  BY <1>1, StoreStays
<1> HIDE DEF s
<1> QED BY <1>1, <1>3, <1>4, <1>5, <1>6, <1>7, StampedStep DEF StampedPC, FilledPC

\* A stamped job that changes its place only, and makes and fills nothing.
LEMMA ToStep ==
    ASSUME IndexInv, NEW p \in Proc, NEW pc \in StampedPC, To(p, pc),
           job[p].pc \in StampedPC, pc # "make", pc # "fill",
           pc \in FilledPC => job[p].pc \in FilledPC,
           UNCHANGED <<repoVars, watch>>,
           StoreMove(p), AllStaged' <= AllStaged \/ AllStaged' <= MaxStaging
    PROVE  StepOf(p)
<1> DEFINE s == [job[p] EXCEPT !.pc = pc]
<1>1. /\ p \notin Reader /\ job[p] \in Job /\ job[p].meta \in Meta
      /\ job[p].pc \in FilledPC => job[p].snap \in Snapshot
  BY WritersPlace DEF StampedPC, IndexInv, IndexTypeOK, JobOK
<1>2. s \in Job /\ s.pc = pc /\ s.meta = job[p].meta /\ s.snap = job[p].snap
  <2>1. pc \in PC
    BY DEF StampedPC, PC
  <2> QED BY <1>1, <2>1 DEF Job
<1>3. Set(p, s)
  BY DEF To
<1>4. UNCHANGED <<head, committed, work, watch>>
  BY DEF repoVars
<1> HIDE DEF s
<1> QED BY <1>1, <1>2, <1>3, <1>4, StampedStep DEF FilledPC

LEMMA BaseStep ==
    ASSUME IndexInv, NEW p \in Proc, Base(p)
    PROVE  StepOf(p)
<1>1. /\ p \notin Reader /\ job[p] \in Job /\ job[p].pc = "base" /\ job[p].meta \in Meta
      /\ UNCHANGED <<storeVars, head, committed, work, watch, repoVars>> /\ StoreTypes
  BY WritersPlace DEF Base, At, onlyJob, repoVars, IndexInv, IndexTypeOK, JobOK, StampedPC
<1>2. StoreMove(p) /\ AllStaged' <= AllStaged
  BY <1>1, StoreStays
<1>3. CASE Ends(p, FALSE)
  BY <1>1, <1>2, <1>3, EndStep
<1>4. CASE Set(p, [job[p] EXCEPT !.pc = "guard", !.kind = "build"])
  <2> DEFINE s == [job[p] EXCEPT !.pc = "guard", !.kind = "build"]
  <2>1. s \in Job /\ s.pc = "guard" /\ s.meta = job[p].meta
    BY <1>1 DEF Job, PC
  <2>2. Set(p, s)
    BY <1>4
  <2> HIDE DEF s
  <2> QED BY <1>1, <1>2, <2>1, <2>2, StampedStep DEF StampedPC, FilledPC
<1>5. CASE /\ ManifestReadable /\ ~NoIndex
           /\ Set(p, [job[p] EXCEPT !.pc = "guard", !.meta.coll = manifest.coll])
  <2> DEFINE m == [job[p].meta EXCEPT !.coll = manifest.coll]
             s == [job[p] EXCEPT !.pc = "guard", !.meta = m]
  <2>1. manifest.coll \in Coll
    BY <1>1, <1>5, ManifestIs
  <2>2. /\ m \in Meta /\ m.head = job[p].meta.head /\ m.sig = job[p].meta.sig
        /\ m.seen = job[p].meta.seen
    BY <1>1, <2>1 DEF Meta
  <2>3. Set(p, s)
    BY <1>5
  <2> HIDE DEF m
  <2>4. s \in Job /\ s.pc = "guard" /\ s.meta = m
    BY <1>1, <2>2 DEF Job, PC
  <2> HIDE DEF s
  <2> QED BY <1>1, <1>2, <2>2, <2>3, <2>4, StampedStep DEF StampedPC, FilledPC
<1> QED BY <1>3, <1>4, <1>5 DEF Base

LEMMA Prunes ==
    ASSUME StoreTypes, Prune
    PROVE  staging' \subseteq Writer /\ litter' \in Nat /\ AllStaged' <= MaxStaging
<1>1. PICK keep \in SUBSET staging, left \in 0 .. litter :
        /\ left + Cardinality(keep) =
                (IF AllStaged > MaxStaging THEN MaxStaging ELSE AllStaged)
        /\ staging' = keep /\ litter' = left
  BY DEF Prune
<1>2. AllStaged' = left + Cardinality(keep)
  BY <1>1 DEF AllStaged
<1>3. AllStaged \in Nat /\ MaxStaging \in Nat
  BY StagedCount, StoreAssumption
<1> QED BY <1>1, <1>2, <1>3 DEF StoreTypes

LEMMA GuardStep ==
    ASSUME IndexInv, NEW p \in Proc, Guard(p)
    PROVE  StepOf(p)
<1>1. /\ p \notin Reader /\ job[p] \in Job /\ job[p].pc = "guard" /\ job[p].meta \in Meta
      /\ UNCHANGED <<active, manifest, repoVars, watch>> /\ StoreTypes /\ Prune
  BY WritersPlace DEF Guard, At, IndexInv, IndexTypeOK, JobOK, StampedPC
<1>2. StoreMove(p) /\ AllStaged' <= MaxStaging
  BY <1>1, Prunes DEF StoreMove, StoreTypes
<1>3. CASE Ends(p, FALSE)
  BY <1>1, <1>2, <1>3, EndStep
<1>4. CASE To(p, "make")
  <2> DEFINE s == [job[p] EXCEPT !.pc = "make"]
  <2>1. s \in Job /\ s.pc = "make" /\ s.meta = job[p].meta
    BY <1>1 DEF Job, PC
  <2>2. Set(p, s) /\ UNCHANGED <<head, committed, work, watch>>
    BY <1>1, <1>4 DEF To, repoVars
  <2> HIDE DEF s
  <2> QED BY <1>1, <1>2, <2>1, <2>2, StampedStep DEF StampedPC, FilledPC
<1> QED BY <1>3, <1>4 DEF Guard

LEMMA MakeStep ==
    ASSUME IndexInv, NEW p \in Proc, Make(p)
    PROVE  StepOf(p)
<1>1. /\ p \notin Reader /\ p \in Writer /\ job[p] \in Job /\ job[p].pc = "make"
      /\ job[p].meta \in Meta
      /\ UNCHANGED <<active, manifest, repoVars, watch>> /\ StoreTypes
  BY WritersPlace DEF Make, At, IndexInv, IndexTypeOK, JobOK, StampedPC
<1>2. CASE Ends(p, FALSE) /\ UNCHANGED <<staging, litter>>
  <2>1. AllStaged' = AllStaged /\ AllStaged \in Nat
    BY <1>1, <1>2, StagedCount DEF AllStaged
  <2>2. StoreMove(p)
    BY <1>1, <1>2 DEF StoreMove, StoreTypes
  <2>3. AllStaged' <= AllStaged
    BY <2>1
  <2> QED BY <1>1, <1>2, <2>2, <2>3, EndStep
<1>3. CASE /\ job[p].kind = "build" \/ active # None
           /\ MakeStaging(p)
           /\ Set(p, [job[p] EXCEPT !.pc = "fill",
                         !.snap = IF job[p].kind = "refresh" THEN active ELSE Blank])
  <2> DEFINE snap == IF job[p].kind = "refresh" THEN active ELSE Blank
             s == [job[p] EXCEPT !.pc = "fill", !.snap = snap]
  <2>1. snap \in Snapshot
    <3>1. Blank \in Snapshot
      BY DEF Blank, Snapshot, NoUnits
    <3> QED BY <1>1, <1>3, <3>1 DEF StoreTypes
  <2>2. job[p].kind = "refresh" => active # None /\ snap = active
    BY <1>3
  <2>3. Set(p, s) /\ staging' = staging \cup {p} /\ litter' = litter
    BY <1>3 DEF MakeStaging
  <2> HIDE DEF snap
  <2>4. s \in Job /\ s.pc = "fill" /\ s.meta = job[p].meta /\ s.snap = snap
        /\ s.kind = job[p].kind
    BY <1>1, <2>1 DEF Job, PC
  <2> HIDE DEF s
  <2>5. AllStaged' <= AllStaged + 1
    <3>1. Cardinality(staging \cup {p}) \in {Cardinality(staging), Cardinality(staging) + 1}
      BY <1>1, StagedCount, FS_AddElement
    <3> QED BY <1>1, <2>3, <3>1, StagedCount DEF AllStaged, StoreTypes
  <2>6. StoreMove(p)
    BY <1>1, <2>3 DEF StoreMove, StoreTypes
  <2>7. UNCHANGED <<head, committed, work, watch>>
    BY <1>1 DEF repoVars
  <2> QED BY <1>1, <2>1, <2>2, <2>3, <2>4, <2>5, <2>6, <2>7, StampedStep
          DEF StampedPC, FilledPC, At
<1> QED BY <1>2, <1>3 DEF Make

\* A writer gives up, its directory with it.
LEMMA FailStep ==
    ASSUME IndexInv, NEW p \in Proc, Fail(p), UNCHANGED <<active, manifest, repoVars, watch>>
    PROVE  StepOf(p)
<1>1. StoreTypes
  BY DEF IndexInv, IndexTypeOK
<1>2. Ends(p, FALSE) /\ staging' = staging \ {p} /\ litter' = litter
  BY DEF Fail, DropStaging
<1>3. AllStaged' <= AllStaged
  <2>1. staging' \subseteq staging /\ staging' \subseteq Writer
    BY <1>1, <1>2 DEF StoreTypes
  <2>2. Cardinality(staging') <= Cardinality(staging)
    BY <1>1, <2>1, StagedCount, FS_Subset
  <2>3. Cardinality(staging) \in Nat /\ Cardinality(staging') \in Nat /\ litter \in Nat
    BY <1>1, <2>1, StagedCount DEF StoreTypes
  <2> QED BY <1>2, <2>2, <2>3 DEF AllStaged
<1>4. StoreMove(p)
  BY <1>1, <1>2 DEF StoreMove, StoreTypes
<1> QED BY <1>2, <1>3, <1>4, EndStep

LEMMA FillStep ==
    ASSUME IndexInv, NEW p \in Proc, Fill(p)
    PROVE  StepOf(p)
<1>1. /\ p \notin Reader /\ job[p] \in Job /\ job[p].pc = "fill" /\ job[p].meta \in Meta
      /\ job[p].snap \in Snapshot /\ StoreTypes
      /\ UNCHANGED <<active, manifest, repoVars, watch>>
  BY WritersPlace DEF Fill, At, IndexInv, IndexTypeOK, JobOK, StampedPC
<1>2. CASE Fail(p)
  BY <1>1, <1>2, FailStep
<1>3. ASSUME NEW snap \in Snapshot, Filled(p, snap),
             \/ job[p].kind = "build" /\ snap.whole
             \/ /\ job[p].kind = "refresh" /\ job[p].snap.coll = job[p].meta.coll
                /\ snap.whole = (job[p].snap.whole /\ active = job[p].snap)
                /\ snap.units = [f \in File |-> IF f \in job[p].paths
                       THEN UnitsOf(job[p].got[f]) ELSE job[p].snap.units[f]]
      PROVE  StepOf(p)
  <2> DEFINE s == [job[p] EXCEPT !.pc = "drop", !.snap = snap, !.got = NoTree, !.paths = {}]
  <2>1. NoTree \in Tree
    BY IdleJob
  <2>2. s \in Job /\ s.pc = "drop" /\ s.meta = job[p].meta /\ s.snap = snap
    BY <1>1, <2>1 DEF Job, PC
  <2>3. Set(p, s) /\ UNCHANGED <<staging, litter, active, manifest>>
        /\ UNCHANGED <<head, committed, work, watch>>
    BY <1>1, <1>3 DEF Filled, repoVars
  <2> HIDE DEF s
  <2>4. job'[p] = s
    BY <2>2, <2>3, JobMoves DEF IndexInv
  <2>5. Fills(p)
    BY <1>3, <2>2, <2>4 DEF Fills
  <2>6. StoreMove(p)
    BY <1>1, <2>3 DEF StoreMove, StoreTypes
  <2>7. AllStaged' <= AllStaged
    BY <1>1, <2>3, StagedCount DEF AllStaged
  <2> QED BY <1>1, <1>3, <2>2, <2>3, <2>5, <2>6, <2>7, StampedStep DEF StampedPC, FilledPC, At
<1>4. \A c : UnitsOf(c) = IF c = None THEN {} ELSE {c}
  BY DEF UnitsOf
<1>5. job[p].got \in Tree /\ job[p].paths \subseteq File
  BY <1>1, JobFields
<1>6. CASE job[p].kind = "build" /\ Filled(p, Full(job[p].meta.coll, Units(job[p].got)))
  <2> DEFINE snap == Full(job[p].meta.coll, Units(job[p].got))
  <2>1. Units(job[p].got) \in [File -> SUBSET Content]
    BY <1>5 DEF Units, UnitsOf, Tree
  <2>2. job[p].meta.coll \in Coll
    BY <1>1 DEF Meta
  <2>3. snap \in Snapshot /\ snap.whole
    BY <2>1, <2>2 DEF Full, Snapshot
  <2> HIDE DEF snap
  <2>4. Filled(p, snap)
    BY <1>6 DEF snap
  <2> QED BY <1>3, <1>6, <2>3, <2>4
<1>7. CASE /\ job[p].kind = "refresh" /\ job[p].snap.coll = job[p].meta.coll
           /\ Filled(p, Patched(p, [job[p].snap EXCEPT !.whole = @ /\ active = job[p].snap]))
  <2> DEFINE w == job[p].snap.whole /\ active = job[p].snap
             src == [job[p].snap EXCEPT !.whole = w]
             units == [f \in File |-> IF f \in job[p].paths
                          THEN UnitsOf(job[p].got[f]) ELSE src.units[f]]
             snap == [src EXCEPT !.units = units]
  <2>1. w \in BOOLEAN
    OBVIOUS
  <2> HIDE DEF w
  <2>2. src \in Snapshot /\ src.whole = w /\ src.units = job[p].snap.units
    BY <1>1, <2>1 DEF Snapshot
  <2>3. Filled(p, snap)
    <3>1. src = [job[p].snap EXCEPT !.whole = @ /\ active = job[p].snap]
      BY DEF w
    <3> HIDE DEF src
    <3>2. Patched(p, src) = snap
      BY DEF Patched
    <3> QED BY <1>7, <3>1, <3>2
  <2> HIDE DEF src
  <2>4. units \in [File -> SUBSET Content]
    <3>1. src.units \in [File -> SUBSET Content]
      BY <2>2 DEF Snapshot
    <3> QED BY <1>5, <3>1 DEF UnitsOf, Tree
  <2>5. units = [f \in File |-> IF f \in job[p].paths
                     THEN UnitsOf(job[p].got[f]) ELSE job[p].snap.units[f]]
    BY <2>2
  <2> HIDE DEF units
  <2>6. snap \in Snapshot /\ snap.whole = w /\ snap.units = units
    BY <2>2, <2>4 DEF Snapshot
  <2> HIDE DEF snap
  <2>7. snap.whole = (job[p].snap.whole /\ active = job[p].snap)
    BY <2>6 DEF w
  <2> QED BY <1>3, <1>7, <2>3, <2>5, <2>6, <2>7
<1> QED BY <1>2, <1>6, <1>7 DEF Fill

\* The steps of the activation.
LEMMA ActivateStep ==
    ASSUME IndexInv, NEW p \in Proc, DropPrev(p) \/ RetireActive(p) \/ Truncate(p)
    PROVE  StepOf(p)
<1>1. StoreTypes /\ AllStaged \in Nat
  BY StagedCount DEF IndexInv, IndexTypeOK
<1>2. /\ p \in Writer
      /\ UNCHANGED <<staging, litter, repoVars, watch>>
  BY WritersPlace DEF DropPrev, RetireActive, Truncate, At
<1>3. AllStaged' <= AllStaged
  BY <1>1, <1>2 DEF AllStaged
<1>4. CASE DropPrev(p)
  <2>1. job[p].pc = "drop" /\ To(p, "retire") /\ StoreMove(p)
    BY <1>1, <1>2, <1>4 DEF DropPrev, At, StoreMove, StoreTypes
  <2> QED BY <1>2, <1>3, <2>1, ToStep DEF StampedPC, FilledPC
<1>5. CASE RetireActive(p)
  <2>1. job[p].pc = "retire" /\ To(p, "promote") /\ StoreMove(p)
    BY <1>1, <1>2, <1>5 DEF RetireActive, Retire, At, StoreMove, StoreTypes
  <2> QED BY <1>2, <1>3, <2>1, ToStep DEF StampedPC, FilledPC
<1>6. CASE Truncate(p)
  <2>1. job[p].pc = "truncate" /\ To(p, "publish") /\ StoreMove(p)
    BY <1>1, <1>2, <1>6 DEF Truncate, TruncateManifest, At, StoreMove, StoreTypes
  <2> QED BY <1>2, <1>3, <2>1, ToStep DEF StampedPC, FilledPC
<1> QED BY <1>4, <1>5, <1>6

LEMMA PromoteStep ==
    ASSUME IndexInv, NEW p \in Proc, PromoteStaged(p)
    PROVE  StepOf(p)
<1>1. /\ p \notin Reader /\ p \in Writer /\ job[p] \in Job /\ job[p].pc = "promote"
      /\ job[p].meta \in Meta /\ job[p].snap \in Snapshot /\ StoreTypes
      /\ UNCHANGED <<manifest, repoVars, watch>>
  BY WritersPlace DEF PromoteStaged, At, IndexInv, IndexTypeOK, JobOK, StampedPC, FilledPC
<1>2. CASE Fail(p) /\ UNCHANGED active
  BY <1>1, <1>2, FailStep
<1>3. CASE /\ Promote(p, job[p].snap)
           /\ Set(p, [job[p] EXCEPT !.pc = "truncate", !.snap = None])
  <2> DEFINE s == [job[p] EXCEPT !.pc = "truncate", !.snap = None]
  <2>1. s \in Job /\ s.pc = "truncate" /\ s.meta = job[p].meta
    BY <1>1 DEF Job, PC
  <2>2. Set(p, s) /\ UNCHANGED <<head, committed, work, watch>>
    BY <1>1, <1>3 DEF repoVars
  <2> HIDE DEF s
  <2>3. /\ active' = IF active = None THEN job[p].snap ELSE active
        /\ staging' = staging \ {p} /\ litter' = litter
    BY <1>3 DEF Promote, DropStaging
  <2>4. AllStaged' <= AllStaged
    <3>1. staging' \subseteq staging
      BY <2>3
    <3>2. Cardinality(staging') <= Cardinality(staging)
      BY <1>1, <3>1, StagedCount, FS_Subset
    <3>3. /\ Cardinality(staging) \in Nat /\ Cardinality(staging') \in Nat
          /\ litter \in Nat
      BY <1>1, <3>1, StagedCount DEF StoreTypes
    <3> QED BY <2>3, <3>2, <3>3 DEF AllStaged
  <2>5. StoreMove(p)
    BY <1>1, <2>3 DEF StoreMove, StoreTypes, At
  <2> QED BY <1>1, <2>1, <2>2, <2>4, <2>5, StampedStep DEF StampedPC, FilledPC
<1> QED BY <1>2, <1>3 DEF PromoteStaged

LEMMA PublishStep ==
    ASSUME IndexInv, NEW p \in Proc, Publish(p)
    PROVE  StepOf(p)
<1>1. /\ job[p].pc = "publish" /\ job[p].meta \in Meta /\ StoreTypes /\ AllStaged \in Nat
      /\ UNCHANGED <<active, staging, litter, repoVars, watch>>
      /\ manifest' = job[p].meta /\ Ends(p, TRUE)
  BY StagedCount DEF Publish, FillManifest, At, IndexInv, IndexTypeOK, JobOK, StampedPC
<1>2. StoreMove(p)
  BY <1>1 DEF StoreMove, StoreTypes, StampedPC
<1>3. AllStaged' <= AllStaged
  BY <1>1 DEF AllStaged
<1> QED BY <1>1, <1>2, <1>3, EndStep

\* The watcher's own steps: it waits, or starts a refresh.
LEMMA WatchStep ==
    ASSUME IndexInv, NEW p \in Proc,
           WatchCall(p) \/ WatchWakes(p) \/ WatchSettles(p) \/ WatchFlushes(p)
    PROVE  StepOf(p) \/ (UNCHANGED <<storeVars, repoVars, job>> /\ watch' \in WatchState)
<1>1. /\ UNCHANGED <<storeVars, repoVars>> /\ job[p] \in Job /\ watch \in WatchState
      /\ p \notin Reader
  <2>1. job[p] \in Job /\ watch \in WatchState
    BY DEF IndexInv, IndexTypeOK
  <2> QED BY <2>1, Placed, WritersPlace
          DEF WatchCall, WatchWakes, WatchSettles, WatchFlushes, At
<1>2. watch' \in WatchState
  <2>1. CASE WatchCall(p)
    BY <2>1 DEF WatchCall, NoWatch, WatchState
  <2>2. CASE WatchWakes(p) \/ WatchSettles(p)
    BY <1>1, <2>2 DEF WatchWakes, WatchSettles, WatchState
  <2>3. CASE WatchFlushes(p)
    BY <1>1, <2>3 DEF WatchFlushes, WatchState
  <2> QED BY <2>1, <2>2, <2>3
<1>3. ASSUME NEW pc \in {"wait", "settle", "flush"}, To(p, pc) PROVE StepOf(p)
  <2> DEFINE s == [job[p] EXCEPT !.pc = pc]
  <2>1. s \in Job /\ s.pc = pc
    BY <1>1, <1>3 DEF Job, PC
  <2>2. Set(p, s)
    BY <1>3 DEF To
  <2> HIDE DEF s
  <2> QED BY <1>1, <1>2, <1>3, <2>1, <2>2, PlainStep DEF StampedPC
<1>4. CASE Set(p, [Idle EXCEPT !.pc = "load", !.kind = "refresh", !.paths = watch.pending])
  <2> DEFINE changed == watch.pending
             s == [Idle EXCEPT !.pc = "load", !.kind = "refresh", !.paths = changed]
  <2>1. changed \subseteq File
    BY <1>1 DEF WatchState
  <2>2. Set(p, s)
    BY <1>4
  <2> HIDE DEF changed
  <2>3. s \in Job /\ s.pc = "load"
    <3>1. Idle \in Job
      BY IdleJob
    <3> QED BY <2>1, <3>1 DEF Job, PC
  <2> HIDE DEF s
  <2> QED BY <1>1, <1>2, <2>2, <2>3, PlainStep DEF StampedPC
<1> QED BY <1>1, <1>2, <1>3, <1>4 DEF WatchCall, WatchWakes, WatchSettles, WatchFlushes

LEMMA CrashStep ==
    ASSUME IndexInv, NEW p \in Proc, Crash(p)
    PROVE  StepOf(p)
<1>1. /\ StoreTypes /\ Set(p, Idle) /\ UNCHANGED <<active, manifest, repoVars, watch>>
      /\ staging' = staging \ {p} /\ litter' = IF p \in staging THEN litter + 1 ELSE litter
      /\ watch' \in WatchState /\ UNCHANGED <<head, committed>> /\ work' \in Tree
  BY DEF Crash, AbandonStaging, IndexInv, IndexTypeOK, repoVars
<1>2. AllStaged' <= AllStaged
  <2>1. IsFiniteSet(staging) /\ Cardinality(staging) \in Nat /\ litter \in Nat
    BY <1>1, StagedCount DEF StoreTypes
  <2>2. CASE p \in staging
    <3>1. Cardinality(staging') = Cardinality(staging) - 1
      BY <1>1, <2>1, <2>2, FS_RemoveElement
    <3> QED BY <1>1, <2>1, <2>2, <3>1 DEF AllStaged
  <2>3. CASE p \notin staging
    <3>1. staging' = staging /\ litter' = litter
      BY <1>1, <2>3
    <3> QED BY <2>1, <3>1 DEF AllStaged
  <2> QED BY <2>2, <2>3
<1>3. StoreMove(p)
  BY <1>1 DEF StoreMove, StoreTypes
<1> QED BY <1>1, <1>2, <1>3, IdleJob, QuietStep DEF StampedPC

(***************************************************************************)
(* The invariant, part by part, over a step of one process.                *)
(***************************************************************************)
LEMMA TypeKept ==
    ASSUME IndexInv, NEW p \in Proc, StepOf(p)
    PROVE  IndexTypeOK'
<1>1. \A q \in Proc : q # p => JobOK(q)'
  BY DEF StepOf, IndexInv, IndexTypeOK, JobOK
<1> QED BY <1>1 DEF StepOf, StoreMove, IndexTypeOK

LEMMA TruthKept ==
    ASSUME IndexInv, NEW p \in Proc, StepOf(p)
    PROVE  AllTruthful'
<1>1. head' = head /\ committed' = committed /\ \A q \in Proc : q # p => job'[q] = job[q]
  BY DEF StepOf, Stamps
<1>2. \A m : Truthful(m)' <=> Truthful(m)
  BY <1>1 DEF Truthful, Hidden
<1>3. manifest' \in Meta => Truthful(manifest')
  <2>1. manifest' \in Meta => \/ manifest' = manifest
                              \/ job[p].pc \in StampedPC /\ manifest' = job[p].meta
    BY DEF StepOf, StoreMove, Torn, Meta
  <2> QED BY <2>1 DEF IndexInv, AllTruthful
<1>4. ASSUME NEW q \in Proc, job'[q].pc \in StampedPC PROVE Truthful(job'[q].meta)
  <2>1. CASE q # p
    BY <1>1, <1>4, <2>1 DEF IndexInv, AllTruthful
  <2>2. CASE q = p
    <3>1. CASE /\ job[p].pc \in StampedPC
               /\ job'[p].meta.head = job[p].meta.head
               /\ job'[p].meta.sig = job[p].meta.sig
               /\ job'[p].meta.seen = job[p].meta.seen
      <4>1. Truthful(job[p].meta)
        BY <3>1 DEF IndexInv, AllTruthful
      <4> QED BY <2>2, <3>1, <4>1 DEF Truthful
    <3>2. CASE /\ job'[p].meta.head = head /\ job'[p].meta.sig = Dirty
               /\ job'[p].meta.seen = work
      <4>1. head \in Nat
        BY DEF IndexInv, IndexTypeOK
      <4> QED BY <2>2, <3>2, <4>1 DEF Truthful, Dirty, Hidden
    <3> QED BY <1>4, <2>2, <3>1, <3>2 DEF StepOf, Stamps
  <2> QED BY <2>1, <2>2
<1> QED BY <1>1, <1>3, <1>4 DEF AllTruthful, Truthful, Hidden

LEMMA BoundKept ==
    ASSUME IndexInv, NEW p \in Proc, StepOf(p)
    PROVE  StagedBound'
<1>1. /\ StoreTypes /\ StoreTypes' /\ MaxStaging \in Nat
      /\ \A q \in Proc : q # p => job'[q] = job[q]
  BY StoreAssumption DEF IndexInv, IndexTypeOK, StepOf, StoreMove
<1>2. AllStaged \in Nat /\ AllStaged' \in Nat
  <2>1. AllStaged \in Nat
    BY <1>1, StagedCount
  <2>2. Cardinality(staging') \in Nat /\ litter' \in Nat
    BY <1>1, StagedCount DEF StoreTypes
  <2> QED BY <2>1, <2>2 DEF AllStaged
<1>3. Makers \subseteq Writer /\ Makers' \subseteq Writer
  BY DEF Makers
<1>4. /\ IsFiniteSet(Makers) /\ IsFiniteSet(Makers') /\ Cardinality(Makers) \in Nat
      /\ Cardinality(Makers') \in Nat /\ Cardinality(Writer) \in Nat
      /\ Cardinality(Makers') <= Cardinality(Writer)
  BY <1>1, <1>3, StagedCount, StoreAssumption, FS_Subset, FS_CardinalityType
<1>5. CASE AllStaged' <= MaxStaging
  BY <1>1, <1>2, <1>4, <1>5 DEF StagedBound
<1>6. CASE At(p, "make") /\ ~At(p, "make")' /\ AllStaged' <= AllStaged + 1
  <2>1. p \in Makers /\ Makers' = Makers \ {p}
    <3>1. p \in Writer
      BY <1>6, WritersPlace DEF At
    <3>2. \A q \in Writer : q # p => job'[q] = job[q]
      BY <1>1 DEF Proc
    <3> QED BY <1>6, <3>1, <3>2 DEF Makers, At
  <2>2. Cardinality(Makers') = Cardinality(Makers) - 1
    BY <1>4, <2>1, FS_RemoveElement
  <2> QED BY <1>1, <1>2, <1>4, <1>6, <2>2 DEF IndexInv, StagedBound
<1>7. CASE AllStaged' <= AllStaged /\ ~At(p, "make")'
  <2>1. Makers' \subseteq Makers
    <3>1. \A q \in Writer : q # p => job'[q] = job[q]
      BY <1>1 DEF Proc
    <3> QED BY <1>7, <3>1 DEF Makers, At
  <2>2. Cardinality(Makers') <= Cardinality(Makers)
    BY <1>4, <2>1, FS_Subset
  <2> QED BY <1>1, <1>2, <1>4, <1>7, <2>2 DEF IndexInv, StagedBound
<1> QED BY <1>5, <1>6, <1>7 DEF StepOf, Stages

LEMMA WholeKept ==
    ASSUME IndexInv, Whole, Uncrossed, NEW p \in Proc, StepOf(p)
    PROVE  Whole'
<1>1. /\ \A q \in Proc : q # p => job'[q] = job[q]
      /\ \A q \in Writer : q \in Proc
  BY DEF IndexInv, StepOf, Proc
<1>2. active' # None /\ active'.coll # None => active'.whole
  <2>1. CASE active' = active
    BY <1>1, <2>1 DEF Whole
  <2>2. CASE active' = Blank
    BY <2>2 DEF Blank
  <2>3. CASE p \in Writer /\ At(p, "promote") /\ active' = job[p].snap
    BY <1>1, <2>3 DEF Whole, FilledPC, At
  <2> QED BY <2>1, <2>2, <2>3 DEF StepOf, StoreMove
<1>3. ASSUME NEW q \in Writer, At(q, "fill")', job'[q].kind = "refresh"
      PROVE  active' # None /\ active' = job'[q].snap
  <2>1. CASE q = p
    BY <1>3, <2>1 DEF StepOf, Holds
  <2>2. CASE q # p
    <3>1. /\ At(q, "fill") /\ job[q].kind = "refresh" /\ job'[q] = job[q]
          /\ active # None /\ active = job[q].snap
      BY <1>1, <1>3, <2>2 DEF Whole, At
    <3>2. ~(p \in Writer /\ At(p, "retire"))
      BY <3>1 DEF Uncrossed
    <3>3. active' = active
      BY <3>1, <3>2 DEF StepOf, StoreMove
    <3> QED BY <3>1, <3>3
  <2> QED BY <2>1, <2>2
<1>4. ASSUME NEW q \in Writer, job'[q].pc \in FilledPC
      PROVE  job'[q].snap.whole
  <2>1. CASE q # p
    BY <1>1, <1>4, <2>1 DEF Whole
  <2>2. CASE q = p /\ job[p].pc \in FilledPC /\ job'[p].snap = job[p].snap
    BY <1>1, <2>2 DEF Whole
  <2>3. CASE q = p /\ At(p, "fill") /\ Fills(p)
    <3>1. job[p].meta.coll # None
      BY <2>3, StoreAssumption DEF IndexInv, IndexTypeOK, JobOK, StampedPC, At, Meta
    <3>2. job[p].kind = "refresh" => active # None /\ active = job[p].snap
      BY <1>1, <2>3 DEF Whole
    <3> QED BY <1>1, <2>2, <2>3, <3>1, <3>2 DEF Fills, Whole
  <2> QED BY <1>4, <2>1, <2>2, <2>3 DEF StepOf, Holds
<1> QED BY <1>2, <1>3, <1>4 DEF Whole

\* The repository and the observer thread leave jobs and files alone.
LEMMA AroundStep ==
    ASSUME IndexInv, UNCHANGED <<storeVars, job>>, work' \in Tree, watch' \in WatchState,
           \/ UNCHANGED <<head, committed>>
           \/ committed' \in Tree /\ head' = head + 1
    PROVE  IndexInv'
<1>1. IndexTypeOK'
  BY DEF IndexInv, IndexTypeOK, StoreTypes, storeVars, JobOK
<1>2. \A m \in Meta : Truthful(m) => Truthful(m)'
  <2>1. head \in Nat /\ \A m \in Meta : m.head \in Nat
    BY DEF IndexInv, IndexTypeOK, Meta
  <2> QED BY <2>1 DEF Truthful, Hidden
<1>3. AllTruthful'
  <2>1. \A p \in Proc : job[p].pc \in StampedPC => job[p].meta \in Meta
    BY DEF IndexInv, IndexTypeOK, JobOK
  <2> QED BY <1>2, <2>1 DEF IndexInv, AllTruthful, storeVars, Truthful
<1>4. StagedBound'
  BY DEF IndexInv, StagedBound, AllStaged, Makers, At, storeVars
<1> QED BY <1>1, <1>3, <1>4 DEF IndexInv

LEMMA ProcessStep ==
    ASSUME IndexInv, NEW p \in Proc, Call(p) \/ Step(p) \/ Crash(p)
    PROVE  StepOf(p) \/ (UNCHANGED <<storeVars, repoVars, job>> /\ watch' \in WatchState)
<1>1. CASE BuildCall(p) \/ ReadCall(p) \/ LoadExisting(p)
  BY <1>1, BuildCallStep, LoadStep DEF ReadCall, LoadExisting
<1>2. ASSUME NEW changed \in SUBSET File, RefreshCall(p, changed) \/ HookCall(p, changed)
      PROVE  StepOf(p)
  <2>1. { f \in changed : work[f] # None } \in SUBSET File
    OBVIOUS
  <2> QED BY <1>2, <2>1, RefreshCallStep DEF HookCall
<1>3. CASE WatchCall(p) \/ WatchWakes(p) \/ WatchSettles(p) \/ WatchFlushes(p)
  BY <1>3, WatchStep
<1>4. CASE Open(p) \/ Collect(p) \/ Stamp(p) \/ Base(p) \/ Guard(p) \/ Make(p) \/ Fill(p)
  BY <1>4, OpenStep, CollectStep, StampStep, BaseStep, GuardStep, MakeStep, FillStep
<1>5. CASE DropPrev(p) \/ RetireActive(p) \/ PromoteStaged(p) \/ Truncate(p) \/ Publish(p)
  BY <1>5, ActivateStep, PromoteStep, PublishStep
<1>6. CASE Crash(p)
  BY <1>6, CrashStep
<1> QED BY <1>1, <1>2, <1>3, <1>4, <1>5, <1>6 DEF Call, Step

LEMMA IndexStep == IndexInv /\ [Next]_vars => IndexInv'
<1> SUFFICES ASSUME IndexInv, [Next]_vars PROVE IndexInv'
  OBVIOUS
<1>1. /\ work \in Tree /\ committed \in Tree /\ head \in Nat /\ watch \in WatchState
  BY DEF IndexInv, IndexTypeOK
<1>2. ASSUME NEW p \in Proc, Call(p) \/ Step(p) \/ Crash(p) PROVE IndexInv'
  <2>1. CASE StepOf(p)
    BY <2>1, TypeKept, TruthKept, BoundKept DEF IndexInv
  <2>2. CASE UNCHANGED <<storeVars, repoVars, job>> /\ watch' \in WatchState
    <3>1. UNCHANGED <<storeVars, job>> /\ work' \in Tree /\ UNCHANGED <<head, committed>>
      BY <1>1, <2>2 DEF repoVars
    <3> QED BY <2>2, <3>1, AroundStep
  <2> QED BY <1>2, <2>1, <2>2, ProcessStep
<1>3. CASE Observe
  <2>1. UNCHANGED <<storeVars, repoVars, job>>
    BY <1>3 DEF Observe, ObserverSets, ObserverAdds
  <2>2. watch' \in WatchState
    <3>1. CASE ObserverSets
      BY <1>1, <3>1 DEF ObserverSets, WatchState
    <3>2. ASSUME NEW f \in File, ObserverAdds(f) PROVE watch' \in WatchState
      <4> DEFINE pending == watch.pending \cup {f}
                 queue == watch.queue \ {f}
      <4>1. pending \subseteq File /\ queue \subseteq File
        BY <1>1 DEF WatchState
      <4>2. watch' = [watch EXCEPT !.pending = pending, !.queue = queue, !.added = TRUE]
        BY <3>2 DEF ObserverAdds
      <4> HIDE DEF pending, queue
      <4> QED BY <1>1, <4>1, <4>2 DEF WatchState
    <3> QED BY <1>3, <3>1, <3>2 DEF Observe
  <2>3. UNCHANGED <<storeVars, job>> /\ work' \in Tree /\ UNCHANGED <<head, committed>>
    BY <1>1, <2>1 DEF repoVars
  <2> QED BY <2>2, <2>3, AroundStep
<1>4. ASSUME NEW f \in File, NEW c \in Content \cup {None}, Edit(f, c) PROVE IndexInv'
  <2>1. UNCHANGED <<storeVars, job, head, committed>> /\ work' = [work EXCEPT ![f] = c]
    BY <1>4 DEF Edit
  <2>2. work' \in Tree
    BY <1>1, <2>1 DEF Tree
  <2>3. watch' \in WatchState
    <3> DEFINE q == IF Watching THEN watch.queue \cup {f} ELSE watch.queue
    <3>1. q \subseteq File
      BY <1>1 DEF WatchState
    <3>2. watch' = [watch EXCEPT !.queue = q]
      BY <1>4 DEF Edit
    <3> HIDE DEF q
    <3> QED BY <1>1, <3>1, <3>2 DEF WatchState
  <2> QED BY <2>1, <2>2, <2>3, AroundStep
<1>5. CASE CommitAll
  <2>1. UNCHANGED <<storeVars, job, work, watch>> /\ committed' = work /\ head' = head + 1
    BY <1>5 DEF CommitAll
  <2>2. UNCHANGED <<storeVars, job>> /\ work' \in Tree /\ watch' \in WatchState
        /\ committed' \in Tree
    BY <1>1, <2>1
  <2> QED BY <2>1, <2>2, AroundStep
<1>6. CASE UNCHANGED vars
  <2>1. UNCHANGED <<storeVars, job, work, watch, head, committed>>
    BY <1>6 DEF vars, repoVars
  <2>2. work' \in Tree /\ watch' \in WatchState
    BY <1>1, <2>1
  <2> QED BY <2>1, <2>2, AroundStep
<1> QED BY <1>2, <1>3, <1>4, <1>5, <1>6 DEF Next

LEMMA IndexInvInit == Init => IndexInv
<1> SUFFICES ASSUME Init PROVE IndexInv
  OBVIOUS
<1>1. /\ active = None /\ staging = {} /\ litter = 0 /\ manifest = Absent
      /\ work \in [File -> Content] /\ head = 0
      /\ job = [p \in Proc |-> Idle] /\ watch = NoWatch
  BY DEF Init, StoreInit
<1>2. \A p \in Proc : job[p] \in Job /\ job[p].pc = "idle"
  BY <1>1, IdleJob
<1>3. StoreTypes
  BY <1>1 DEF StoreTypes
<1>4. IndexTypeOK
  <2>1. work \in Tree /\ committed \in Tree
    BY <1>1 DEF Tree, Init
  <2>2. watch \in WatchState
    BY <1>1 DEF NoWatch, WatchState
  <2>3. job \in [Proc -> Job]
    BY <1>1, <1>2
  <2>4. \A p \in Proc : JobOK(p)
    BY <1>2 DEF JobOK, StampedPC, FilledPC
  <2> QED BY <1>1, <1>3, <2>1, <2>2, <2>3, <2>4 DEF IndexTypeOK
<1>5. AllTruthful
  BY <1>1, <1>2 DEF AllTruthful, Absent, Meta, StampedPC
<1>6. StagedBound
  <2>1. Makers = {}
    BY <1>2 DEF Makers, At, Proc
  <2>2. Cardinality(Makers) = 0 /\ AllStaged = 0
    BY <1>1, <2>1, FS_EmptySet DEF AllStaged
  <2>3. MaxStaging \in Nat /\ Cardinality(Writer) \in Nat
    BY StoreAssumption, FS_CardinalityType
  <2> QED BY <2>2, <2>3 DEF StagedBound
<1> QED BY <1>4, <1>5, <1>6 DEF IndexInv

(***************************************************************************)
(* What holds of every index.                                              *)
(***************************************************************************)
\* The inductive invariant of the store and the processes over it.
THEOREM IndexInvariant == Spec => []IndexInv
  BY IndexInvInit, IndexStep, PTL DEF Spec

\* A status that says "up to date" is right about every file that is clean in
\* git and in no untracked directory, if the snapshot is the manifest's and held
\* the whole work tree when it was stamped; for any number of writers
\* (mcp_codebase/index/service.py, status).
THEOREM FreshCurrent == Spec => []FreshIsCurrent
<1>1. IndexInv => FreshIsCurrent
  <2> SUFFICES ASSUME IndexInv, manifest.is = "ok", active # None,
                      active.units = Units(manifest.seen), ~Stale(manifest, active),
                      NEW f \in File \ Hidden, work[f] = committed[f]
               PROVE  active.units[f] = UnitsOf(work[f])
    BY DEF FreshIsCurrent
  <2>1. manifest \in Meta /\ Truthful(manifest)
    BY ManifestIs DEF IndexInv, IndexTypeOK, AllTruthful
  <2>2. manifest.head = head /\ f \notin manifest.sig
    BY <2>1 DEF Stale, DriftPaths, Meta, Dirty
  <2>3. manifest.seen[f] = committed[f]
    BY <2>1, <2>2 DEF Truthful
  <2> QED BY <2>3 DEF Units
<1> QED BY <1>1, IndexInvariant, PTL

\* Staging directories do not pile up, whatever crashes left behind: no more
\* than the bound and one for each writer at the point of making its own
\* (mcp_codebase/index/store/chroma.py, _prune_orphaned_staging_dirs).
THEOREM StagingBounded == Spec => []StagingIsBounded
<1>1. IndexInv => StagingIsBounded
  <2> SUFFICES ASSUME IndexInv PROVE StagingIsBounded
    OBVIOUS
  <2>1. Makers \subseteq Writer /\ StoreTypes
    BY DEF Makers, IndexInv, IndexTypeOK
  <2>2. Cardinality(Makers) \in Nat /\ AllStaged \in Nat /\ MaxStaging \in Nat
        /\ Cardinality(Writer) \in Nat
    BY <2>1, StagedCount, StoreAssumption
  <2> QED BY <2>2 DEF IndexInv, StagedBound, StagingIsBounded
<1> QED BY <1>1, IndexInvariant, PTL

\* A refresh that is given every file the snapshot is behind on leaves what a
\* full build would have left; for any number of writers and files.
THEOREM RefreshRebuilds == Spec => RefreshIsRebuild
<1> DEFINE Rebuild ==
      \A p \in Writer :
          At(p, "fill") /\ job'[p].pc = "drop" /\ job[p].kind = "refresh"
          /\ (\A f \in File \ job[p].paths :
                 job[p].snap.units[f] = UnitsOf(job[p].meta.seen[f]))
          /\ (\A f \in job[p].paths : job[p].got[f] = job[p].meta.seen[f])
          => job'[p].snap.units = Units(job[p].meta.seen)
<1>1. IndexInv /\ [Next]_vars => [Rebuild]_vars
  <2> SUFFICES ASSUME IndexInv, Next, NEW p \in Writer,
                      At(p, "fill"), job'[p].pc = "drop", job[p].kind = "refresh",
                      \A f \in File \ job[p].paths :
                          job[p].snap.units[f] = UnitsOf(job[p].meta.seen[f]),
                      \A f \in job[p].paths : job[p].got[f] = job[p].meta.seen[f]
               PROVE  job'[p].snap.units = Units(job[p].meta.seen)
    OBVIOUS
  <2>1. p \in Proc /\ job'[p] # job[p]
    BY DEF At, Proc
  <2>2. ASSUME NEW q \in Proc, StepOf(q) PROVE Fills(p)
    <3>1. q = p
      BY <2>1, <2>2 DEF StepOf
    <3> QED BY <2>2, <3>1 DEF StepOf, Holds, At, FilledPC
  <2>3. Fills(p)
    <3>1. CASE \E q \in Proc : Call(q) \/ Step(q) \/ Crash(q)
      BY <2>1, <2>2, <3>1, ProcessStep
    <3>2. CASE UNCHANGED job
      BY <2>1, <3>2
    <3> QED BY <3>1, <3>2 DEF Next, Observe, ObserverSets, ObserverAdds, Edit, CommitAll
  <2> QED BY <2>3 DEF Fills, Units
<1>2. Spec => [][Rebuild]_vars
  BY <1>1, IndexInvariant, PTL DEF Spec
<1> QED BY <1>2 DEF RefreshIsRebuild

LEMMA WholeInit == Init => Whole
<1> SUFFICES ASSUME Init PROVE Whole
  OBVIOUS
<1>1. active = None /\ \A p \in Proc : job[p].pc = "idle"
  BY IdleJob DEF Init, StoreInit
<1> QED BY <1>1 DEF Whole, At, Proc, FilledPC

LEMMA WholeStep == IndexInv /\ Whole /\ Uncrossed /\ [Next]_vars => Whole'
<1> SUFFICES ASSUME IndexInv, Whole, Uncrossed, [Next]_vars PROVE Whole'
  OBVIOUS
<1>1. ASSUME UNCHANGED <<active, job>> PROVE Whole'
  BY <1>1 DEF Whole, At
<1>2. ASSUME NEW p \in Proc, Call(p) \/ Step(p) \/ Crash(p) PROVE Whole'
  BY <1>1, <1>2, ProcessStep, WholeKept DEF storeVars
<1>3. CASE ~\E p \in Proc : Call(p) \/ Step(p) \/ Crash(p)
  BY <1>1, <1>3 DEF Next, Observe, ObserverSets, ObserverAdds, Edit, CommitAll, vars, storeVars
<1> QED BY <1>2, <1>3

LEMMA WholeIsRead == IndexInv /\ Whole => ReadersSeeWhole
<1> SUFFICES ASSUME IndexInv, Whole, NEW p \in Reader, At(p, "open"),
                    Openable(job[p].meta.coll)
             PROVE  active.whole
  BY DEF ReadersSeeWhole
<1>1. job[p].meta \in Meta
  BY DEF IndexInv, IndexTypeOK, JobOK, At, Proc
<1>2. job[p].meta.coll # None
  BY <1>1, StoreAssumption DEF Meta
<1> QED BY <1>2 DEF Openable, Whole

\* However many writers build and refresh, and whatever readers, edits and crashes come
\* between: no query is answered from a snapshot that is half written or half copied,
\* unless a writer came to retire the active snapshot while another one copied it.
THEOREM UncrossedReadsWhole == Spec /\ []Uncrossed => []ReadersSeeWhole
  BY IndexInvariant, WholeInit, WholeStep, WholeIsRead, PTL DEF Spec

\* With one writer it never comes to that.
THEOREM OneWriterReadsWhole ==
    ASSUME \A p, q \in Writer : p = q
    PROVE  Spec => []ReadersSeeWhole
<1>1. Uncrossed
  BY DEF Uncrossed, At
<1>2. []Uncrossed
  BY <1>1, PTL
<1> QED BY <1>2, UncrossedReadsWhole, PTL
=============================================================================
