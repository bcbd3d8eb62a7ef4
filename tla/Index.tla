--------------------------------- MODULE Index ---------------------------------
(***************************************************************************)
(* The vector index of the repository (mcp_codebase/index/service.py,      *)
(* mcp_codebase/indexer.py, scripts/hook_refresh_indexes.py) over the      *)
(* snapshot store: processes that build the index, refresh it for changed  *)
(* files, query it or ask whether it is stale; a watcher that refreshes    *)
(* what its observer thread reports; and the repository under them, which  *)
(* is edited and committed at any time.                                    *)
(***************************************************************************)
EXTENDS SnapshotStore

CONSTANTS
    Watcher,       \* the writers that run "watch"; at most one
    Reader,        \* processes that query or ask for the status
    NewDir,        \* the files of one directory that need not be tracked yet
    MaxMishaps     \* bound: edits, commits and crashes together

Proc == Writer \cup Reader

ASSUME IndexAssumption ==
    /\ Watcher \subseteq Writer /\ Writer \cap Reader = {}
    /\ Cardinality(Watcher) <= 1
    /\ None \notin File /\ NewDir \subseteq File

VARIABLES
    work,          \* the work tree: what each file holds
    committed,     \* what it holds in HEAD
    head,          \* the number of commits
    job,           \* job[p]: what process p is doing
    watch,         \* the watcher's buffer, trigger and undelivered events
    mishaps        \* how many edits and crashes there were

repoVars == <<work, committed, head>>
vars == <<storeVars, repoVars, job, watch, mishaps>>

\* The files git does not name: of a directory that is untracked as a whole it
\* prints one line, and status drops that one, since it has no suffix.
Hidden == IF \A f \in NewDir : committed[f] = None THEN NewDir ELSE {}

\* _current_git_signature, its paths: the files git status lists.
Dirty == { f \in File : work[f] # committed[f] } \ Hidden

Calm == mishaps + head >= MaxMishaps

NoTree == [f \in File |-> None]

Idle == [pc |-> "idle", kind |-> None, paths |-> {}, got |-> NoTree, meta |-> Absent,
         snap |-> None]

At(p, pc) == job[p].pc = pc
Busy(p) == job[p].pc # "idle"
Set(p, new) == job' = [job EXCEPT ![p] = new]
To(p, pc) == Set(p, [job[p] EXCEPT !.pc = pc])

\* The end of an operation; its answer goes to the caller and is not kept.
\* The watcher goes on after a success, an exception ends it.
Ends(p, ok) == Set(p, [Idle EXCEPT !.pc = IF ok /\ p \in Watcher THEN "wait" ELSE "idle"])

onlyJob == <<storeVars, repoVars, watch, mishaps>>

\* An exception in a writer: its staging directory is removed on the way out.
Fail(p) ==
    /\ Ends(p, FALSE)
    /\ DropStaging(p)

(***************************************************************************)
(* Calls.  The hook passes on only the paths that exist; the command line  *)
(* takes any.                                                              *)
(***************************************************************************)
BuildCall(p) ==
    /\ p \in Writer \ Watcher /\ At(p, "idle")
    /\ Set(p, [Idle EXCEPT !.pc = "collect", !.kind = "build", !.paths = File])
    /\ UNCHANGED onlyJob

RefreshCall(p, changed) ==
    /\ p \in Writer \ Watcher /\ At(p, "idle") /\ changed # {}
    /\ Set(p, [Idle EXCEPT !.pc = "load", !.kind = "refresh", !.paths = changed])
    /\ UNCHANGED onlyJob

HookCall(p, changed) == RefreshCall(p, { f \in changed : work[f] # None })

(***************************************************************************)
(* load_snapshot, query and status: the manifest, then the directory.      *)
(***************************************************************************)
OnlyColl(c) == [is |-> "ok", coll |-> c, head |-> 0, sig |-> {}, seen |-> NoTree]

Load(p) ==
    \/ ~ManifestReadable /\ Ends(p, FALSE)
    \/ /\ ManifestReadable /\ NoIndex
       /\ IF p \in Reader THEN Ends(p, TRUE) ELSE To(p, "collect")
    \/ /\ ManifestReadable /\ ~NoIndex
       /\ Set(p, [job[p] EXCEPT !.pc = "open", !.meta = OnlyColl(manifest.coll)])

\* A reader queries, or asks for the status: it opens the snapshot either way,
\* and the status then is what Stale says.
ReadCall(p) ==
    /\ p \in Reader /\ At(p, "idle")
    /\ Load(p)
    /\ UNCHANGED onlyJob

LoadExisting(p) ==
    /\ At(p, "load")
    /\ Load(p)
    /\ UNCHANGED onlyJob

\* Where the dirty paths are others; a moved HEAD is a reason of its own below.
DriftPaths(meta) == (meta.sig \ Dirty) \cup (Dirty \ meta.sig)

MissingPaths(snap) == {f \in File : work[f] # None /\ snap.units[f] = {}}

\* Mutant: only the paths that are dirty now are compared.
Stale_NowDirty(meta, snap) ==
    meta.head # head \/ Dirty \ meta.sig # {} \/ MissingPaths(snap) # {}

\* status: HEAD moved, the dirty paths are others, or a file has no units.
Stale(meta, snap) ==
    meta.head # head \/ DriftPaths(meta) # {} \/ MissingPaths(snap) # {}

Open(p) ==
    /\ At(p, "open")
    /\ OpenTouches
    /\ \/ /\ ~Openable(job[p].meta.coll)
          /\ Ends(p, FALSE)
       \/ /\ Openable(job[p].meta.coll)
          /\ IF p \in Reader THEN Ends(p, TRUE)
             ELSE Set(p, [job[p] EXCEPT !.pc = "collect", !.meta = Absent])
    /\ UNCHANGED <<previous, staging, litter, manifest, repoVars, watch, mishaps>>

(***************************************************************************)
(* build_full_index and refresh_changed_files: extract the files, then ask *)
(* git where the repository is, then write.                                *)
(***************************************************************************)
Collect(p) ==
    /\ At(p, "collect")
    /\ Set(p, [job[p] EXCEPT !.pc = "stamp",
                  !.got = [f \in File |-> IF f \in job[p].paths THEN work[f] ELSE None]])
    /\ UNCHANGED onlyJob

UsedColl ==
    { s.coll : s \in ({active} \cup { job[p].snap : p \in Proc }) \ {None} }
    \cup { m.coll : m \in { x \in {manifest} \cup { job[p].meta : p \in Proc } : x.is = "ok" } }

\* _build_metadata; "seen" is kept for the properties: the tree at that time.
Stamp(p) ==
    /\ At(p, "stamp")
    /\ Coll \ UsedColl # {}
    /\ LET fresh == CHOOSE c \in Coll \ UsedColl : TRUE IN
       Set(p, [job[p] EXCEPT
            !.pc = IF job[p].kind = "refresh" THEN "base" ELSE "guard",
            !.meta = [is |-> "ok", coll |-> fresh, head |-> head, sig |-> Dirty,
                      seen |-> work]])
    /\ UNCHANGED onlyJob

\* refresh_changed_snapshot: without an index the changed files become one.
Base(p) ==
    /\ At(p, "base")
    /\ \/ ~ManifestReadable /\ Ends(p, FALSE)
       \/ /\ ManifestReadable /\ NoIndex
          /\ Set(p, [job[p] EXCEPT !.pc = "guard", !.kind = "build"])
       \/ /\ ManifestReadable /\ ~NoIndex
          /\ Set(p, [job[p] EXCEPT !.pc = "guard", !.meta.coll = manifest.coll])
    /\ UNCHANGED onlyJob

Guard(p) ==
    /\ At(p, "guard")
    /\ Prune
    /\ \/ To(p, "make")
       \/ Ends(p, FALSE)                        \* too little disk left
    /\ UNCHANGED <<active, previous, manifest, repoVars, watch, mishaps>>

\* The staging directory; a clone needs an active one to copy.
Make(p) ==
    /\ At(p, "make")
    /\ \/ /\ job[p].kind = "refresh" /\ active = None
          /\ Ends(p, FALSE)
          /\ UNCHANGED <<staging, litter>>
       \/ /\ job[p].kind = "build" \/ active # None
          /\ MakeStaging(p)
          /\ Set(p, [job[p] EXCEPT !.pc = "fill",
                         !.snap = IF job[p].kind = "refresh" THEN active ELSE Blank])
    /\ UNCHANGED <<active, previous, manifest, repoVars, watch, mishaps>>

\* Mutant: the old units of a changed file are not deleted.
Patched_Keeps(p, snap) ==
    [snap EXCEPT !.units = [f \in File |->
        IF f \in job[p].paths THEN @[f] \cup UnitsOf(job[p].got[f]) ELSE @[f]]]

\* The units of the changed files are replaced, the others kept.
Patched(p, snap) ==
    [snap EXCEPT !.units = [f \in File |->
        IF f \in job[p].paths THEN UnitsOf(job[p].got[f]) ELSE @[f]]]

\* A build writes its units; a refresh copies and patches.  A copy whose
\* source was moved away under it fails, or is made of two sources.
Filled(p, snap) ==
    /\ Set(p, [job[p] EXCEPT !.pc = "drop", !.snap = snap, !.got = NoTree, !.paths = {}])
    /\ UNCHANGED <<staging, litter>>

\* Mutant: an error while writing is not raised.
Fill_Swallows(p) ==
    /\ At(p, "fill") /\ job[p].kind = "build"
    /\ \E w \in BOOLEAN :
          Filled(p, [Full(job[p].meta.coll, Units(job[p].got)) EXCEPT !.whole = w])
    /\ UNCHANGED <<active, previous, manifest, repoVars, watch, mishaps>>

Fill(p) ==
    LET source == job[p].snap IN
    /\ At(p, "fill")
    /\ \/ Fail(p)                                     \* embedding, or the copy
       \/ /\ job[p].kind = "build"
          /\ Filled(p, Full(job[p].meta.coll, Units(job[p].got)))
       \/ /\ job[p].kind = "refresh" /\ source.coll = job[p].meta.coll
          /\ Filled(p, Patched(p, [source EXCEPT !.whole = @ /\ active = source]))
    /\ UNCHANGED <<active, previous, manifest, repoVars, watch, mishaps>>

DropPrev(p) ==
    /\ At(p, "drop")
    /\ DropPrevious
    /\ To(p, "retire")
    /\ UNCHANGED <<active, staging, litter, manifest, repoVars, watch, mishaps>>

RetireActive(p) ==
    /\ At(p, "retire")
    /\ Retire
    /\ To(p, "promote")
    /\ UNCHANGED <<staging, litter, manifest, repoVars, watch, mishaps>>

PromoteStaged(p) ==
    /\ At(p, "promote")
    /\ \/ /\ ~Promotable(p)
          /\ Fail(p)
          /\ UNCHANGED active
       \/ /\ Promotable(p)
          /\ Promote(p, job[p].snap)
          /\ Set(p, [job[p] EXCEPT !.pc = "truncate", !.snap = None])
    /\ UNCHANGED <<previous, manifest, repoVars, watch, mishaps>>

Truncate(p) ==
    /\ At(p, "truncate")
    /\ TruncateManifest
    /\ To(p, "publish")
    /\ UNCHANGED <<active, previous, staging, litter, repoVars, watch, mishaps>>

Publish(p) ==
    /\ At(p, "publish")
    /\ FillManifest(job[p].meta)
    /\ Ends(p, TRUE)
    /\ UNCHANGED <<active, previous, staging, litter, repoVars, watch, mishaps>>

(***************************************************************************)
(* The watcher (_run_watch, _PendingRefreshBuffer) and its observer thread *)
(* (_WatchEventHandler): an event is added to the buffer, then the trigger *)
(* is set.  An exception ends the watch.                                   *)
(***************************************************************************)
NoWatch == [pending |-> {}, trigger |-> FALSE, queue |-> {}, added |-> FALSE]

Watching == \E w \in Watcher : ~At(w, "idle")

WatchCall(w) ==
    /\ w \in Watcher /\ At(w, "idle")
    /\ To(w, "wait")
    /\ watch' = NoWatch
    /\ UNCHANGED <<storeVars, repoVars, mishaps>>

ObserverAdds(f) ==
    /\ Watching /\ f \in watch.queue /\ ~watch.added
    /\ watch' = [watch EXCEPT !.pending = @ \cup {f}, !.queue = @ \ {f}, !.added = TRUE]
    /\ UNCHANGED <<storeVars, repoVars, job, mishaps>>

ObserverSets ==
    /\ Watching /\ watch.added
    /\ watch' = [watch EXCEPT !.trigger = TRUE, !.added = FALSE]
    /\ UNCHANGED <<storeVars, repoVars, job, mishaps>>

WatchWakes(w) ==
    /\ At(w, "wait") /\ watch.trigger
    /\ watch' = [watch EXCEPT !.trigger = FALSE]
    /\ To(w, "settle")
    /\ UNCHANGED <<storeVars, repoVars, mishaps>>

\* After the pause: once more if something came meanwhile.
WatchSettles(w) ==
    /\ At(w, "settle")
    /\ watch' = [watch EXCEPT !.trigger = FALSE]
    /\ IF watch.trigger THEN UNCHANGED job ELSE To(w, "flush")
    /\ UNCHANGED <<storeVars, repoVars, mishaps>>

\* Mutant: one path at a time is taken from the buffer.
WatchFlushes_One(w) ==
    /\ At(w, "flush")
    /\ \/ watch.pending = {} /\ To(w, "wait") /\ UNCHANGED watch
       \/ \E f \in watch.pending :
            /\ watch' = [watch EXCEPT !.pending = @ \ {f}]
            /\ Set(w, [Idle EXCEPT !.pc = "load", !.kind = "refresh", !.paths = {f}])
    /\ UNCHANGED <<storeVars, repoVars, mishaps>>

WatchFlushes(w) ==
    /\ At(w, "flush")
    /\ watch' = [watch EXCEPT !.pending = {}]
    /\ IF watch.pending = {} THEN To(w, "wait")
       ELSE Set(w, [Idle EXCEPT !.pc = "load", !.kind = "refresh", !.paths = watch.pending])
    /\ UNCHANGED <<storeVars, repoVars, mishaps>>

(***************************************************************************)
(* The repository: an edit (or a deletion), and git add and a commit of    *)
(* everything.                                                             *)
(***************************************************************************)
Edit(f, c) ==
    /\ ~Calm /\ work[f] # c
    /\ work' = [work EXCEPT ![f] = c]
    /\ mishaps' = mishaps + 1
    /\ watch' = [watch EXCEPT !.queue = IF Watching THEN @ \cup {f} ELSE @]
    /\ UNCHANGED <<storeVars, committed, head, job>>

CommitAll ==
    /\ work # committed /\ ~Calm
    /\ committed' = work
    /\ head' = head + 1
    /\ UNCHANGED <<storeVars, work, job, watch, mishaps>>

Crash(p) ==
    /\ Busy(p) /\ ~Calm
    /\ mishaps' = mishaps + 1
    /\ Set(p, Idle)
    /\ AbandonStaging(p)
    /\ UNCHANGED <<active, previous, manifest, repoVars, watch>>

Init ==
    /\ StoreInit
    /\ work \in [File -> Content]
    /\ committed \in {work, [f \in File |-> IF f \in NewDir THEN None ELSE work[f]]}
    /\ head = 0
    /\ job = [p \in Proc |-> Idle]
    /\ watch = NoWatch
    /\ mishaps = 0

Call(p) ==
    \/ BuildCall(p)
    \/ \E changed \in SUBSET File : RefreshCall(p, changed) \/ HookCall(p, changed)
    \/ ReadCall(p)
    \/ WatchCall(p)

Step(p) ==
    \/ LoadExisting(p) \/ Open(p) \/ Collect(p) \/ Stamp(p) \/ Base(p) \/ Guard(p) \/ Make(p)
    \/ Fill(p) \/ DropPrev(p) \/ RetireActive(p) \/ PromoteStaged(p)
    \/ Truncate(p) \/ Publish(p)
    \/ WatchWakes(p) \/ WatchSettles(p) \/ WatchFlushes(p)

Observe == ObserverSets \/ \E f \in File : ObserverAdds(f)

Next ==
    \/ \E p \in Proc : Call(p) \/ Step(p) \/ Crash(p)
    \/ Observe
    \/ \E f \in File, c \in Content \cup {None} : Edit(f, c)
    \/ CommitAll

Spec == Init /\ [][Next]_vars

\* Running processes and the observer thread go on; nobody has to call, edit,
\* commit or die.
FairSpec == Spec /\ WF_vars(Observe) /\ \A p \in Proc : WF_vars(Step(p))
-------------------------------------------------------------------------------
TypeOK ==
    /\ StoreTypeOK
    /\ work \in Tree /\ committed \in Tree
    /\ head \in 0 .. MaxMishaps
    /\ watch.pending \subseteq File /\ watch.queue \subseteq File
    /\ \A p \in Proc : job[p].paths \subseteq File /\ job[p].got \in Tree

(***************************************************************************)
(* No query is answered from a snapshot that is half written or half       *)
(* copied, while writers take turns: what is promoted is complete.         *)
(***************************************************************************)
ReadersSeeWhole ==
    \A p \in Reader : At(p, "open") /\ Openable(job[p].meta.coll) => active.whole

Served ==
    /\ manifest.is = "ok"
    /\ active # None /\ active.coll = manifest.coll /\ active.whole

(***************************************************************************)
(* A status that says "up to date" is right about every file that git      *)
(* would name and that is clean, if the snapshot held the whole work tree  *)
(* when its commit and signature were taken: a file that was dirty then,   *)
(* and is not now, shows in the signatures, one that was committed since   *)
(* shows in HEAD.  It is not said of a file in an untracked directory: one *)
(* that is edited or deleted there leaves the status up to date.  Nor is   *)
(* it of a snapshot that is not the manifest's: after a crash between the  *)
(* activation and the manifest the code compares with older stamps.        *)
(***************************************************************************)
FreshIsCurrent ==
    manifest.is = "ok" /\ active # None /\ active.units = Units(manifest.seen)
        /\ ~Stale(manifest, active)
    => \A f \in File \ Hidden :
          work[f] = committed[f] => active.units[f] = UnitsOf(work[f])

\* What a status is asked for: "up to date" is right about every file that was not
\* dirty when the snapshot was stamped, tracked or not.
UpToDateIsCurrent ==
    Served /\ active.units = Units(manifest.seen) /\ ~Stale(manifest, active)
    => \A f \in File \ manifest.sig : active.units[f] = UnitsOf(work[f])

(***************************************************************************)
(* A refresh that is given every file the snapshot is behind on leaves     *)
(* what a full build would have left.                                      *)
(***************************************************************************)
RefreshIsRebuild ==
    [][\A p \in Writer :
          At(p, "fill") /\ job'[p].pc = "drop" /\ job[p].kind = "refresh"
          /\ (\A f \in File \ job[p].paths :
                 job[p].snap.units[f] = UnitsOf(job[p].meta.seen[f]))
          /\ (\A f \in job[p].paths : job[p].got[f] = job[p].meta.seen[f])
          => job'[p].snap.units = Units(job[p].meta.seen)]_vars

\* Staging directories do not pile up, whatever crashes left behind.
StagingIsBounded == AllStaged <= MaxStaging + Cardinality(Writer)

(***************************************************************************)
(* A refresh that fails or is interrupted leaves the prior snapshot        *)
(* queryable: data-model.md's row for a refresh that fails.                *)
(***************************************************************************)
PriorStaysQueryable ==
    manifest.is = "ok" /\ (\A p \in Writer : ~Busy(p)) => Served

(***************************************************************************)
(* A change reported while the watch runs gets into the index, whatever is *)
(* edited or deleted meanwhile, unless an error or a crash ends the watch. *)
(***************************************************************************)
CatchesUp ==
    \A f \in File : f \in watch.queue ~>
        ~Watching \/ (Served /\ active.units[f] = UnitsOf(work[f]))
=============================================================================
