------------------------------- MODULE EditSync -------------------------------
(***************************************************************************)
(* scripts/edit_code.py over the work tree and the read gate: "sync"       *)
(* validates the changed files of its scope, refreshes the indexes for     *)
(* them, stages them, commits, and pushes or hands the commit to a review; *)
(* with a verdict it comes back, closes the task out with the commit at    *)
(* HEAD and amends that commit with the documents.                         *)
(***************************************************************************)
EXTENDS ReadGate

VARIABLES
    closed,        \* the commits that tasks were closed out with
    sync           \* sync[s]: what run s of edit_code remembers

vars == <<treeVars, gateVars, closed, sync>>

\* clean, edits, ops: whether anything was staged when the run began, and the
\* counts then, its own changes added; they are not in the code.  took and put
\* are the commit it made.
NoSync == [scope |-> {}, want |-> {}, clean |-> FALSE, edits |-> 0, ops |-> 0,
           valid |-> None, took |-> {}, put |-> None, sha |-> 0]

SetSync(s, new) == sync' = [sync EXCEPT ![s] = new]
Same == UNCHANGED <<seen, marker, probe, recent, scratch, calls>>
Calls == Called /\ UNCHANGED <<seen, marker, probe, recent, scratch>>

\* A call that ends, whatever its exit code.
Stops(s) ==
    /\ Ends(s)
    /\ SetSync(s, NoSync)
    /\ UNCHANGED <<treeVars, closed>> /\ Same

\* The step pc of run s goes on to next, and the tree stays.
Passes(s, pc, next) ==
    /\ At(s, pc) /\ To(s, next)
    /\ UNCHANGED <<treeVars, closed>> /\ Same

Init ==
    /\ TreeInit /\ GateInit
    /\ closed = {}
    /\ sync = [s \in Syncer |-> NoSync]

\* main: the calls are bounded by the changes of HEAD they will make.
SyncCall(s, scope) ==
    /\ s \in Syncer /\ At(s, "idle") /\ ops + 2 <= MaxOps
    /\ Set(s, [Idle EXCEPT !.pc = "dirty"])
    /\ SetSync(s, [NoSync EXCEPT !.scope = scope,
                                 !.clean = staged = committed, !.edits = edits, !.ops = ops])
    /\ UNCHANGED <<treeVars, closed>> /\ Calls

\* _split_dirty_candidates: a path of the scope, or a file below one.
InScope(scope) == { x \in DirtyPaths : x \in scope \cup FilesAt(scope) }

\* The dirty paths of the scope; all of it when git fails.
ProbeDirty(s) ==
    /\ At(s, "dirty")
    /\ \E want \in {InScope(sync[s].scope), sync[s].scope} :
       IF want = {} THEN Stops(s)
       ELSE /\ To(s, "validate")
            /\ SetSync(s, [sync[s] EXCEPT !.want = want, !.scope = {}])
            /\ UNCHANGED <<treeVars, closed>> /\ Same

\* _run_validate: tests, lint and types pass on what the files hold now, or the
\* run ends; a directory is no file to any of them.
Validate(s) ==
    \/ /\ Passes(s, "validate", "check")
       /\ SetSync(s, [sync[s] EXCEPT !.valid = [f \in sync[s].want \cap File |-> work[f]]])
    \/ At(s, "validate") /\ Stops(s)

\* _run_refresh: the paths that are to be committed; a failure ends the run.
RefreshWanted(s) ==
    /\ At(s, "check")
    /\ Set(s, [job[s] EXCEPT !.pc = "refresh", !.ret = "add", !.paths = sync[s].want])
    /\ UNCHANGED <<treeVars, closed, sync>> /\ Same

\* Mutant: everything that changed is staged (git add -A).
ToStage_All(s) == FilesAt(DirtyPaths)

ToStage(s) == FilesAt(sync[s].want)

\* git add, of all that is in a directory; git fails, or its index stays locked through the retries.
GitAdd(s) ==
    /\ At(s, "add")
    /\ \/ Stops(s)
       \/ /\ Add(ToStage(s))
          /\ To(s, "staged")
          /\ SetSync(s, [sync[s] EXCEPT !.ops = @ + 1])
          /\ UNCHANGED closed /\ Same

\* _has_staged_path_changes
CheckStaged(s) ==
    \/ (\E f \in ToStage(s) : staged[f] # committed[f])
          /\ Passes(s, "staged", "commit") /\ UNCHANGED sync
    \/ (\A f \in ToStage(s) : staged[f] = committed[f]) /\ At(s, "staged") /\ Stops(s)

\* git commit, of everything that is staged.
GitCommit(s) ==
    /\ At(s, "commit")
    /\ \/ Stops(s)
       \/ /\ staged # committed
          /\ CommitStaged
          /\ To(s, "committed")
          /\ SetSync(s, [sync[s] EXCEPT !.ops = @ + 1, !.put = staged, !.sha = ops',
                                        !.took = { f \in File : staged[f] # committed[f] }])
          /\ UNCHANGED closed /\ Same

\* With a review to come the run ends here, without a push; so it does when the
\* behavioral QA fails, or without a push wanted.
AfterCommit(s) ==
    \/ At(s, "committed") /\ Stops(s)
    \/ Passes(s, "committed", "push") /\ SetSync(s, NoSync)

GitPush(s) ==
    /\ At(s, "push")
    /\ pushed' = IF PushAccepted THEN log ELSE pushed
    /\ Ends(s) /\ SetSync(s, NoSync)
    /\ UNCHANGED <<work, staged, committed, log, edits, ops, closed>> /\ Same

(***************************************************************************)
(* The verdict has passed: _resume_sync_closeout.                          *)
(***************************************************************************)
VerdictCall(s) ==
    /\ s \in Syncer /\ At(s, "idle") /\ ops < MaxOps /\ Len(log) > 1
    /\ Set(s, [Idle EXCEPT !.pc = "closeout"])
    /\ SetSync(s, [NoSync EXCEPT !.sha = HeadCommit])
    /\ UNCHANGED <<treeVars, closed>> /\ Calls

\* _run_closeout and _run_implement_docs_update: the ledger names the commit and
\* the documents change; they are outside File.
CloseOut(s) ==
    /\ At(s, "closeout")
    /\ \/ Stops(s)
       \/ /\ closed' = closed \cup {sync[s].sha}
          /\ To(s, "amend")
          /\ UNCHANGED <<treeVars, sync>> /\ Same

\* The documents are staged and HEAD is amended; that may fail unnoticed.
Amend(s) ==
    /\ At(s, "amend")
    /\ AmendHead \/ UNCHANGED treeVars
    /\ To(s, "push") \/ Ends(s)
    /\ SetSync(s, NoSync)
    /\ UNCHANGED closed /\ Same

SyncStep(s) ==
    \/ ProbeDirty(s) \/ Validate(s) \/ RefreshWanted(s) \/ GitAdd(s) \/ CheckStaged(s)
    \/ GitCommit(s) \/ AfterCommit(s) \/ GitPush(s)
    \/ VerdictCall(s) \/ CloseOut(s) \/ Amend(s)

\* A run whose refresh failed has ended, and forgets.
Forgets == sync' = [s \in Syncer |-> IF job'[s].pc = "idle" THEN NoSync ELSE sync[s]]

Others(f) == EditFile(f) \/ DeleteFile(f) \/ StageByHand(f)

Next ==
    \/ \E p \in Proc : GateStep(p) /\ Forgets /\ UNCHANGED closed
    \/ \E h \in Hook, paths \in SUBSET File : HookCall(h, paths) /\ Forgets /\ UNCHANGED closed
    \/ Forget /\ UNCHANGED <<closed, sync>>
    \/ \E s \in Syncer, scope \in SUBSET Path \ {{}} : SyncCall(s, scope)
    \/ \E s \in Syncer : SyncStep(s)
    \/ \E f \in File : Others(f) /\ UNCHANGED <<gateVars, closed, sync>>
    \/ CommitByHand /\ UNCHANGED <<gateVars, closed, sync>>

Spec == Init /\ [][Next]_vars

(***************************************************************************)
(* Properties                                                              *)
(***************************************************************************)
TypeOK ==
    /\ work \in [File -> Nat] /\ staged \in [File -> Nat] /\ committed \in [File -> Nat]
    /\ seen = None \/ seen \in [File -> Nat]
    /\ closed \subseteq 0 .. MaxOps
    /\ \A i \in 1 .. Len(log) : log[i] \in 0 .. MaxOps

\* What nobody disturbed: nothing was staged before the run, and since it began
\* no file was edited and nobody else staged or committed.
Undisturbed(s) ==
    sync[s].clean /\ sync[s].edits = edits /\ sync[s].ops = ops

\* An undisturbed run commits files of its scope and no others.  Each that git
\* named is committed as it was validated, and the vector index has taken it in,
\* if its suffix is one that the refresh takes and it is not gone.
CommitIsWhatWasChecked ==
    \A s \in Syncer :
        At(s, "committed") /\ Undisturbed(s) =>
            /\ sync[s].took \subseteq FilesAt(sync[s].want)
            /\ \A f \in sync[s].want \cap File :
                 /\ sync[s].put[f] = sync[s].valid[f]
                 /\ f \in Vector /\ sync[s].put[f] # Gone => seen[f] = sync[s].put[f]

\* What the refresh before the commit is for: the index has what is committed, whatever
\* its suffix (index/service.py takes .yaml and .yml in).
CommitIsIndexed ==
    \A s \in Syncer : At(s, "committed") /\ Undisturbed(s) =>
        \A f \in sync[s].took : sync[s].put[f] # Gone => seen[f] = sync[s].put[f]

\* What the task ledger is for: a commit it names is on the branch.
ClosedIsOnBranch == \A id \in closed : \E i \in 1 .. Len(log) : log[i] = id
===============================================================================
