------------------------------- MODULE Codegraph -------------------------------
(***************************************************************************)
(* The code graph: the index runs of scripts/cgc_safe_index.py under the   *)
(* owner and lock markers of scripts/cgc_owner.py, the health that         *)
(* src/mcp_codebase/health.py reads off the files they leave, and the      *)
(* discovery of scripts/read_code.py that trusts, refreshes or refuses the *)
(* graph by that health.                                                   *)
(***************************************************************************)
EXTENDS WorkTree

CONSTANTS
    Indexer,       \* processes for index runs: hooks, workers, command lines
    Finder,        \* processes that ask the graph; all of one session
    Attempts,      \* CODEGRAPH_LOCK_RETRY_ATTEMPTS, at least one
    MaxIndexed     \* bound on the calls

GraphProc == Indexer \cup Finder

\* What is asked about: a file, or anything below the root.
Scope == File \cup {"root"}

ASSUME CodegraphAssumption ==
    /\ "root" \notin File /\ None \notin GraphProc /\ "empty" \notin GraphProc
    /\ Attempts \in Nat \ {0} /\ MaxIndexed \in Nat

VARIABLES
    graph,         \* what the graph holds of each file, or None
    newer,         \* the files changed since the database was written last
    signed,        \* last-edit-signature.txt; {} when there is none
    owner,         \* kuzudb.owner.pid: a process, "empty", or None
    lock,          \* kuzudb.lock: "fresh", "old", or None
    pressed,       \* whether last-index-error.txt is there
    children,      \* the cgc runs: of whom, and for which files
    launched,      \* whether the session's preflight marker is there
    found,         \* the scratchpad of find: per scope an answer, or None
    run,           \* run[p]: what process p is doing
    indexed        \* how many calls were made

graphVars == <<graph, newer, signed, owner, lock, pressed, children, launched,
               found, run, indexed>>

\* saw: who held the lease when this run began to wait, and holds it still; how
\* and got tell how an answer came about and what it was.  Neither is in the code.
Resting == [pc |-> "idle", ret |-> "idle", scope |-> "root", files |-> {}, tries |-> 0,
            saw |-> {}, sig |-> {}, how |-> None, got |-> None]

InPc(p, pc) == run[p].pc = pc
Now(p, new) == run' = [run EXCEPT ![p] = new]
Go(p, pc) == Now(p, [run[p] EXCEPT !.pc = pc])

\* A process that was killed has no pid any more.
Alive(p) == ~InPc(p, "killed")

Holding == { p \in GraphProc : run[p].pc \in {"start", "index", "ended"} /\ owner = p }

CodegraphInit ==
    /\ graph \in {None, work} /\ newer = {} /\ signed = {}
    /\ owner = None /\ lock = None /\ pressed = FALSE /\ children = {}
    /\ launched = FALSE /\ found = [s \in Scope |-> None]
    /\ run = [p \in GraphProc |-> Resting] /\ indexed = 0

\* After an index run: a failure ends what it was for.
Resumed(p, ok) ==
    IF run[p].ret = "idle" \/ ~ok THEN Resting
    ELSE [run[p] EXCEPT !.pc = run[p].ret, !.files = {}, !.saw = {}]

UnderLease == <<owner, lock>>
Asked == <<launched, found>>

(***************************************************************************)
(* An index run: wait for the markers, write them, run cgc, remove them.   *)
(***************************************************************************)
\* The whole repository is refused without an opt-in.
OnIndex(p, files, ret) ==
    [run[p] EXCEPT !.pc = "wait", !.ret = ret, !.files = files, !.saw = Holding]

IndexCall(p, files) ==
    /\ p \in Indexer /\ InPc(p, "idle") /\ indexed < MaxIndexed
    /\ indexed' = indexed + 1
    /\ Now(p, OnIndex(p, files, "idle"))
    /\ UNCHANGED <<treeVars, graph, newer, signed, owner, lock, pressed, children, Asked>>

\* Mutant: the owner is not asked for, only how old its lock is.
OwnerGone_Lock(q) == lock # "fresh"

\* pid_is_alive of what the owner marker names; an empty marker names nobody.
OwnerGone(q) == q \notin { p \in GraphProc : Alive(p) }

\* wait_for_release, one look at the markers.
WaitForRelease(p) ==
    /\ InPc(p, "wait")
    /\ \/ owner = None /\ lock = None /\ Go(p, "claim")
       \/ owner # None /\ OwnerGone(owner) /\ Go(p, "clear")
       \/ owner = None /\ lock = "old" /\ Go(p, "unlock")
       \/ (owner # None \/ lock # None) /\ Now(p, Resumed(p, FALSE))
    /\ UNCHANGED <<treeVars, graph, newer, signed, owner, lock, pressed, children, Asked, indexed>>

\* What was found stale is removed, whatever it is by now.
ClearArtifacts(p) ==
    /\ InPc(p, "clear")
    /\ owner' = None /\ lock' = None /\ Go(p, "claim")
    /\ UNCHANGED <<treeVars, graph, newer, signed, pressed, children, Asked, indexed>>

UnlinkStaleLock(p) ==
    /\ InPc(p, "unlock")
    /\ lock' = None /\ Go(p, "claim")
    /\ UNCHANGED <<treeVars, graph, newer, signed, owner, pressed, children, Asked, indexed>>

\* claim, three writes: the marker is emptied, filled, and the lock written.
ClaimMarkers(p) ==
    /\ \/ InPc(p, "claim") /\ owner' = "empty" /\ UNCHANGED lock /\ Go(p, "sign")
       \/ InPc(p, "sign") /\ owner' = p /\ UNCHANGED lock /\ Go(p, "lock")
       \/ InPc(p, "lock") /\ lock' = "fresh" /\ UNCHANGED owner /\ Go(p, "start")
    /\ UNCHANGED <<treeVars, graph, newer, signed, pressed, children, Asked, indexed>>

StartIndex(p) ==
    /\ InPc(p, "start")
    /\ children' = children \cup {[of |-> p, files |-> run[p].files]}
    /\ Go(p, "index")
    /\ UNCHANGED <<treeVars, graph, newer, signed, UnderLease, pressed, Asked, indexed>>

\* cgc index: the files are taken in, and the database file is written.
GraphWith(files) ==
    [f \in File |-> IF f \in files THEN work[f] ELSE IF graph = None THEN Gone ELSE graph[f]]

\* A run that was not killed learns the outcome of its cgc.
Learns(c, ok, memory) ==
    IF InPc(c.of, "index")
    THEN Now(c.of, [run[c.of] EXCEPT !.pc = IF ok THEN "ended" ELSE "failed",
                                     !.how = IF memory THEN "memory" ELSE @])
    ELSE UNCHANGED run

CgcEnds(c) ==
    /\ c \in children /\ children' = children \ {c}
    /\ \/ graph' = GraphWith(c.files) /\ newer' = {} /\ Learns(c, TRUE, FALSE)
       \/ \E memory \in BOOLEAN : Learns(c, FALSE, memory) /\ UNCHANGED <<graph, newer>>
    /\ UNCHANGED <<treeVars, signed, UnderLease, pressed, Asked, indexed>>

\* The index run has a status reader of its own; it ignores what the readers do.
current_edit_signature == Signature

\* On success the signature of now is recorded, of all files; on a failure for
\* want of memory the error stays, and any other failure removes it.
Recorded(p) ==
    /\ run[p].pc \in {"ended", "failed"}
    /\ signed' = IF InPc(p, "ended") THEN current_edit_signature ELSE signed
    /\ pressed' = (InPc(p, "failed") /\ run[p].how = "memory")
    /\ Go(p, IF InPc(p, "ended") THEN "release" ELSE "give up")
    /\ UNCHANGED <<treeVars, graph, newer, UnderLease, children, Asked, indexed>>

\* release: both markers, if the owner marker is its own.
Release(p) ==
    /\ run[p].pc \in {"release", "give up"}
    /\ IF owner = p THEN owner' = None /\ lock' = None ELSE UNCHANGED UnderLease
    /\ run' = [q \in GraphProc |-> IF q = p THEN Resumed(p, InPc(p, "release"))
                                  ELSE [run[q] EXCEPT !.saw = @ \ {p}]]
    /\ UNCHANGED <<treeVars, graph, newer, signed, pressed, children, Asked, indexed>>

\* The run is killed; its cgc goes on.  The lock grows old by itself.
KillRun(p) ==
    /\ p \in Indexer /\ run[p].pc \notin {"idle", "killed"}
    /\ Now(p, [Resting EXCEPT !.pc = "killed"])
    /\ UNCHANGED <<treeVars, graph, newer, signed, UnderLease, pressed, children, Asked, indexed>>

LockAges ==
    /\ lock = "fresh" /\ lock' = "old"
    /\ UNCHANGED <<treeVars, graph, newer, signed, owner, pressed, children, Asked, run, indexed>>

(***************************************************************************)
(* Health and the gate of a discovery.                                     *)
(***************************************************************************)
\* classify_graph_health: the last error, the lock marker, the database file and
\* the times of the sources, in this order.
GraphStatus ==
    CASE pressed -> "unavailable"
      [] ~pressed /\ lock # None -> "locked"
      [] ~pressed /\ lock = None /\ (graph = None \/ newer # {}) -> "stale"
      [] OTHER -> "healthy"

GraphDrift == (SigPaths(Signature) \ SigPaths(signed)) \cup (SigPaths(signed) \ SigPaths(Signature))

\* _scope_needs_codegraph_refresh; the root is "." there, and an untracked
\* directory does not cover its files.
NeedsRefresh(s) == Signature # signed /\ (GraphDrift = {} \/ s \in GraphDrift \cap File)

\* The worker of a preflight: one index run of the scope, whatever the health.
Preflight(h, f) == OnIndex(h, {f}, "idle")

\* The read path launches one preflight of the session: a look at the marker,
\* then the marker and a detached index run.
PreflightLook(p) ==
    /\ p \in Finder /\ InPc(p, "idle") /\ ~launched /\ indexed < MaxIndexed
    /\ indexed' = indexed + 1
    /\ \E f \in File : Now(p, [Resting EXCEPT !.pc = "preflight", !.scope = f])
    /\ UNCHANGED <<treeVars, graph, newer, signed, UnderLease, pressed, children, Asked>>

PreflightLaunch(p) ==
    /\ InPc(p, "preflight")
    /\ launched' = TRUE
    /\ \/ run' = [run EXCEPT ![p] = Resting]
       \/ \E h \in Indexer :
            InPc(h, "idle") /\ run' = [run EXCEPT ![p] = Resting, ![h] = Preflight(h, run[p].scope)]
    /\ UNCHANGED <<treeVars, graph, newer, signed, UnderLease, pressed, children, found, indexed>>

DiscoverCall(p, s) ==
    /\ p \in Finder /\ InPc(p, "idle") /\ indexed < MaxIndexed
    /\ indexed' = indexed + 1
    /\ Now(p, [Resting EXCEPT !.pc = "probe", !.scope = s])
    /\ UNCHANGED <<treeVars, graph, newer, signed, UnderLease, pressed, children, Asked>>

ProbeGraph(p) ==
    /\ InPc(p, "probe")
    /\ Now(p, [run[p] EXCEPT !.pc = GraphStatus,
                             !.how = IF GraphStatus = "healthy" THEN "healthy" ELSE @])
    /\ UNCHANGED <<treeVars, graph, newer, signed, UnderLease, pressed, children, Asked, indexed>>

\* What is refreshed first, and its health taken again, or refreshed behind.
StaleGraph(p) ==
    /\ InPc(p, "stale")
    /\ LET files == IF GraphDrift # {} THEN FilesAt(GraphDrift) ELSE {run[p].scope} \cap File IN
       IF NeedsRefresh(run[p].scope)
       THEN Now(p, [OnIndex(p, files, "reprobe") EXCEPT !.how = "refreshed"])
       ELSE \/ Now(p, [run[p] EXCEPT !.pc = "healthy", !.how = "behind"])
            \/ \E h \in Indexer :
                 /\ InPc(h, "idle") /\ files # {}
                 /\ run' = [run EXCEPT ![p] = [@ EXCEPT !.pc = "healthy", !.how = "behind"],
                                       ![h] = OnIndex(h, files, "idle")]
    /\ UNCHANGED <<treeVars, graph, newer, signed, UnderLease, pressed, children, Asked, indexed>>

\* codegraph_health_status: a healthy graph is stale under another signature.
Reprobe(p) ==
    /\ InPc(p, "reprobe")
    /\ IF GraphStatus = "healthy" /\ Signature = signed
       THEN Go(p, "healthy")
       ELSE Now(p, Resting)
    /\ UNCHANGED <<treeVars, graph, newer, signed, UnderLease, pressed, children, Asked, indexed>>

\* Under a lock: an index run of the scope, and the health again, some times.
LockedGraph(p) ==
    /\ InPc(p, "locked")
    /\ IF run[p].scope = "root" \/ run[p].tries = Attempts THEN Now(p, Resting)
       ELSE Now(p, [OnIndex(p, {run[p].scope}, "recheck") EXCEPT !.tries = @ + 1])
    /\ UNCHANGED <<treeVars, graph, newer, signed, UnderLease, pressed, children, Asked, indexed>>

Recheck(p) ==
    /\ InPc(p, "recheck")
    /\ Now(p, IF GraphStatus \in {"healthy", "locked"}
              THEN [run[p] EXCEPT !.pc = GraphStatus, !.how = "recovered"] ELSE Resting)
    /\ UNCHANGED <<treeVars, graph, newer, signed, UnderLease, pressed, children, Asked, indexed>>

UnavailableGraph(p) ==
    /\ InPc(p, "unavailable")
    /\ Now(p, Resting)
    /\ UNCHANGED <<treeVars, graph, newer, signed, UnderLease, pressed, children, Asked, indexed>>

\* cgc find pattern; without a database, or while one is written, it fails, and
\* an index run of the scope is tried once.
Discover(p) ==
    /\ InPc(p, "healthy")
    /\ IF graph # None /\ children = {}
       THEN Now(p, [run[p] EXCEPT !.pc = "told", !.got = graph])
       ELSE IF run[p].scope = "root" \/ run[p].how = "healed" THEN Now(p, Resting)
       ELSE Now(p, [OnIndex(p, {run[p].scope}, "healthy") EXCEPT !.how = "healed"])
    /\ UNCHANGED <<treeVars, graph, newer, signed, UnderLease, pressed, children, Asked, indexed>>

(***************************************************************************)
(* read-code find and analyze: the scratchpad under the signature, or cgc  *)
(* without a look at the health.                                           *)
(***************************************************************************)
FindCall(p, s) ==
    /\ p \in Finder /\ InPc(p, "idle") /\ indexed < MaxIndexed
    /\ indexed' = indexed + 1
    /\ IF found[s] # None /\ found[s].sig = Signature
       THEN Now(p, [Resting EXCEPT !.pc = "told", !.scope = s, !.got = found[s].got,
                                   !.how = "scratchpad"])
       ELSE Now(p, [Resting EXCEPT !.pc = "find", !.scope = s, !.sig = Signature])
    /\ UNCHANGED <<treeVars, graph, newer, signed, UnderLease, pressed, children, Asked>>

Find(p) ==
    /\ InPc(p, "find")
    /\ IF graph # None /\ children = {}
       THEN /\ found' = [found EXCEPT ![run[p].scope] = [sig |-> run[p].sig, got |-> graph]]
            /\ Now(p, [run[p] EXCEPT !.pc = "told", !.got = graph, !.how = "found"])
       ELSE Now(p, Resting) /\ UNCHANGED found
    /\ UNCHANGED <<treeVars, graph, newer, signed, UnderLease, pressed, children, launched, indexed>>

Told(p) ==
    /\ InPc(p, "told")
    /\ Now(p, Resting)
    /\ UNCHANGED <<treeVars, graph, newer, signed, UnderLease, pressed, children, Asked, indexed>>

SourceEdited(f) ==
    /\ EditFile(f)
    /\ newer' = newer \cup {f}
    /\ UNCHANGED <<graph, signed, UnderLease, pressed, children, Asked, run, indexed>>

CodegraphNext ==
    \/ \E p \in Indexer, files \in SUBSET File \ {{}} : IndexCall(p, files)
    \/ \E p \in Indexer : KillRun(p)
    \/ \E p \in GraphProc :
         WaitForRelease(p) \/ ClearArtifacts(p) \/ UnlinkStaleLock(p) \/ ClaimMarkers(p)
            \/ StartIndex(p) \/ Recorded(p) \/ Release(p)
    \/ \E c \in children : CgcEnds(c)
    \/ LockAges
    \/ \E p \in Finder, s \in Scope : DiscoverCall(p, s) \/ FindCall(p, s)
    \/ \E p \in Finder :
         PreflightLook(p) \/ PreflightLaunch(p) \/ ProbeGraph(p) \/ StaleGraph(p) \/ Reprobe(p)
            \/ LockedGraph(p) \/ Recheck(p) \/ UnavailableGraph(p) \/ Discover(p)
            \/ Find(p) \/ Told(p)
    \/ \E f \in File : SourceEdited(f)

Indexing == { p \in GraphProc : InPc(p, "index") }

\* A run that begins while another one holds the lease does not index beside it,
\* as long as there are two of them; a third can free the markers of the second.
LateRunsWait ==
    \A p, q \in Indexing : p # q => q \notin run[p].saw /\ p \notin run[q].saw

\* What the lease is for: one index run writes the database at a time.
OneWriter == Cardinality(children) <= 1

\* What a healthy graph means: it holds the files as they are.
HealthyIsCurrent ==
    GraphStatus = "healthy" /\ Signature = signed => graph = work

\* "Keep last-failure context visible until a successful refresh clears it."
FailureStaysVisible ==
    [][pressed /\ ~pressed' => \E p \in GraphProc : InPc(p, "ended")]_graphVars
===============================================================================
