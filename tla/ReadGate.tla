------------------------------- MODULE ReadGate -------------------------------
(***************************************************************************)
(* The freshness gate in front of read-code context                        *)
(* (scripts/read_code_health.py, scripts/read_code.py) and the refresh     *)
(* requests behind it (scripts/hook_refresh_indexes.py).  A read trusts    *)
(* the vector index, refreshes it, or fails.  What it trusts is a marker   *)
(* file with the edit signature of the last refresh, a probe remembered    *)
(* for some seconds, and a scratchpad of earlier answers.                  *)
(***************************************************************************)
EXTENDS WorkTree

CONSTANTS
    Vector,        \* the files with a suffix in VECTOR_SUFFIXES; .yaml has not
    Reader,        \* processes that read; all of one session
    Hook,          \* processes for hooks and detached refresh requests
    Syncer,        \* processes that run edit_code sync
    Query,         \* the reads that are made, see Queries
    MaxCalls       \* bound on the calls that are made

Proc == Reader \cup Hook \cup Syncer

\* A read of a file, of a symbol anywhere, or of a phrase: the first two count
\* as scoped (_classify_context_query_scope), the last two have the root as path.
Queries == File \cup {"symbol", "phrase"}

ASSUME ReadGateAssumption ==
    /\ Query \subseteq Queries /\ Vector \subseteq File
    /\ {"symbol", "phrase"} \cap File = {} /\ None \notin Queries
    /\ IsFiniteSet(Proc) /\ MaxCalls \in Nat

VARIABLES
    seen,          \* what the vector index holds of each file, or None
    marker,        \* last-vector-edit-signature.txt, or None
    probe,         \* the remembered probe, or None
    recent,        \* the refreshes debounced for now: channel and query
    scratch,       \* the scratchpad: the entry of each query, or None
    job,           \* job[p]: what process p is doing
    calls          \* how many calls were made

gateVars == <<seen, marker, probe, recent, scratch, job, calls>>

\* gap, in a marker: the files the index was not current for when the marker
\* was made, or took in again since.  Not in the file; see FirstEditIsRead.
NewMarker(sig) == [sig |-> sig, head |-> HeadCommit,
                   gap |-> { f \in File : seen[f] # work[f] }]

Found(status, drift) == [status |-> status, drift |-> drift]

Idle == [pc |-> "idle", ret |-> "idle", q |-> None, paths |-> {}, sig |-> {}, how |-> None,
         got |-> None, edits |-> 0, blind |-> FALSE]

At(p, pc) == job[p].pc = pc
Set(p, new) == job' = [job EXCEPT ![p] = new]
To(p, pc) == Set(p, [job[p] EXCEPT !.pc = pc])

\* Back from a refresh, to what it was for.
Returns(p) ==
    Set(p, IF job[p].ret = "idle" THEN Idle
           ELSE [job[p] EXCEPT !.pc = job[p].ret, !.paths = {}, !.sig = {}])

Called == calls < MaxCalls /\ calls' = calls + 1

\* The end of a call; its exit code goes to the caller.
Ends(p) == Set(p, Idle)

GateInit ==
    /\ seen = None /\ marker = None /\ probe = None /\ recent = {}
    /\ scratch = [q \in Query |-> None]
    /\ job = [p \in Proc |-> Idle] /\ calls = 0

(***************************************************************************)
(* A refresh request, in the process that asked for it or in one of its    *)
(* own.  Afterwards the process goes on at job[p].ret; a failure ends it.  *)
(***************************************************************************)
\* _collect_changed_paths and _vector_refresh_paths: what is gone, a directory, and
\* a file of another suffix are dropped without a word.
ToRefresh(paths) == { f \in paths \cap Vector : work[f] # Gone }

\* indexer refresh; without a snapshot it builds all of it.
Indexed(paths) ==
    IF seen = None THEN work ELSE [f \in File |-> IF f \in paths THEN work[f] ELSE seen[f]]

Refresh(p) ==
    /\ At(p, "refresh")
    /\ LET paths == ToRefresh(job[p].paths) IN
       \/ Ends(p) /\ UNCHANGED <<seen, marker>>
       \/ paths = {} /\ Returns(p) /\ UNCHANGED <<seen, marker>>
       \/ /\ paths # {}
          /\ seen' = Indexed(paths)
          /\ marker' = IF marker = None THEN None
                       ELSE [marker EXCEPT !.gap = @ \cup paths]
          /\ To(p, "sign")
    /\ UNCHANGED <<treeVars, probe, recent, scratch, calls>>

\* _remember_healthy_vector_probe: the signature is that of now, not of when the
\* files were read.
Sign(p) ==
    /\ At(p, "sign")
    /\ Set(p, [job[p] EXCEPT !.pc = "mark", !.sig = NewMarker(Signature)])
    /\ UNCHANGED <<treeVars, seen, marker, probe, recent, scratch, calls>>

Mark(p) ==
    /\ At(p, "mark")
    /\ marker' = job[p].sig
    /\ probe' = Found("healthy", {})
    /\ Returns(p)
    /\ UNCHANGED <<treeVars, seen, recent, scratch, calls>>

RequestOn(h, paths) == [job EXCEPT ![h] = [Idle EXCEPT !.pc = "refresh", !.paths = paths]]

\* The hook after an edit or a commit.
HookCall(h, paths) ==
    /\ h \in Hook /\ At(h, "idle") /\ Called
    /\ job' = RequestOn(h, paths)
    /\ UNCHANGED <<treeVars, seen, marker, probe, recent, scratch>>

(***************************************************************************)
(* The gate: _refresh_indexes_for_read.                                    *)
(***************************************************************************)
\* _scope_needs_vector_refresh: a directory covers its files; the root is "."
\* there, which overlaps nothing.
Overlap(q, drift) ==
    CASE drift = {} -> "unknown"
      [] drift # {} /\ q \in FilesAt(drift) -> "yes"
      [] OTHER -> "no"

\* _read_request_trusts_vector_cache and _vector_trust_decision
Trusts(q) ==
    /\ probe # None
    /\ \/ probe.status = "healthy"
       \/ q # "phrase" /\ probe.status = "stale" /\ Overlap(q, probe.drift) = "no"

ContextCall(p, q) ==
    /\ p \in Reader /\ At(p, "idle") /\ Called /\ (q \in File => work[q] # Gone)
    /\ Set(p, [Idle EXCEPT !.pc = "gate", !.q = q])
    /\ UNCHANGED <<treeVars, seen, marker, probe, recent, scratch>>

Gate(p) ==
    /\ At(p, "gate")
    /\ IF Trusts(job[p].q) THEN Set(p, [job[p] EXCEPT !.pc = "resolve", !.paths = {}, !.how = "cached"])
       ELSE To(p, "probe")
    /\ UNCHANGED <<treeVars, seen, marker, probe, recent, scratch, calls>>

\* vector_index_probe: the signature first; a git that fails gives the empty one.
\* edits and blind: what a later answer is measured by.
Probe(p) ==
    /\ At(p, "probe")
    /\ \E sig \in {Signature, {}} :
         Set(p, [job[p] EXCEPT !.pc = "compare", !.sig = sig, !.edits = edits,
                               !.blind = sig # Signature \/ job[p].q \in Hidden])
    /\ UNCHANGED <<treeVars, seen, marker, probe, recent, scratch, calls>>

Drift(sig, mark) == (SigPaths(sig) \ SigPaths(mark)) \cup (SigPaths(mark) \ SigPaths(sig))

\* indexer status, without a marker: missing, or the index against the tree; of
\* the files git does not name, those the index lacks.
Status ==
    IF seen = None THEN Found("missing", {})
    ELSE LET drift == { f \in File : seen[f] # work[f] /\ (f \in Hidden => seen[f] = Gone) } IN
         Found(IF drift = {} THEN "healthy" ELSE "stale", drift)

\* What the probe finds, and whether the marker could not have told.
Compare(p) ==
    /\ At(p, "compare")
    /\ \E found \in IF marker # None
                    THEN {IF job[p].sig = marker.sig THEN Found("healthy", {})
                          ELSE Found("stale", Drift(job[p].sig, marker.sig))}
                    ELSE IF probe # None THEN {probe} ELSE {Status, Found("failed", {})} :
         /\ probe' = found
         /\ Set(p, [job[p] EXCEPT !.pc = found.status, !.paths = found.drift, !.sig = {},
                !.blind = @ \/ marker = None \/ marker.head # HeadCommit
                          \/ job[p].q \in marker.gap \cup SigPaths(marker.sig)])
    /\ UNCHANGED <<treeVars, seen, marker, recent, scratch, calls>>

Healthy(p) ==
    /\ At(p, "healthy")
    /\ Set(p, [job[p] EXCEPT !.pc = "resolve", !.paths = {}, !.how = "healthy"])
    /\ UNCHANGED <<treeVars, seen, marker, probe, recent, scratch, calls>>

ProbeFailed(p) ==
    /\ At(p, "failed")
    /\ Ends(p)
    /\ UNCHANGED <<treeVars, seen, marker, probe, recent, scratch, calls>>

\* vector_bootstrap_if_missing.  The probe after the build is made for the path
\* of the read instead of the repository: it finds no marker there, and the
\* remembered "missing" while that lasts.
Bootstrap(p) ==
    /\ At(p, "missing")
    /\ \/ Ends(p) /\ UNCHANGED <<seen, probe>>
       \/ /\ seen' = work
          /\ probe' = IF probe # None THEN probe ELSE Found("healthy", {})
          /\ IF probe' = Found("missing", {}) THEN Ends(p)
             ELSE Set(p, [job[p] EXCEPT !.pc = "resolve", !.paths = {}, !.how = "built"])
    /\ UNCHANGED <<treeVars, marker, recent, scratch, calls>>

\* Mutant: a drift that overlaps the read is refreshed behind it as well.
MustWait_Never(p) == FALSE

\* overlap is True in _dispatch_refresh_by_state.
MustWait(p) == Overlap(job[p].q, job[p].paths) = "yes"

\* The drift covers the file that is read: the refresh is waited for, unless one
\* was started for it a moment ago.
RefreshFirst(p) ==
    /\ At(p, "stale") /\ MustWait(p)
    /\ LET key == <<"sync", job[p].q>> IN
       IF key \in recent
       THEN /\ Set(p, [job[p] EXCEPT !.pc = "resolve", !.paths = {}, !.how = "debounced"])
            /\ UNCHANGED recent
       ELSE /\ recent' = recent \cup {key}
            /\ Set(p, [job[p] EXCEPT !.pc = "refresh", !.ret = "resolve", !.how = "refreshed"])
    /\ UNCHANGED <<treeVars, seen, marker, probe, scratch, calls>>

\* Otherwise it is left to a detached request, which may not start.
RefreshBehind(p) ==
    /\ At(p, "stale") /\ ~MustWait(p)
    /\ LET key  == <<"vector", job[p].q>>
           on   == [job[p] EXCEPT !.pc = "resolve", !.paths = {}, !.how = "behind"]
           paths == IF job[p].paths = {} THEN {job[p].q} \cap File ELSE job[p].paths IN
       \/ Set(p, on) /\ recent' = recent \cup {key}
       \/ /\ key \notin recent
          /\ recent' = recent \cup {key}
          /\ \E h \in Hook : At(h, "idle") /\ job' = [RequestOn(h, paths) EXCEPT ![p] = on]
    /\ UNCHANGED <<treeVars, seen, marker, probe, scratch, calls>>

(***************************************************************************)
(* The answer: from the scratchpad when the request was made before under  *)
(* the same signature, or from the index.                                  *)
(***************************************************************************)
Resolve(p) ==
    /\ At(p, "resolve")
    /\ LET e == scratch[job[p].q] IN
       IF e # None /\ e.sig = Signature
       THEN Set(p, [job[p] EXCEPT !.pc = "answered", !.got = e.got, !.how = "scratchpad"])
       ELSE Set(p, [job[p] EXCEPT !.pc = "query", !.sig = Signature])
    /\ UNCHANGED <<treeVars, seen, marker, probe, recent, scratch, calls>>

\* An index that is missing or cannot be opened gives no answer.
Search(p) ==
    /\ At(p, "query")
    /\ \/ Ends(p) /\ UNCHANGED scratch
       \/ /\ seen # None
          /\ scratch' = [scratch EXCEPT ![job[p].q] = [sig |-> job[p].sig, got |-> seen]]
          /\ Set(p, [job[p] EXCEPT !.pc = "answered", !.got = seen, !.sig = {}])
    /\ UNCHANGED <<treeVars, seen, marker, probe, recent, calls>>

Answered(p) ==
    /\ At(p, "answered")
    /\ Ends(p)
    /\ UNCHANGED <<treeVars, seen, marker, probe, recent, scratch, calls>>

\* Time passes: the remembered probe, the debounce stamps or the scratchpad
\* are too old.
Forget ==
    /\ \/ probe' = None /\ UNCHANGED <<recent, scratch>>
       \/ recent' = {} /\ UNCHANGED <<probe, scratch>>
       \/ scratch' = [q \in Query |-> None] /\ UNCHANGED <<probe, recent>>
    /\ UNCHANGED <<treeVars, seen, marker, job, calls>>

GateStep(p) ==
    \/ Refresh(p) \/ Sign(p) \/ Mark(p)
    \/ \E q \in Query : ContextCall(p, q)
    \/ Gate(p) \/ Probe(p) \/ Compare(p)
    \/ Healthy(p) \/ ProbeFailed(p) \/ Bootstrap(p) \/ RefreshFirst(p) \/ RefreshBehind(p)
    \/ Resolve(p) \/ Search(p) \/ Answered(p)

Gated(p) == job[p].pc = "answered"

\* The first edit of a file reaches its readers.  When the marker was made with
\* the file clean and indexed, and HEAD has not moved since, a read of that file
\* that was gated by the marker, and not by a probe, a refresh or an answer
\* remembered for some seconds, gives what the file holds, unless it is gone or
\* something was edited since it was gated.  Of a file in an untracked directory
\* nothing is said, as git does not name it, nor is it when the read waited for
\* the refresh of a file whose suffix the refresh does not take.
FirstEditIsRead ==
    \A p \in Proc :
        Gated(p) /\ job[p].q \in File /\ job[p].how \in {"healthy", "refreshed", "behind"}
            /\ (job[p].how = "refreshed" => job[p].q \in Vector)
            /\ ~job[p].blind /\ job[p].edits = edits /\ work[job[p].q] # Gone
        => job[p].got[job[p].q] = work[job[p].q]

\* What the gate is for: an answer shows no file as it was before the gate.
AnswersAreCurrent ==
    \A p \in Proc :
        Gated(p) /\ job[p].how = "healthy" /\ job[p].edits = edits
        => \A f \in File : job[p].got[f] = work[f]
===============================================================================
