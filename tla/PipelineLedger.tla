---------------------------- MODULE PipelineLedger ----------------------------
(***************************************************************************)
(* The pipeline ledger, .speckit/pipeline-ledger.jsonl: an append-only     *)
(* file of events, each naming a feature and a step of its life, and the   *)
(* table that says which event may follow which (scripts/pipeline_ledger). *)
(* validate_sequence looks at each feature's events on their own, so the   *)
(* file is kept as one history per feature.  Appending is read, validate,  *)
(* write, with no lock on the file: the module gives the three parts, and  *)
(* the module of the callers (Pipeline) interleaves them.                  *)
(***************************************************************************)
EXTENDS Naturals, Sequences, FiniteSets

CONSTANTS
    Feature,       \* the features the ledger knows
    None,          \* no event, no phase
    StartLogs,     \* histories a feature may start with
    MaxLog         \* bound: no call starts for a feature with a longer history

VARIABLES
    plog,          \* plog[f]: the entries of feature f, in file order
    torn           \* the file ends in a line that is not JSON

(***************************************************************************)
(* ALLOWED_PIPELINE_TRANSITIONS, as pairs of an event and the next one.    *)
(* The table for events before 10 April 2026 is left out: new events carry *)
(* the time of their append.                                               *)
(***************************************************************************)
After(prev, next) == {prev} \X next

Allowed == UNION {
    After(None, {"backlog_registered"}),
    After("backlog_registered",
          {"duplicate_marked", "spec_clarified", "research_completed", "plan_approved"}),
    After("spec_clarified",
          {"duplicate_marked", "spec_clarified", "research_completed", "plan_approved"}),
    After("research_completed", {"plan_started", "planreview_completed", "plan_approved"}),
    After("plan_started", {"planreview_completed"}),
    After("planreview_completed",
          {"planreview_completed", "feasibility_spike_completed",
           "feasibility_spike_failed", "plan_approved"}),
    After("feasibility_spike_failed", {"feasibility_spike_failed"}),
    After("feasibility_spike_completed", {"plan_approved"}),
    After("plan_approved", {"sketch_completed", "tasking_completed", "solution_approved"}),
    After("sketch_completed",
          {"sketch_completed", "solutionreview_completed", "tasking_completed"}),
    After("solutionreview_completed",
          {"sketch_completed", "solutionreview_completed", "estimation_completed"}),
    After("estimation_completed", {"estimation_completed", "tasking_completed"}),
    After("tasking_completed",
          {"estimation_completed", "tasking_completed", "solution_approved"}),
    After("solution_approved", {"analysis_completed"}),
    After("analysis_completed", {"e2e_generated", "implementation_completed"}),
    After("e2e_generated", {"implementation_completed", "feature_closed"}),
    After("implementation_completed", {"feature_closed"}) }

PipelineEvent == { pair[2] : pair \in Allowed }

\* An entry: the event, and the phase its writer put beside it.
Phase == {"specify", "research", "plan", "solution", "implement", "closed"}
Entry == [event : PipelineEvent, phase : Phase \cup {None}]

LastOf(h) == IF h = <<>> THEN None ELSE h[Len(h)].event

PrevOf(h, i) == IF i = 1 THEN None ELSE h[i - 1].event

\* validate_sequence on one feature: every entry follows the one before it.
ValidHistory(h) ==
    \A i \in 1 .. Len(h) : <<PrevOf(h, i), h[i].event>> \in Allowed

AllValid == \A f \in Feature : ValidHistory(plog[f])

\* read_events: one line that is not JSON and the reader exits.
Readable == ~torn

ASSUME FeatureAssumption == None \notin PipelineEvent \cup Phase
ASSUME StartAssumption ==
    StartLogs \subseteq Seq(Entry) /\ \A h \in StartLogs : ValidHistory(h)

LedgerInit ==
    /\ plog \in [Feature -> StartLogs]
    /\ torn = FALSE

(***************************************************************************)
(* cmd_append up to the write: the caller validates the whole file, every  *)
(* feature of it, with the new event at the end.  "shaped" says that the   *)
(* event carries its required fields (and that an analysis found nothing   *)
(* critical), which validate_event_shape asks.                             *)
(***************************************************************************)
\* Mutant: the history is validated, the new event is not.
Accepts_OldOnly(f, e, shaped) == Readable /\ shaped /\ AllValid

\* Mutant: only the feature at hand is validated.
Accepts_OwnOnly(f, e, shaped) ==
    /\ Readable /\ shaped
    /\ ValidHistory(plog[f])
    /\ <<LastOf(plog[f]), e>> \in Allowed

Accepts(f, e, shaped) ==
    /\ Readable /\ shaped
    /\ AllValid
    /\ <<LastOf(plog[f]), e>> \in Allowed

\* The write itself: one line at the end of the file, whatever is there now.
WriteEntry(f, e, ph) ==
    /\ plog' = [plog EXCEPT ![f] = Append(@, [event |-> e, phase |-> ph])]
    /\ UNCHANGED torn

\* The writer dies inside the write: half a line is left.
TearLine ==
    /\ torn' = TRUE
    /\ UNCHANGED plog

\* cmd_assert_phase_complete, the gate other tools call.
PhaseComplete(f, e) ==
    /\ Readable /\ AllValid
    /\ \E i \in 1 .. Len(plog[f]) : plog[f][i].event = e

\* What append_requested_pipeline_event looks for before it appends.
Recorded(f, e, ph) ==
    \E i \in 1 .. Len(plog[f]) : plog[f][i] = [event |-> e, phase |-> ph]

LedgerTypeOK ==
    /\ plog \in [Feature -> Seq(Entry)]
    /\ torn \in BOOLEAN
=============================================================================
