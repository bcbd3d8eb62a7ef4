------------------------------- MODULE Pipeline -------------------------------
(***************************************************************************)
(* The pipeline driver (scripts/pipeline_driver.py, pipeline_driver_state) *)
(* over the pipeline ledger: processes that either append an event with    *)
(* the ledger's command line or run the driver for one feature.  The       *)
(* driver reads the ledger, decides which phase may run, hands that phase  *)
(* to an agent, validates what the agent left and appends the event.       *)
(* Plan and solution are the phases the manifest lets it run; their helper *)
(* scripts (speckit_plan_step, speckit_solution_step, the tasking chain)   *)
(* are operations of the agent.  A runner that outlives its timeout is     *)
(* killed, the agent under it is not: it goes on as an orphan.             *)
(***************************************************************************)
EXTENDS PipelineLedger

CONSTANTS
    Proc,          \* processes: shells, agents and drivers
    Driven,        \* features the driver is run for
    CliEvent,      \* events appended from the command line,
    CliPhase,      \* and the phases put beside them
    Exclusive      \* features whose callers run one process at a time

ASSUME CallerAssumption ==
    /\ CliEvent \subseteq PipelineEvent /\ CliPhase \subseteq Phase \cup {None}
    /\ Exclusive \subseteq Feature /\ Driven \subseteq Feature
    /\ IsFiniteSet(Proc) /\ Proc # {}

VARIABLES
    job,           \* job[p]: what process p is doing
    art,           \* art[f]: the artifacts in the feature's directory
    orphan,        \* orphan[f]: a phase whose timed-out agent is still at work
    late           \* history: entries written to a ledger already invalid

vars == <<plog, torn, job, art, orphan, late>>

(***************************************************************************)
(* Where the ledger says a feature is.                                     *)
(***************************************************************************)
PhaseIndex == [ph \in Phase |->
    CASE ph = "specify" -> 0 [] ph = "research" -> 1 [] ph = "plan" -> 2
      [] ph = "solution" -> 3 [] ph = "implement" -> 4 [] ph = "closed" -> 5]

\* EVENT_TO_PHASE; it has no line for implementation_completed.
EventPhase(e) ==
    CASE e \in {"backlog_registered", "spec_clarified"} -> "specify"
      [] e = "research_completed" -> "research"
      [] e \in {"plan_started", "planreview_completed", "feasibility_spike_completed",
                "feasibility_spike_failed", "plan_approved"} -> "plan"
      [] e \in {"sketch_completed", "solutionreview_completed", "estimation_completed",
                "tasking_completed", "solution_approved", "analysis_completed"} -> "solution"
      [] e = "e2e_generated" -> "implement"
      [] e \in {"duplicate_marked", "feature_closed"} -> "closed"
      [] OTHER -> None

\* resolve_phase_state, the phase: "hint" is the phase the caller asked for.
CurrentPhase(f, hint) ==
    IF ~Readable \/ plog[f] = <<>> THEN "specify"
    ELSE IF EventPhase(LastOf(plog[f])) = None THEN hint
    ELSE EventPhase(LastOf(plog[f]))

\* resolve_phase_state, drift: only the feature's own events are validated.
Drifted(f) == ~Readable \/ ~ValidHistory(plog[f])

\* _requested_phase_exceeds_current, with the test that guards it in main.
Exceeds(want, current) ==
    /\ want # None /\ current # None
    /\ PhaseIndex[want] > PhaseIndex[current]

\* The phase a call works on.
Effective(f, want) == IF want = None THEN CurrentPhase(f, None) ELSE want

\* resolve_step_mapping, over the command manifest: how a phase is run.
Route(ph) ==
    CASE ph = "specify" -> "script"
      [] ph \in {"plan", "solution"} -> "handoff"
      [] ph = "implement" -> "agent"
      [] OTHER -> "legacy"          \* research has no driven step, closed none

\* enforce_approval_breakpoint: implement waits for an approval token.
ApprovalMissing(ph, approved) == ph = "implement" /\ ~approved

(***************************************************************************)
(* A call of main that runs nothing: the first of its refusals that holds. *)
(***************************************************************************)
Refusal(f, want, approved) ==
    IF Exceeds(want, CurrentPhase(f, want)) THEN "requested_phase_mismatch"
    ELSE IF Drifted(f) THEN "phase_drift"
    ELSE IF ApprovalMissing(Effective(f, want), approved) THEN "approval_required"
    ELSE IF Route(Effective(f, want)) = "agent" THEN "direct_command_required"
    ELSE IF Route(Effective(f, want)) = "legacy" THEN "command_not_driver_managed"
    ELSE None

Idle == [pc |-> "idle", feature |-> None, phase |-> None, event |-> None,
         runs |-> 0, result |-> None, reply |-> None, alone |-> FALSE]

At(p, pc) == job[p].pc = pc
Busy(p) == job[p].pc \notin {"idle", "done"}
Set(p, new) == job' = [job EXCEPT ![p] = new]
Reply(p, r) == Set(p, [Idle EXCEPT !.pc = "done", !.reply = r])

\* Callers of an exclusive feature wait for each other.
MayCall(p, f) ==
    /\ job[p].pc = "idle"
    /\ Len(plog[f]) < MaxLog
    /\ f \in Exclusive => \A q \in Proc : Busy(q) => job[q].feature # f

onlyJob == <<plog, torn, art, orphan, late>>

DriverRefuses(p, f, want, approved) ==
    /\ MayCall(p, f)
    /\ Refusal(f, want, approved) # None
    /\ Set(p, [Idle EXCEPT !.pc = "done", !.reply = Refusal(f, want, approved)])
    /\ UNCHANGED onlyJob

\* The driver starts the phase's script or runner.
DriverStarts(p, f, want, approved) ==
    /\ MayCall(p, f)
    /\ Refusal(f, want, approved) = None
    /\ Set(p, [Idle EXCEPT !.pc = "run", !.feature = f, !.phase = Effective(f, want),
                           !.runs = 1])
    /\ UNCHANGED onlyJob

(***************************************************************************)
(* What an agent does to the artifacts of its phase, with the helpers of   *)
(* the phase and by writing the files itself (FillPlan, FillTasks).        *)
(***************************************************************************)
Put(f, new) == art' = [art EXCEPT ![f] = new]

\* prepare_triage writes plan.md from the template, over what was there.
PrepareTriage(f) == Put(f, [art[f] EXCEPT !.plan = "triage", !.dup = FALSE])

\* apply_strategy rewrites a plan that is not a duplicate's.
ApplyStrategy(f) ==
    /\ art[f].plan # "none" /\ ~art[f].dup
    /\ Put(f, [art[f] EXCEPT !.plan = "selected"])

\* External: the agent's own writing, up to the completion summary.
FillPlan(f) ==
    /\ art[f].plan # "none"
    /\ \E d \in BOOLEAN : Put(f, [art[f] EXCEPT !.plan = "complete", !.dup = d])

Sliced(f) == art[f].plan = "complete" /\ ~art[f].dup

\* prepare_tasking needs the plan's slices and spec.json.
PrepareTasking(f) ==
    /\ Sliced(f) /\ art[f].spec
    /\ Put(f, [art[f] EXCEPT !.tasks = "scaffold"])

FillTasks(f) ==
    /\ art[f].tasks # "none"
    /\ Put(f, [art[f] EXCEPT !.tasks = "filled"])

\* run_chain: estimate, break down and estimate again, until no task is
\* above eight points or the rounds are used up.
RunChain(f) ==
    /\ art[f].tasks # "none"
    /\ \E points \in {"high", "settled"} : Put(f, [art[f] EXCEPT !.est = points])

AgentWork(f, ph) ==
    \/ ph = "plan" /\ (PrepareTriage(f) \/ ApplyStrategy(f) \/ FillPlan(f))
    \/ ph = "solution" /\ (PrepareTasking(f) \/ FillTasks(f) \/ RunChain(f))

AgentWorks(p) ==
    /\ At(p, "run")
    /\ AgentWork(job[p].feature, job[p].phase)
    /\ UNCHANGED <<plog, torn, job, orphan, late>>

OrphanWorks(f) ==
    /\ orphan[f] # None
    /\ AgentWork(f, orphan[f])
    /\ UNCHANGED <<plog, torn, job, orphan, late>>

OrphanEnds(f) ==
    /\ orphan[f] # None
    /\ orphan' = [orphan EXCEPT ![f] = None]
    /\ UNCHANGED <<plog, torn, job, art, late>>

(***************************************************************************)
(* The finalize helpers leave the result envelope the driver reads back.   *)
(***************************************************************************)
\* finalize_plan: spec.json is written before the slices are looked at.
FinalizePlan(p) ==
    LET f == job[p].feature IN
    /\ At(p, "run") /\ job[p].phase = "plan"
    /\ \/ /\ art[f].plan # "complete"
          /\ Set(p, [job[p] EXCEPT !.result = "failed"])
          /\ UNCHANGED art
       \/ /\ art[f].plan = "complete"
          /\ Put(f, [art[f] EXCEPT !.spec = TRUE])
          /\ \/ art[f].dup /\ Set(p, [job[p] EXCEPT !.result = "duplicate_marked"])
             \/ ~art[f].dup /\ \E r \in {"failed", "plan_approved"} :
                                  Set(p, [job[p] EXCEPT !.result = r])
    /\ UNCHANGED <<plog, torn, orphan, late>>

\* finalize_solution: the chain and the task gate must pass, the tasks are
\* registered in the task ledger, and the acceptance scaffold may still fail.
FinalizeSolution(p) ==
    LET f == job[p].feature IN
    /\ At(p, "run") /\ job[p].phase = "solution"
    /\ Sliced(f) /\ art[f].est = "settled" /\ art[f].tasks = "filled"
    /\ Put(f, [art[f] EXCEPT !.registered = TRUE])
    /\ \E r \in {job[p].result, "solution_approved"} :
          Set(p, [job[p] EXCEPT !.result = r])
    /\ UNCHANGED <<plog, torn, orphan, late>>

(***************************************************************************)
(* A run that fails is run once more, for its output only: the call has    *)
(* failed whatever the second run does (handle_runtime_failure).           *)
(***************************************************************************)
Rerun(p) ==
    \/ job[p].runs = 1 /\ Set(p, [job[p] EXCEPT !.runs = 2])
    \/ job[p].runs = 2 /\ Reply(p, "runtime_failure")

\* run_step, for specify: the driver calls its script with options the
\* script does not take, so every run fails.
ScriptFails(p) ==
    /\ At(p, "run") /\ Route(job[p].phase) = "script"
    /\ Rerun(p)
    /\ UNCHANGED onlyJob

\* run_generative_handoff: the runner fails, or is killed at its timeout,
\* which leaves its agent at work.
RunFails(p, timeout) ==
    /\ At(p, "run") /\ Route(job[p].phase) = "handoff"
    /\ Rerun(p)
    /\ orphan' = [orphan EXCEPT ![job[p].feature] = IF timeout THEN job[p].phase ELSE @]
    /\ UNCHANGED <<plog, torn, art, late>>

\* The runner exits with success; after a failed first run that is too late.
RunEnds(p) ==
    /\ At(p, "run") /\ Route(job[p].phase) = "handoff"
    /\ \/ job[p].runs = 1 /\ Set(p, [job[p] EXCEPT !.pc = "check"])
       \/ job[p].runs = 2 /\ Reply(p, "runtime_failure")
    /\ UNCHANGED onlyJob

\* validate_generated_artifact: plan.md must hold its completion marker; for
\* tasks.md, which has none, the runner must have named the file.
ArtifactValid(f, ph, named) ==
    IF ph = "plan" THEN art[f].plan = "complete" ELSE named /\ art[f].tasks # "none"

\* Mutant: the artifact is not looked at.
Check_Unvalidated(p, named) ==
    LET f == job[p].feature  ph == job[p].phase IN
    /\ At(p, "check")
    /\ \/ /\ job[p].result \notin PipelineEvent
          /\ Reply(p, "no_event_request")
       \/ /\ job[p].result \in PipelineEvent
          /\ Set(p, [job[p] EXCEPT !.pc = "dedupe", !.event = job[p].result,
                                    !.alone = orphan[f] = None])
    /\ UNCHANGED onlyJob

\* main, the generative branch: validate, load the envelope, take its event.
Check(p, named) ==
    LET f == job[p].feature  ph == job[p].phase IN
    /\ At(p, "check")
    /\ \/ /\ ~ArtifactValid(f, ph, named)
          /\ Reply(p, "artifact_validation")
       \/ /\ ArtifactValid(f, ph, named)
          /\ job[p].result \notin PipelineEvent
          /\ Reply(p, IF job[p].result = None THEN "event_request_missing"
                      ELSE "helper_failed")
       \/ /\ ArtifactValid(f, ph, named)
          /\ job[p].result \in PipelineEvent
          /\ Set(p, [job[p] EXCEPT !.pc = "dedupe", !.event = job[p].result,
                                    !.alone = orphan[f] = None])
    /\ UNCHANGED onlyJob

(***************************************************************************)
(* Appending.  The driver first looks for the same event of the same phase *)
(* (append_requested_pipeline_event); the rest is cmd_append, which the    *)
(* command line enters directly.                                           *)
(***************************************************************************)
Dedupe(p) ==
    /\ At(p, "dedupe")
    /\ \/ ~Readable /\ Reply(p, "ledger_read_failed")
       \/ /\ Readable /\ Recorded(job[p].feature, job[p].event, job[p].phase)
          /\ Reply(p, "ok")
       \/ /\ Readable /\ ~Recorded(job[p].feature, job[p].event, job[p].phase)
          /\ Set(p, [job[p] EXCEPT !.pc = "read"])
    /\ UNCHANGED onlyJob

CliCall(p, f, e, ph) ==
    /\ MayCall(p, f)
    /\ Set(p, [Idle EXCEPT !.pc = "read", !.feature = f, !.event = e, !.phase = ph])
    /\ UNCHANGED onlyJob

AppendRead(p, shaped) ==
    /\ At(p, "read")
    /\ \/ /\ Accepts(job[p].feature, job[p].event, shaped)
          /\ Set(p, [job[p] EXCEPT !.pc = "write"])
       \/ /\ ~Accepts(job[p].feature, job[p].event, shaped)
          /\ Reply(p, "append_failed")
    /\ UNCHANGED onlyJob

AppendWrite(p) ==
    /\ At(p, "write")
    /\ WriteEntry(job[p].feature, job[p].event, job[p].phase)
    /\ Reply(p, "ok")
    /\ late' = IF AllValid THEN late ELSE late + 1
    /\ UNCHANGED <<art, orphan>>

(***************************************************************************)
(* A process dies.  In the middle of a run its agent is left behind; in    *)
(* the middle of the write half a line may be left.                        *)
(***************************************************************************)
Crash(p) ==
    /\ Busy(p)
    /\ Set(p, Idle)
    /\ IF At(p, "run") /\ Route(job[p].phase) = "handoff"
       THEN orphan' = [orphan EXCEPT ![job[p].feature] = job[p].phase]
       ELSE UNCHANGED orphan
    /\ \/ UNCHANGED <<plog, torn>>
       \/ At(p, "write") /\ TearLine
    /\ UNCHANGED <<art, late>>

Acknowledge(p) ==
    /\ At(p, "done")
    /\ Set(p, Idle)
    /\ UNCHANGED onlyJob

(***************************************************************************)
(* A bootstrap: the driver is given a description and runs the specify     *)
(* script, which makes the feature's directory and prints a result without *)
(* the correlation id and the next phase that parse_step_result requires.  *)
(* So the script is run again, and the call fails, directory or not.       *)
(***************************************************************************)
BootstrapCall(p) ==
    /\ At(p, "idle")
    /\ Set(p, [Idle EXCEPT !.pc = "boot", !.runs = 2])
    /\ UNCHANGED onlyJob

BootstrapRun(p) ==
    /\ At(p, "boot") /\ job[p].runs > 0
    /\ Set(p, [job[p] EXCEPT !.runs = @ - 1])
    /\ UNCHANGED onlyJob

BootstrapEnds(p) ==
    /\ At(p, "boot") /\ job[p].runs = 0
    /\ Reply(p, "bootstrap_feature_id_missing")
    /\ UNCHANGED onlyJob

(***************************************************************************)
\* Artifacts a feature with this history has.
ArtifactsOf(h) ==
    LET has(e) == \E i \in 1 .. Len(h) : h[i].event = e IN
    [plan |-> IF has("plan_approved") THEN "complete" ELSE "none", dup |-> FALSE,
     spec |-> has("plan_approved"),
     tasks |-> IF has("solution_approved") THEN "filled" ELSE "none",
     est |-> IF has("solution_approved") THEN "settled" ELSE "none",
     registered |-> has("solution_approved")]

Init ==
    /\ LedgerInit
    /\ job = [p \in Proc |-> Idle]
    /\ art = [f \in Feature |-> ArtifactsOf(plog[f])]
    /\ orphan = [f \in Feature |-> None]
    /\ late = 0

Step(p) ==
    \/ FinalizePlan(p) \/ FinalizeSolution(p)
    \/ ScriptFails(p) \/ RunFails(p, TRUE) \/ RunFails(p, FALSE) \/ RunEnds(p)
    \/ \E named \in BOOLEAN : Check(p, named)
    \/ Dedupe(p)
    \/ \E shaped \in BOOLEAN : AppendRead(p, shaped)
    \/ AppendWrite(p)
    \/ BootstrapRun(p) \/ BootstrapEnds(p)

Call(p) ==
    \/ \E f \in Driven, want \in Phase \cup {None}, approved \in BOOLEAN :
          DriverRefuses(p, f, want, approved) \/ DriverStarts(p, f, want, approved)
    \/ \E f \in Feature, e \in CliEvent, ph \in CliPhase : CliCall(p, f, e, ph)
    \/ BootstrapCall(p)

Next ==
    \/ \E p \in Proc : Call(p) \/ Step(p) \/ AgentWorks(p) \/ Crash(p) \/ Acknowledge(p)
    \/ \E f \in Feature : OrphanWorks(f) \/ OrphanEnds(f)

Spec == Init /\ [][Next]_vars
-------------------------------------------------------------------------------
TypeOK ==
    /\ LedgerTypeOK
    /\ \A p \in Proc :
        /\ job[p].pc \in {"idle", "run", "check", "dedupe", "read", "write", "done", "boot"}
        /\ job[p].feature \in Feature \cup {None}
        /\ job[p].phase \in Phase \cup {None}
        /\ job[p].event \in PipelineEvent \cup {None}
        /\ job[p].runs \in 0 .. 2
    /\ orphan \in [Feature -> {None, "plan", "solution"}]
    /\ late \in Nat

(***************************************************************************)
(* If the callers of a feature take turns, its history is one that         *)
(* validate_sequence accepts, whatever the callers of other features do to *)
(* theirs, through retries, reruns and crashes.  The code: cmd_append      *)
(* validates what it read and writes to what is there.                     *)
(***************************************************************************)
ExclusiveStaysValid == \A f \in Exclusive : ValidHistory(plog[f])

(***************************************************************************)
(* An invalid history, once two callers have made one, stops the ledger    *)
(* for every feature: only those who had validated before may still write, *)
(* at most one entry for each of the other processes.                      *)
(***************************************************************************)
PoisonIsContained == late <= Cardinality(Proc) - 1

(***************************************************************************)
(* When the driver appends the approval of an exclusive feature's plan,    *)
(* plan.md is a completed plan, unless an orphan of an earlier call was at *)
(* work when it was validated ("alone" remembers): nothing else comes      *)
(* between the validation and the append.                                  *)
(***************************************************************************)
ApprovalIsBacked ==
    [][\A p \in Proc :
          LET f == job[p].feature IN
          At(p, "write") /\ plog' # plog /\ job'[p].pc = "done" /\ f \in Exclusive
          /\ job[p].result = "plan_approved" /\ job[p].alone
          => art[f].plan = "complete"]_vars

(***************************************************************************)
(* "make phase retries idempotent so repeated attempts do not duplicate    *)
(* terminal event outcomes" (specs/023, FR-011): the driver's events are   *)
(* there once.  Two drivers of one feature break it.                       *)
(***************************************************************************)
DriverEvent == {"plan_approved", "duplicate_marked", "solution_approved"}

EmittedOnce ==
    \A f \in Feature : \A i, j \in 1 .. Len(plog[f]) :
        plog[f][i] = plog[f][j] /\ plog[f][i].event \in DriverEvent => i = j
=============================================================================
