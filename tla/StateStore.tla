----------------------------- MODULE StateStore -----------------------------
(***************************************************************************)
(* The SQLite state of the ClickUp control plane                           *)
(* (src/src/clickup_control_plane/state_store.py): one variable per table, *)
(* one action per method.  A method opens a connection of its own and runs *)
(* one transaction, so a method is one atomic step; two methods called by  *)
(* one request are two steps, and other requests run between them.         *)
(*                                                                         *)
(* An action's result (a boolean or a decision) is an operator evaluated   *)
(* in the state the transaction starts from: LockDecision, Recorded,       *)
(* RunningAs.                                                              *)
(***************************************************************************)
EXTENDS Naturals

CONSTANTS
    Task,    \* ClickUp tasks
    Event,   \* webhook bodies; event_id is the hash of the body
    TaskOf,  \* TaskOf[e]: payload.task_id
    Run,     \* the run ids n8n hands out
    None     \* no row, no value

ASSUME TaskOfType == TaskOf \in [Event -> Task]

\* A run id is the provisional "run_pending_<event_id>" or one named by n8n.
Pending(e) == <<"pending", e>>
N8n(x) == <<"n8n", x>>
NamedRun == {N8n(x) : x \in Run}
RunId == {Pending(e) : e \in Event} \cup NamedRun

Workflow == {"build_spec", "qa_loop", "other"}
QaDecision == {"qa_passed", "qa_failed_to_build", "qa_blocked_after_retries"}
GateRefusal == {"missing_criteria", "qa_unblock_required"}
Decision ==
    {"pending", "dispatch", "skip_duplicate", "stale_event", "reject_active_run",
     "reject_scope", "action_scope_violation", "reject_missing_metadata",
     "schema_mismatch", "dispatch_failed", "input_resumed",
     "cancelled_by_operator"} \cup QaDecision \cup GateRefusal

ProcessedRow == [decision : Decision, at : Nat]
ActiveRow == [run_id : RunId, event_id : Event, state : {"running", "released", "stale"}]
PausedRow == [run_id : NamedRun, workflow : Workflow]

ASSUME NoneIsNoValue ==
    /\ None \notin Event
    /\ None \notin RunId
    /\ None \notin ProcessedRow
    /\ None \notin ActiveRow
    /\ None \notin PausedRow

VARIABLES
    processed_events,  \* event -> row, None when the event was never inserted
    active_task_runs,  \* task -> row, None when the task never had a run
    paused_task_runs   \* task -> row, None when no run of the task is paused

storeVars == <<processed_events, active_task_runs, paused_task_runs>>

StoreInit ==
    /\ processed_events = [e \in Event |-> None]
    /\ active_task_runs = [t \in Task |-> None]
    /\ paused_task_runs = [t \in Task |-> None]

-----------------------------------------------------------------------------
Recorded(e) == processed_events[e] # None

Running(t) ==
    /\ active_task_runs[t] # None
    /\ active_task_runs[t].state = "running"

\* The comparison every compare-and-set on the lock row makes.
RunningAs(t, run) ==
    /\ Running(t)
    /\ active_task_runs[t].run_id = run

get_active_run(t) == IF Running(t) THEN active_task_runs[t] ELSE None

list_running_runs == {t \in Task : Running(t)}

\* The newest other event recorded for the task is newer than this one.
IsStale(e, at) ==
    \E f \in Event \ {e} :
        /\ TaskOf[f] = TaskOf[e]
        /\ Recorded(f)
        /\ at < processed_events[f].at

\* Mutant: the duplicate check is missing.
LockDecision_NoDedupe(e, at) ==
    IF IsStale(e, at) THEN "stale_event"
    ELSE IF Running(TaskOf[e]) THEN "reject_active_run"
    ELSE "dispatch"

\* Mutant: the active run is not looked at.
LockDecision_NoLock(e, at) ==
    IF Recorded(e) THEN "skip_duplicate"
    ELSE IF IsStale(e, at) THEN "stale_event"
    ELSE "dispatch"

LockDecision(e, at) ==
    IF Recorded(e) THEN "skip_duplicate"
    ELSE IF IsStale(e, at) THEN "stale_event"
    ELSE IF Running(TaskOf[e]) THEN "reject_active_run"
    ELSE "dispatch"

-----------------------------------------------------------------------------
record_event_and_acquire_lock(e, run, at) ==
    LET d == LockDecision(e, at) IN
    /\ processed_events' =
         IF d = "skip_duplicate" THEN processed_events
         ELSE [processed_events EXCEPT ![e] = [decision |-> d, at |-> at]]
    /\ active_task_runs' =
         IF d # "dispatch" THEN active_task_runs
         ELSE [active_task_runs EXCEPT ![TaskOf[e]] =
                 [run_id |-> run, event_id |-> e, state |-> "running"]]
    /\ UNCHANGED paused_task_runs

\* Mutant: the WHERE clause names the task instead of the event.
update_processed_event_decision_AllOfTask(e, d) ==
    /\ processed_events' =
         [f \in Event |->
            IF TaskOf[f] = TaskOf[e] /\ Recorded(f)
            THEN [processed_events[f] EXCEPT !.decision = d]
            ELSE processed_events[f]]
    /\ UNCHANGED <<active_task_runs, paused_task_runs>>

update_processed_event_decision(e, d) ==
    /\ processed_events' =
         IF Recorded(e) THEN [processed_events EXCEPT ![e].decision = d]
         ELSE processed_events
    /\ UNCHANGED <<active_task_runs, paused_task_runs>>

record_processed_event(e, d, at) ==
    /\ processed_events' =
         IF Recorded(e) THEN processed_events
         ELSE [processed_events EXCEPT ![e] = [decision |-> d, at |-> at]]
    /\ UNCHANGED <<active_task_runs, paused_task_runs>>

set_active_run_id(t, current, new) ==
    /\ active_task_runs' =
         IF RunningAs(t, current) THEN [active_task_runs EXCEPT ![t].run_id = new]
         ELSE active_task_runs
    /\ UNCHANGED <<processed_events, paused_task_runs>>

\* Mutant: the run id is left out of the WHERE clause.
release_active_run_AnyRun(t, run, final) ==
    /\ active_task_runs' =
         IF Running(t) THEN [active_task_runs EXCEPT ![t].state = final]
         ELSE active_task_runs
    /\ UNCHANGED <<processed_events, paused_task_runs>>

release_active_run(t, run, final) ==
    /\ active_task_runs' =
         IF RunningAs(t, run) THEN [active_task_runs EXCEPT ![t].state = final]
         ELSE active_task_runs
    /\ UNCHANGED <<processed_events, paused_task_runs>>

\* With release_lock=True: when the lock is not run's any more the whole
\* transaction rolls back, the decision with it.  With release_lock=False
\* the method is update_processed_event_decision.
persist_terminal_decision(t, e, d, run) ==
    IF RunningAs(t, run)
    THEN /\ processed_events' =
              IF Recorded(e) THEN [processed_events EXCEPT ![e].decision = d]
              ELSE processed_events
         /\ active_task_runs' = [active_task_runs EXCEPT ![t].state = "released"]
         /\ UNCHANGED paused_task_runs
    ELSE UNCHANGED storeVars

upsert_paused_run(t, run, workflow) ==
    /\ paused_task_runs' =
         [paused_task_runs EXCEPT ![t] = [run_id |-> run, workflow |-> workflow]]
    /\ UNCHANGED <<processed_events, active_task_runs>>

PausedAs(t, run) ==
    /\ paused_task_runs[t] # None
    /\ paused_task_runs[t].run_id = run

clear_paused_run(t, run) ==
    /\ paused_task_runs' =
         IF PausedAs(t, run) THEN [paused_task_runs EXCEPT ![t] = None]
         ELSE paused_task_runs
    /\ UNCHANGED <<processed_events, active_task_runs>>

\* Any client, calling any method at any time with any arguments.
StoreNext ==
    \/ \E e \in Event :
         \/ \E run \in RunId, at \in Nat : record_event_and_acquire_lock(e, run, at)
         \/ \E d \in Decision, at \in Nat : record_processed_event(e, d, at)
         \/ \E d \in Decision : update_processed_event_decision(e, d)
         \/ \E d \in Decision, run \in RunId : persist_terminal_decision(TaskOf[e], e, d, run)
    \/ \E t \in Task, run \in RunId :
         \/ \E new \in RunId : set_active_run_id(t, run, new)
         \/ \E final \in {"released", "stale"} : release_active_run(t, run, final)
         \/ \E w \in Workflow : run \in NamedRun /\ upsert_paused_run(t, run, w)
         \/ clear_paused_run(t, run)

StoreSpec == StoreInit /\ [][StoreNext]_storeVars

-----------------------------------------------------------------------------
StoreTypeOK ==
    /\ processed_events \in [Event -> ProcessedRow \cup {None}]
    /\ active_task_runs \in [Task -> ActiveRow \cup {None}]
    /\ paused_task_runs \in [Task -> PausedRow \cup {None}]

\* Every lock row was taken by a recorded event of the same task: the insert
\* of the event and the lock are one transaction, so neither exists without
\* the other after a rollback or a crash.
LockTracesToEvent ==
    \A t \in Task :
        active_task_runs[t] # None =>
            /\ Recorded(active_task_runs[t].event_id)
            /\ TaskOf[active_task_runs[t].event_id] = t

\* The tables implement the abstract run lock, whoever calls the methods.
Lock == INSTANCE RunLock WITH
    holder <- [t \in Task |-> IF Running(t) THEN active_task_runs[t].event_id ELSE None],
    spent <- {e \in Event : Recorded(e)}

\* Refinement: every change of the lock table is the grant of a free lock to
\* an event recorded by the same step, or a release; no event is recorded
\* twice, and none gets the lock after the step that recorded it
\* (record_event_and_acquire_lock and the compare-and-set releases).
RefinesRunLock == Lock!Spec
=============================================================================
