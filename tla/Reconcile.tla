----------------------------- MODULE Reconcile -----------------------------
(***************************************************************************)
(* ReconciliationService (src/src/clickup_control_plane/reconcile.py):     *)
(* list the running locks, ask ClickUp about each, and release the ones    *)
(* whose task is in a terminal status.  It runs once at startup and, as    *)
(* the pre-dispatch checkpoint, inside every webhook request that is about *)
(* to take a lock, for the locks of ALL tasks.  Between the listing, a     *)
(* probe and the release that follows it other requests run.               *)
(***************************************************************************)
EXTENDS StateStore

CONSTANTS
    Boot,  \* the pass the FastAPI lifespan makes before it serves requests
    Env    \* which misbehaviours of the surroundings a run explores

\* ClickUp: probe_failure (it does not answer a probe), clickup_error (an error
\* stops a QA result half-way), schema_drift (an outcome field is missing), and
\* operator_moves (cards are moved by hand).  n8n: n8n_rejects (it accepts no
\* POST), lost_response (it accepts one and the answer is lost), early_response
\* (it answers before a QA run ends), anonymous_run (it names no run),
\* late_resume (a resume of an execution that ended starts another one).  Its
\* callbacks: anonymous_callback (no run id), foreign_workflow (an unroutable
\* workflow type), early_callback (before the POST's response was handled),
\* overlapping_callback, duplicate_callback, lost_callback.  And crash.
EnvKind ==
    {"probe_failure", "operator_moves", "clickup_error", "schema_drift",
     "n8n_rejects", "lost_response", "early_response", "anonymous_run", "anonymous_callback",
     "foreign_workflow", "early_callback", "overlapping_callback",
     "duplicate_callback", "lost_callback", "late_resume", "crash"}

ASSUME EnvType == Env \subseteq EnvKind
ASSUME BootIsNoRun == Boot \notin Run

\* Webhook requests.  A request starts at most one n8n execution, and the
\* execution goes by the name of its request: Request is the set of run ids.
Request == Run
Reconciler == Request \cup {Boot}

TaskStatus == {"active", "terminal"}
Item == Task \X RunId

VARIABLES
    recon,       \* recon[p]: progress of the pass p makes
    task_status  \* what ClickUp says of a task, as _status_implies_active reads it

reconVars == <<recon, task_status>>

NoPass == [step |-> "off", todo |-> {}, item |-> None, drift |-> FALSE]
StartPass == [NoPass EXCEPT !.step = "list"]

\* The control plane answers requests only after the startup pass.
Serving == recon[Boot].step = "end"

\* The pass goes on with the items left, or ends.
Left(todo, drift) ==
    [step |-> IF todo = {} THEN "end" ELSE "probe",
     todo |-> todo, item |-> None, drift |-> drift]

list_running(p) ==
    /\ recon[p].step = "list"
    /\ recon' = [recon EXCEPT ![p] =
         Left({<<t, active_task_runs[t].run_id>> : t \in list_running_runs}, FALSE)]
    /\ UNCHANGED <<storeVars, task_status>>

\* is_task_run_active looks at the task only; the run id is not used.
\* Rows are probed in any order (the code: by acquired_at_utc).
probe(p) ==
    /\ recon[p].step = "probe"
    /\ \E i \in recon[p].todo :
         LET rest == recon[p].todo \ {i} IN
         \/ /\ task_status[i[1]] = "active"
            /\ recon' = [recon EXCEPT ![p] = Left(rest, recon[p].drift)]
         \/ /\ "probe_failure" \in Env
            /\ recon' = [recon EXCEPT ![p] = Left(rest, TRUE)]
         \/ /\ task_status[i[1]] = "terminal"
            /\ recon' = [recon EXCEPT ![p].step = "free", ![p].item = i,
                                      ![p].todo = rest]
    /\ UNCHANGED <<storeVars, task_status>>

release_stale(p) ==
    /\ recon[p].step = "free"
    /\ LET t == recon[p].item[1]
           run == recon[p].item[2]
       IN /\ release_active_run(t, run, "stale")
          /\ recon' = [recon EXCEPT ![p] =
               Left(recon[p].todo, recon[p].drift \/ ~RunningAs(t, run))]
    /\ UNCHANGED task_status

ReconcileStep(p) == list_running(p) \/ probe(p) \/ release_stale(p)

OperatorMovesCard(t) ==
    /\ "operator_moves" \in Env
    /\ task_status' = [task_status EXCEPT ![t] =
         IF @ = "active" THEN "terminal" ELSE "active"]
    /\ UNCHANGED <<storeVars, recon>>

ReconInit ==
    /\ recon = [p \in Reconciler |-> IF p = Boot THEN StartPass ELSE NoPass]
    /\ task_status = [t \in Task |-> "active"]

ReconTypeOK ==
    /\ recon \in [Reconciler ->
         [step : {"off", "list", "probe", "free", "end"}, todo : SUBSET Item,
          item : Item \cup {None}, drift : BOOLEAN]]
    /\ task_status \in [Task -> TaskStatus]
=============================================================================
