---------------------------- MODULE ControlPlane ----------------------------
(***************************************************************************)
(* The ClickUp control plane: DispatchOrchestrationService.process_event   *)
(* (src/src/clickup_control_plane/service.py) as concurrent webhook        *)
(* requests over the state store, the completion callback handler          *)
(* (app.py), and the two services around them, n8n and ClickUp.            *)
(*                                                                         *)
(* A request is a process.  Its pc names the await it is suspended at; one *)
(* action runs it to the next await that touches shared state.  Writing an *)
(* outcome comment to ClickUp changes no state of the model, so it shares  *)
(* a step with the store call that follows it.                             *)
(***************************************************************************)
EXTENDS Reconcile

CONSTANTS
    PayloadOf,   \* PayloadOf[e]: what process_event reads in the body of e
    Checkpoint,  \* whether the service was given a reconciliation service
    MaxCrashes   \* bound on crashes

\* occurred_at is 0 when the body has no occurred_at_utc; policy is what
\* evaluate_dispatch_policy decides, gate what evaluate_qa_dispatch_gate
\* decides; response: the body carries an operator's answer; cancel: a move
\* from a controlled to an uncontrolled status.
Payload ==
    [occurred_at : Nat,
     policy : {"dispatch", "reject_scope", "reject_missing_metadata",
               "action_scope_violation"},
     workflow : Workflow,
     gate : {"dispatch"} \cup GateRefusal,
     response : BOOLEAN,
     cancel : BOOLEAN]

ASSUME PayloadType == PayloadOf \in [Event -> Payload]
ASSUME CheckpointType == Checkpoint \in BOOLEAN
ASSUME MaxCrashesType == MaxCrashes \in Nat

VARIABLES
    req,        \* req[r]: local variables of the request
    clock,      \* requests received so far: the time of day they read
    n8n,        \* n8n[x]: state of the execution started by request x
    callbacks,  \* completion callbacks in flight or being handled
    crashes,    \* crashes so far
    posted,     \* history: requests that POSTed a dispatch or a resume to n8n
    acked       \* history: runs whose terminal callback was accepted (202)

envVars == <<n8n, callbacks>>
history == <<posted, acked>>
vars == <<storeVars, reconVars, req, clock, n8n, callbacks, crashes, posted, acked>>

Live == {"running", "waiting"}

IdleRequest ==
    [pc |-> "idle", event |-> None, at |-> 0, active |-> None, paused |-> None,
     run |-> None, decision |-> None]

Init ==
    /\ StoreInit
    /\ ReconInit
    /\ req = [r \in Request |-> IdleRequest]
    /\ clock = 0
    /\ n8n = [x \in Run |-> "none"]
    /\ callbacks = {}
    /\ crashes = 0
    /\ posted = {}
    /\ acked = {}

-----------------------------------------------------------------------------
(* Requests: helpers *)

At(r, pc) == req[r].pc = pc
Ev(r) == req[r].event
Tk(r) == TaskOf[Ev(r)]
Body(r) == PayloadOf[Ev(r)]
Routable(w) == w # "other"   \* resolve_workflow_path

Goto(r, pc) == req' = [req EXCEPT ![r].pc = pc]
Decide(r, pc, d) == req' = [req EXCEPT ![r].pc = pc, ![r].decision = d]

\* The handler returns d; its other local variables are gone.
Reply(r, d) ==
    req' = [req EXCEPT ![r].pc = "done", ![r].decision = d, ![r].active = None,
                       ![r].paused = None, ![r].run = None]

\* What a step of a request leaves alone, besides the tables.
QuietButPost == UNCHANGED <<reconVars, clock, callbacks, crashes, acked>>
Quiet == QuietButPost /\ UNCHANGED <<n8n, posted>>

-----------------------------------------------------------------------------
(* process_event up to the lock *)

\* The requests still to come are alike: the next one takes any unused name.
Unused == {r \in Request : At(r, "idle")}

receive(e) ==
    /\ Serving
    /\ Unused # {}
    /\ clock' = clock + 1
    /\ LET r == CHOOSE r \in Unused : TRUE IN
       req' = [req EXCEPT ![r].pc = "get_active", ![r].event = e,
         ![r].at = IF PayloadOf[e].occurred_at = 0 THEN clock'
                   ELSE PayloadOf[e].occurred_at]
    /\ UNCHANGED <<storeVars, reconVars, envVars, crashes, history>>

read_active_run(r) ==
    /\ At(r, "get_active")
    /\ req' = [req EXCEPT ![r].pc = "get_paused", ![r].active = get_active_run(Tk(r))]
    /\ UNCHANGED storeVars /\ Quiet

WantsResume(r, active, paused) ==
    /\ active # None /\ paused # None
    /\ active.run_id = paused.run_id
    /\ Body(r).response

WantsCancel(r, active) == active # None /\ Body(r).cancel

\* Reads the paused row, then branches on it and on the active row read one
\* step earlier: resume, cancel, or the dispatch policy.
read_paused_and_branch(r) ==
    /\ At(r, "get_paused")
    /\ LET active == req[r].active
           paused == paused_task_runs[Tk(r)]
           keep == [req EXCEPT ![r].paused = paused]
           drop == [req EXCEPT ![r].active = None]
       IN \/ /\ WantsResume(r, active, paused)
             /\ req' = [keep EXCEPT ![r].pc = "resume_record"]
             /\ UNCHANGED recon
          \/ /\ ~WantsResume(r, active, paused)
             /\ WantsCancel(r, active)
             /\ req' = [keep EXCEPT ![r].pc = "cancel_record"]
             /\ UNCHANGED recon
          \/ /\ ~WantsResume(r, active, paused) /\ ~WantsCancel(r, active)
             /\ Body(r).policy # "dispatch"
             /\ req' = [drop EXCEPT ![r].pc = "outcome_only",
                                    ![r].decision = Body(r).policy]
             /\ UNCHANGED recon
          \/ /\ ~WantsResume(r, active, paused) /\ ~WantsCancel(r, active)
             /\ Body(r).policy = "dispatch"
             /\ IF Checkpoint
                THEN /\ req' = [drop EXCEPT ![r].pc = "checkpoint"]
                     /\ recon' = [recon EXCEPT ![r] = StartPass]
                ELSE /\ req' = [drop EXCEPT ![r].pc = "lock"]
                     /\ UNCHANGED recon
    /\ UNCHANGED <<storeVars, task_status, clock, envVars, crashes, history>>

\* enforce_pre_dispatch_checkpoint returns, or raises on unresolved drift.
leave_checkpoint(r) ==
    /\ At(r, "checkpoint")
    /\ recon[r].step = "end"
    /\ IF recon[r].drift THEN Decide(r, "outcome_only", "dispatch_failed")
       ELSE Goto(r, "lock")
    /\ recon' = [recon EXCEPT ![r] = NoPass]
    /\ UNCHANGED <<storeVars, task_status, clock, envVars, crashes, history>>

\* The outcome of a decision that has no row in processed_events.
outcome_only(r) ==
    /\ At(r, "outcome_only")
    /\ \/ Reply(r, req[r].decision)
       \/ "schema_drift" \in Env /\ Reply(r, "schema_mismatch")
    /\ UNCHANGED storeVars /\ Quiet

acquire_lock(r) ==
    /\ At(r, "lock")
    /\ LET e == Ev(r)
           d == LockDecision(e, req[r].at)
       IN /\ record_event_and_acquire_lock(e, Pending(e), req[r].at)
          /\ CASE d = "skip_duplicate" -> Reply(r, d)
               [] d \in {"stale_event", "reject_active_run"} -> Decide(r, "outcome_row", d)
               [] d = "dispatch" /\ ~Routable(Body(r).workflow) ->
                    Decide(r, "mark", "reject_missing_metadata")
               [] d = "dispatch" /\ Body(r).workflow = "qa_loop" /\ Body(r).gate # "dispatch" ->
                    Decide(r, "outcome_gate", Body(r).gate)
               [] OTHER -> Goto(r, "post")
    /\ Quiet

\* update_processed_event_decision, then the outcome.  When it follows a lock
\* that was just taken (no route for the workflow) the lock is not released.
mark(r) ==
    /\ At(r, "mark")
    /\ update_processed_event_decision(Ev(r), req[r].decision)
    /\ Goto(r, "outcome_row")
    /\ Quiet

\* The outcome of a decision that is on record; a schema mismatch replaces it.
outcome_row(r) ==
    /\ At(r, "outcome_row")
    /\ \/ Reply(r, req[r].decision) /\ UNCHANGED storeVars
       \/ /\ "schema_drift" \in Env
          /\ update_processed_event_decision(Ev(r), "schema_mismatch")
          /\ Reply(r, "schema_mismatch")
    /\ Quiet

\* The QA gate refused: outcome, then decision and lock release together; on
\* a schema mismatch the decision only.
outcome_gate(r) ==
    /\ At(r, "outcome_gate")
    /\ \/ /\ persist_terminal_decision(Tk(r), Ev(r), req[r].decision, Pending(Ev(r)))
          /\ Reply(r, req[r].decision)
       \/ /\ "schema_drift" \in Env
          /\ update_processed_event_decision(Ev(r), "schema_mismatch")
          /\ Reply(r, "schema_mismatch")
    /\ Quiet

-----------------------------------------------------------------------------
(* Dispatch to n8n.  req[r].run is the execution the POST started or went on
   with, None when n8n accepted nothing. *)

post_dispatch(r) ==
    /\ At(r, "post")
    /\ posted' = posted \cup {r}
    /\ \/ /\ n8n' = [n8n EXCEPT ![r] = "running"]
          /\ req' = [req EXCEPT ![r].pc = "sent", ![r].run = N8n(r)]
       \/ /\ "n8n_rejects" \in Env
          /\ Goto(r, "sent")
          /\ UNCHANGED n8n
    /\ UNCHANGED storeVars /\ QuietButPost

\* The QA workflow answers the POST when it has a result (unless Env has
\* early_response), the others as soon as they have started.
Answered(r) ==
    /\ At(r, "sent")
    /\ req[r].run # None
    /\ \/ Body(r).workflow # "qa_loop"
       \/ n8n[r] = "finished"
       \/ "early_response" \in Env

AfterDispatch(r) == IF Body(r).workflow = "qa_loop" THEN "qa" ELSE "outcome_dispatch"

\* The response names the run: the provisional id gives way to it.
dispatch_named(r) ==
    /\ Answered(r)
    /\ set_active_run_id(Tk(r), Pending(Ev(r)), req[r].run)
    /\ Goto(r, AfterDispatch(r))
    /\ Quiet

\* The response is a success without a run id.
dispatch_anonymous(r) ==
    /\ Answered(r)
    /\ "anonymous_run" \in Env
    /\ req' = [req EXCEPT ![r].pc = AfterDispatch(r), ![r].run = Pending(Ev(r))]
    /\ UNCHANGED storeVars /\ Quiet

\* Mutant: persist_terminal_decision with release_lock=False.
dispatch_failed_KeepsLock(r) ==
    /\ At(r, "sent")
    /\ req[r].run = None \/ "lost_response" \in Env
    /\ update_processed_event_decision(Ev(r), "dispatch_failed")
    /\ Decide(r, "outcome_row", "dispatch_failed")
    /\ Quiet

\* Mutant: only a lost response is caught, a rejection is not.
dispatch_failed_LostOnly(r) ==
    /\ At(r, "sent")
    /\ "lost_response" \in Env
    /\ persist_terminal_decision(Tk(r), Ev(r), "dispatch_failed", Pending(Ev(r)))
    /\ Decide(r, "outcome_row", "dispatch_failed")
    /\ Quiet

\* Timeout, transport error or rejection; n8n may have started the run.
dispatch_failed(r) ==
    /\ At(r, "sent")
    /\ req[r].run = None \/ "lost_response" \in Env
    /\ persist_terminal_decision(Tk(r), Ev(r), "dispatch_failed", Pending(Ev(r)))
    /\ Decide(r, "outcome_row", "dispatch_failed")
    /\ Quiet

outcome_dispatch(r) ==
    /\ At(r, "outcome_dispatch")
    /\ \/ Reply(r, "dispatch") /\ UNCHANGED storeVars
       \/ /\ "schema_drift" \in Env
          /\ persist_terminal_decision(Tk(r), Ev(r), "schema_mismatch", req[r].run)
          /\ Reply(r, "schema_mismatch")
    /\ Quiet

-----------------------------------------------------------------------------
(* _handle_qa_workflow_result: the dispatch response is the QA result *)

\* The body is no QaWorkflowResultPayload; the run need not have ended.
qa_invalid(r) ==
    /\ At(r, "qa")
    /\ persist_terminal_decision(Tk(r), Ev(r), "dispatch_failed", req[r].run)
    /\ Reply(r, "dispatch_failed")
    /\ Quiet

\* pass: Done; fail: Build; too many failures: Blocked.  Which of the last
\* two is module QaLoop's business.
QaStatus(d) == IF d = "qa_failed_to_build" THEN "active" ELSE "terminal"

\* set_task_status and the outcome: both succeed, or a ClickUpError stops
\* after or before the status (ignored), or the schema does not match.
qa_result(r) ==
    /\ At(r, "qa")
    /\ n8n[r] = "finished"
    /\ \E d \in QaDecision, moved \in BOOLEAN, drift \in BOOLEAN :
         /\ moved \/ drift \/ "clickup_error" \in Env
         /\ drift => "schema_drift" \in Env
         /\ task_status' = IF moved THEN [task_status EXCEPT ![Tk(r)] = QaStatus(d)]
                           ELSE task_status
         /\ Decide(r, "settle", IF drift THEN "schema_mismatch" ELSE d)
    /\ UNCHANGED <<storeVars, recon, clock, envVars, crashes, history>>

\* Mutant: persist_terminal_decision with release_lock=False.
settle_KeepsLock(r) ==
    /\ At(r, "settle")
    /\ update_processed_event_decision(Ev(r), req[r].decision)
    /\ Reply(r, req[r].decision)
    /\ Quiet

settle(r) ==
    /\ At(r, "settle")
    /\ persist_terminal_decision(Tk(r), Ev(r), req[r].decision, req[r].run)
    /\ Reply(r, req[r].decision)
    /\ Quiet

-----------------------------------------------------------------------------
(* _resume_paused_run *)

record_operator_event(r, next, d) ==
    /\ record_processed_event(Ev(r), "pending", req[r].at)
    /\ IF Recorded(Ev(r)) THEN Reply(r, "skip_duplicate")
       ELSE Decide(r, next, d)
    /\ Quiet

resume_record(r) ==
    /\ At(r, "resume_record")
    /\ IF Routable(req[r].paused.workflow)
       THEN record_operator_event(r, "resume_post", None)
       ELSE record_operator_event(r, "mark", "reject_missing_metadata")

\* n8n goes on with the paused execution, or starts one that supersedes it,
\* or accepts nothing.
post_resume(r) ==
    /\ At(r, "resume_post")
    /\ posted' = posted \cup {r}
    /\ LET x == req[r].paused.run_id[2] IN
       \/ /\ n8n[x] = "waiting"
          /\ n8n' = [n8n EXCEPT ![x] = "running"]
          /\ req' = [req EXCEPT ![r].pc = "resume_sent", ![r].run = N8n(x)]
       \/ /\ n8n[x] = "waiting" \/ "late_resume" \in Env
          /\ n8n' = [n8n EXCEPT ![x] = IF @ = "waiting" THEN "finished" ELSE @,
                                ![r] = "running"]
          /\ req' = [req EXCEPT ![r].pc = "resume_sent", ![r].run = N8n(r)]
       \/ /\ n8n[x] # "waiting" \/ "n8n_rejects" \in Env
          /\ Goto(r, "resume_sent")
          /\ UNCHANGED n8n
    /\ UNCHANGED storeVars /\ QuietButPost

resume_failed(r) ==
    /\ At(r, "resume_sent")
    /\ req[r].run = None \/ "lost_response" \in Env
    /\ update_processed_event_decision(Ev(r), "dispatch_failed")
    /\ Decide(r, "outcome_row", "dispatch_failed")
    /\ Quiet

\* resumed_run_id is the run id of the response or the paused one.
resumed(r) ==
    /\ At(r, "resume_sent")
    /\ req[r].run # None
    /\ \/ set_active_run_id(Tk(r), req[r].paused.run_id, req[r].run)
       \/ "anonymous_run" \in Env /\ UNCHANGED storeVars
    /\ Goto(r, "resume_clear")
    /\ Quiet

\* Mutant: update_processed_event_decision is forgotten.
resume_clear_NoDecision(r) ==
    /\ At(r, "resume_clear")
    /\ clear_paused_run(Tk(r), req[r].paused.run_id)
    /\ Decide(r, "outcome_row", "input_resumed")
    /\ Quiet

resume_clear(r) ==
    /\ At(r, "resume_clear")
    /\ clear_paused_run(Tk(r), req[r].paused.run_id)
    /\ Decide(r, "mark", "input_resumed")
    /\ Quiet

-----------------------------------------------------------------------------
(* _cancel_active_run_from_manual_status_change *)

cancel_record(r) ==
    /\ At(r, "cancel_record")
    /\ record_operator_event(r, "cancel_post", None)

FinalCallback(x, named) ==
    [run |-> x, status |-> "final", named |-> named, workflow |-> "build_spec",
     pc |-> "write", target |-> None]

\* Mutant: when the signal fails the cancellation ends, and the lock stays.
cancel_signal_GivesUp(r) ==
    /\ At(r, "cancel_post")
    /\ \/ \E x \in Run :
            /\ req[r].active.run_id = N8n(x)
            /\ n8n[x] \in Live
            /\ n8n' = [n8n EXCEPT ![x] = "finished"]
            /\ UNCHANGED callbacks
            /\ Goto(r, "cancel_release")
       \/ /\ Decide(r, "mark", "cancelled_by_operator")
          /\ UNCHANGED envVars
    /\ UNCHANGED <<storeVars, reconVars, clock, crashes, history>>

\* Best effort: n8n stops the execution it knows by the id (and may report
\* that it was cancelled), or the signal fails, which is ignored.  n8n knows
\* no provisional id.
cancel_signal(r) ==
    /\ At(r, "cancel_post")
    /\ \/ \E x \in Run :
            /\ req[r].active.run_id = N8n(x)
            /\ n8n[x] \in Live
            /\ n8n' = [n8n EXCEPT ![x] = "finished"]
            /\ \/ UNCHANGED callbacks
               \/ callbacks' = callbacks \cup {FinalCallback(x, TRUE)}
       \/ /\ \/ "n8n_rejects" \in Env
             \/ ~\E x \in Run : req[r].active.run_id = N8n(x) /\ n8n[x] \in Live
          /\ UNCHANGED envVars
    /\ Goto(r, "cancel_release")
    /\ UNCHANGED <<storeVars, reconVars, clock, crashes, history>>

\* The result of the compare-and-set is ignored.
cancel_release(r) ==
    /\ At(r, "cancel_release")
    /\ release_active_run(Tk(r), req[r].active.run_id, "released")
    /\ IF req[r].paused # None THEN Goto(r, "cancel_clear")
       ELSE Decide(r, "mark", "cancelled_by_operator")
    /\ Quiet

cancel_clear(r) ==
    /\ At(r, "cancel_clear")
    /\ clear_paused_run(Tk(r), req[r].paused.run_id)
    /\ Decide(r, "mark", "cancelled_by_operator")
    /\ Quiet

-----------------------------------------------------------------------------
(* n8n executions (external) and the callbacks they send *)

\* Names a callback carries its run id under: n8n may leave it out.
Naming == IF "anonymous_callback" \in Env THEN BOOLEAN ELSE {TRUE}

\* The execution reports: not before the response to the POST that started
\* it was handled, and one callback at a time, unless Env says otherwise.
MayReport(x) ==
    /\ "early_callback" \in Env \/ req[x].pc \notin {"sent", "resume_sent"}
    /\ "overlapping_callback" \in Env \/ \A m \in callbacks : m.run # x

Report(x, status, workflow) ==
    \E named \in Naming :
        callbacks' = callbacks \cup
            {[FinalCallback(x, named) EXCEPT !.status = status, !.workflow = workflow]}

OfN8n == UNCHANGED <<storeVars, reconVars, req, clock, crashes, history>>

\* completed, failed or cancelled: the handler treats them alike.
run_finishes(x) ==
    /\ n8n[x] = "running"
    /\ MayReport(x)
    /\ n8n' = [n8n EXCEPT ![x] = "finished"]
    /\ Report(x, "final", "build_spec")
    /\ OfN8n

\* A QA run ends with its result in the dispatch response, no callback.
run_returns(x) ==
    /\ n8n[x] = "running"
    /\ At(x, "sent")
    /\ Body(x).workflow = "qa_loop"
    /\ n8n' = [n8n EXCEPT ![x] = "finished"]
    /\ UNCHANGED callbacks
    /\ OfN8n

run_asks(x) ==
    /\ n8n[x] = "running"
    /\ MayReport(x)
    /\ n8n' = [n8n EXCEPT ![x] = "waiting"]
    /\ \E w \in IF "foreign_workflow" \in Env THEN {"build_spec", "other"}
                ELSE {"build_spec"} : Report(x, "waiting_input", w)
    /\ OfN8n

run_times_out(x) ==
    /\ n8n[x] = "waiting"
    /\ MayReport(x)
    /\ n8n' = [n8n EXCEPT ![x] = "finished"]
    /\ Report(x, "timed_out", "build_spec")
    /\ OfN8n

-----------------------------------------------------------------------------
(* workflow_completion (app.py).  A ClickUp error before the tables are
   touched answers 502 and the callback is sent again: the message stays. *)

Moves(m, n) == callbacks' = (callbacks \ {m}) \cup {n}

\* Answered; n8n may have missed the answer and send it again.
Ends(m) ==
    \/ callbacks' = callbacks \ {m}
    \/ "duplicate_callback" \in Env /\ Moves(m, [m EXCEPT !.pc = "write", !.target = None])

OfCallback == UNCHANGED <<req, recon, clock, n8n, crashes, posted>>

\* The outcome comment, and the waiting or blocked status.
callback_write(m) ==
    /\ m.pc = "write"
    /\ LET t == Tk(m.run) IN
       \/ /\ m.status = "waiting_input" /\ ~m.named
          /\ Ends(m)
          /\ UNCHANGED task_status
       \/ /\ m.status = "waiting_input" /\ m.named
          /\ task_status' = [task_status EXCEPT ![t] = "active"]
          /\ Moves(m, [m EXCEPT !.pc = "pause"])
       \/ /\ m.status # "waiting_input"
          /\ task_status' = IF m.status = "timed_out"
                            THEN [task_status EXCEPT ![t] = "terminal"]
                            ELSE task_status
          /\ Moves(m, IF m.named THEN [m EXCEPT !.pc = "release", !.target = N8n(m.run)]
                      ELSE [m EXCEPT !.pc = "lookup"])
    /\ UNCHANGED <<storeVars, acked>> /\ OfCallback

\* n8n gives up: the callback is never handled.
callback_lost(m) ==
    /\ "lost_callback" \in Env
    /\ m.pc = "write"
    /\ callbacks' = callbacks \ {m}
    /\ UNCHANGED <<storeVars, task_status, acked>> /\ OfCallback

\* Whether the task still has this run is not looked at.
callback_pause(m) ==
    /\ m.pc = "pause"
    /\ upsert_paused_run(Tk(m.run), N8n(m.run), m.workflow)
    /\ Ends(m)
    /\ UNCHANGED <<task_status, acked>> /\ OfCallback

\* Without a run id the callback is taken to be about the active run.
callback_lookup(m) ==
    /\ m.pc = "lookup"
    /\ LET active == get_active_run(Tk(m.run)) IN
       IF active = None THEN Ends(m)
       ELSE Moves(m, [m EXCEPT !.pc = "release", !.target = active.run_id])
    /\ UNCHANGED <<storeVars, task_status, acked>> /\ OfCallback

\* Mutant: a run that is paused keeps its lock.
callback_release_NotPaused(m) ==
    /\ m.pc = "release"
    /\ IF PausedAs(Tk(m.run), m.target) THEN UNCHANGED storeVars
       ELSE release_active_run(Tk(m.run), m.target, "released")
    /\ Moves(m, [m EXCEPT !.pc = "clear"])
    /\ UNCHANGED <<task_status, acked>> /\ OfCallback

callback_release(m) ==
    /\ m.pc = "release"
    /\ release_active_run(Tk(m.run), m.target, "released")
    /\ Moves(m, [m EXCEPT !.pc = "clear"])
    /\ UNCHANGED <<task_status, acked>> /\ OfCallback

callback_clear(m) ==
    /\ m.pc = "clear"
    /\ clear_paused_run(Tk(m.run), m.target)
    /\ acked' = IF m.named THEN acked \cup {m.run} ELSE acked
    /\ Ends(m)
    /\ UNCHANGED task_status /\ OfCallback

-----------------------------------------------------------------------------
(* Crash: requests and callback handlers vanish, the tables stay, n8n keeps
   running and sends unanswered callbacks again; the service boots anew. *)
Gone == {"idle", "done", "dead"}

crash ==
    /\ "crash" \in Env
    /\ crashes < MaxCrashes
    /\ crashes' = crashes + 1
    /\ req' = [r \in Request |->
         IF req[r].pc \in Gone THEN req[r]
         ELSE [IdleRequest EXCEPT !.pc = "dead", !.event = Ev(r)]]
    /\ callbacks' = {[m EXCEPT !.pc = "write", !.target = None] : m \in callbacks}
    /\ recon' = [p \in Reconciler |-> IF p = Boot THEN StartPass ELSE NoPass]
    /\ UNCHANGED <<storeVars, task_status, clock, n8n, history>>

-----------------------------------------------------------------------------
RequestStep(r) ==
    \/ read_active_run(r) \/ read_paused_and_branch(r) \/ leave_checkpoint(r)
    \/ outcome_only(r) \/ acquire_lock(r) \/ mark(r) \/ outcome_row(r)
    \/ outcome_gate(r)
    \/ post_dispatch(r) \/ dispatch_named(r) \/ dispatch_anonymous(r)
    \/ dispatch_failed(r) \/ outcome_dispatch(r)
    \/ qa_invalid(r) \/ qa_result(r) \/ settle(r)
    \/ resume_record(r) \/ post_resume(r) \/ resume_failed(r) \/ resumed(r)
    \/ resume_clear(r)
    \/ cancel_record(r) \/ cancel_signal(r) \/ cancel_release(r) \/ cancel_clear(r)

CallbackStep(m) ==
    /\ Serving
    /\ \/ callback_write(m) \/ callback_pause(m) \/ callback_lookup(m)
       \/ callback_release(m) \/ callback_clear(m)

N8nStep(x) == run_finishes(x) \/ run_returns(x) \/ run_asks(x) \/ run_times_out(x)

\* A step of the reconciliation service, seen from the whole system.
PassStep(p) ==
    /\ ReconcileStep(p)
    /\ UNCHANGED <<req, clock, envVars, crashes, history>>

OperatorStep(t) ==
    /\ OperatorMovesCard(t)
    /\ UNCHANGED <<req, clock, envVars, crashes, history>>

Next ==
    \/ \E e \in Event : receive(e)
    \/ \E r \in Request : RequestStep(r)
    \/ \E p \in Reconciler : PassStep(p)
    \/ \E x \in Run : N8nStep(x)
    \/ \E m \in callbacks : CallbackStep(m) \/ callback_lost(m)
    \/ \E t \in Task : OperatorStep(t)
    \/ crash

Spec == Init /\ [][Next]_vars

\* Fairness.  asyncio runs every request that is not waiting, and what it
\* waits for is bounded by a timeout (request_timeout_seconds, the SQLite busy
\* timeout), so each request and each reconciliation pass goes on.  n8n ends
\* what it runs, ends a pause with timed_out (it owns the timeout), and sends
\* a callback until it is answered.  Nothing makes operators or ClickUp act.
Fairness ==
    /\ \A r \in Request : WF_vars(RequestStep(r))
    /\ \A p \in Reconciler : WF_vars(PassStep(p))
    /\ \A x \in Run :
         /\ WF_vars(run_finishes(x) \/ run_returns(x))
         /\ WF_vars(run_times_out(x))
         /\ WF_vars(\E m \in callbacks : m.run = x /\ CallbackStep(m))

FairSpec == Spec /\ Fairness

-----------------------------------------------------------------------------
(* Properties *)

PC == Gone \cup
    {"get_active", "get_paused", "checkpoint", "lock", "outcome_only", "mark",
     "outcome_row", "outcome_gate", "post", "sent", "outcome_dispatch", "qa",
     "settle", "resume_record", "resume_post", "resume_sent", "resume_clear",
     "cancel_record", "cancel_post", "cancel_release", "cancel_clear"}

RequestState ==
    [pc : PC, event : Event \cup {None}, at : Nat, active : ActiveRow \cup {None},
     paused : PausedRow \cup {None}, run : RunId \cup {None},
     decision : Decision \cup {None}]

Callback ==
    [run : Run, status : {"final", "waiting_input", "timed_out"}, named : BOOLEAN,
     workflow : Workflow, pc : {"write", "pause", "lookup", "release", "clear"},
     target : RunId \cup {None}]

\* Every variable has its type.
TypeOK ==
    /\ StoreTypeOK
    /\ ReconTypeOK
    /\ req \in [Request -> RequestState]
    /\ clock \in Nat
    /\ n8n \in [Run -> {"none", "running", "waiting", "finished"}]
    /\ callbacks \subseteq Callback
    /\ crashes \in Nat
    /\ posted \subseteq Request
    /\ acked \subseteq Run

\* A webhook event is sent to n8n at most once, as a dispatch or as a resume,
\* however often ClickUp delivers it and wherever the service crashes: the
\* event row is committed before the POST on every path of process_event.
DispatchedOnce ==
    \A r1, r2 \in posted : Ev(r1) = Ev(r2) => r1 = r2

\* Nobody works on event e any more.
Unattended(e) == \A r \in Request : Ev(r) = e => req[r].pc \in Gone

\* A lock still under its provisional id when nobody works on its event any
\* more stands for an execution n8n started without naming it, or was left by
\* a crash, or is one of two known leaks of process_event (no route for the
\* workflow type; schema mismatch while the QA gate's refusal is written).
\* Every other way out of process_event gives the lock back.
LeaksAreKnown ==
    \A t \in Task, e \in Event :
        RunningAs(t, Pending(e)) /\ Unattended(e) =>
            \/ processed_events[e].decision \in {"reject_missing_metadata", "schema_mismatch"}
            \/ /\ processed_events[e].decision = "dispatch"
               /\ \E r \in Request : Ev(r) = e /\ (r \in posted \/ At(r, "dead"))

\* A recorded decision is settled: only pending and dispatch give way to
\* another decision, nothing becomes pending again, and a settled decision
\* changes to schema_mismatch only.
DecisionSettled ==
    [][\A e \in Event :
         Recorded(e) /\ processed_events'[e] # processed_events[e] =>
            LET old == processed_events[e].decision
                new == processed_events'[e].decision
            IN /\ processed_events'[e].at = processed_events[e].at
               /\ new \notin {"pending", "dispatch"}
               /\ old \in {"pending", "dispatch"} \/ new = "schema_mismatch"]_processed_events

\* An event older than one already recorded for its task is recorded as
\* stale_event and nothing else, on whichever path it is recorded.
StaleEventsIgnored ==
    [][\A e \in Event :
         ~Recorded(e) /\ processed_events'[e] # None
            /\ IsStale(e, processed_events'[e].at) =>
                processed_events'[e].decision = "stale_event"]_processed_events

\* A task has at most one execution alive in n8n: the lock is taken before
\* the POST and given back only when the execution has ended.
OneLiveRun ==
    \A x, y \in Run :
        n8n[x] \in Live /\ n8n[y] \in Live /\ Tk(x) = Tk(y) => x = y

\* When the terminal callback of a run is answered, the run has neither the
\* lock nor a paused row, and never gets one back.
CompletionReleases ==
    \A x \in acked :
        /\ ~RunningAs(Tk(x), N8n(x))
        /\ ~PausedAs(Tk(x), N8n(x))

\* A manual cancellation that is about to be recorded as cancelled_by_operator.
Cancelled(r) == At(r, "mark") /\ req[r].decision = "cancelled_by_operator"

\* The lock that the cancellation read is still held, under whichever id.
StillHeld(r) ==
    /\ Running(Tk(r))
    /\ active_task_runs[Tk(r)].event_id = req[r].active.event_id

\* A cancellation has taken the lock from the run it saw.
CancelReleases == \A r \in Request : Cancelled(r) => ~StillHeld(r)

\* Where a cancellation leaves the run it saw its lock, the response to a POST gave the
\* run a new id between its read and its release; in no other way does it miss.
CancelMissesRenamed ==
    \A r \in Request :
        Cancelled(r) /\ StillHeld(r) =>
            \E x \in posted :
                /\ active_task_runs[Tk(r)].run_id = N8n(x)
                /\ req[r].active.run_id # N8n(x)

\* The decision a request answered with is the one on record for its event
\* (the rollback of persist_terminal_decision loses none).
RepliesAreOnRecord ==
    \A r \in Request :
        At(r, "done") /\ Recorded(Ev(r))
            /\ req[r].decision \notin {"skip_duplicate", "reject_scope",
                 "action_scope_violation", "reject_missing_metadata"} =>
                processed_events[Ev(r)].decision = req[r].decision

\* A lock goes stale only in a release of the reconciliation service that
\* listed and probed exactly the run that has the lock; a lock another
\* request took in between is left alone.
StaleIsWhatWasProbed ==
    [][\A t \in Task :
         Running(t) /\ active_task_runs'[t].state = "stale" =>
            \E p \in Reconciler :
                /\ recon[p].step = "free"
                /\ recon[p].item = <<t, active_task_runs[t].run_id>>]_active_task_runs

\* Every request that was received is answered (or dies in a crash).
RequestsAnswered ==
    \A r \in Request : req[r].pc # "idle" ~> req[r].pc \in {"done", "dead"}

\* Every run lock is given back in the end.
LocksFreed == \A t \in Task : Running(t) ~> ~Running(t)
=============================================================================
