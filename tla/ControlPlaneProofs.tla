------------------------- MODULE ControlPlaneProofs -------------------------
(***************************************************************************)
(* Proofs about the control plane for every set of tasks, webhook bodies   *)
(* and requests, every number of crashes and every misbehaviour of Env.    *)
(***************************************************************************)
EXTENDS ControlPlane, TLAPS

(***************************************************************************)
(* The state store, for any client that calls its methods in any order.    *)
(***************************************************************************)
StoreInv == StoreTypeOK /\ LockTracesToEvent

\* A method keeps the tables well typed and every lock row traceable to a
\* recorded event of its task.
LEMMA StoreStepInv == StoreInv /\ [StoreNext]_storeVars => StoreInv'
<1> SUFFICES ASSUME StoreInv, [StoreNext]_storeVars
             PROVE  StoreInv'
  OBVIOUS
<1> USE TaskOfType, NoneIsNoValue DEF StoreInv, StoreTypeOK, LockTracesToEvent, Recorded
<1>1. ASSUME NEW e \in Event, NEW run \in RunId, NEW at \in Nat,
             record_event_and_acquire_lock(e, run, at)
      PROVE  StoreInv'
  <2>1. LockDecision(e, at) \in Decision
    BY DEF LockDecision, Decision
  <2> DEFINE d == LockDecision(e, at)
  <2>2. d = "skip_duplicate" <=> Recorded(e)
    BY DEF LockDecision
  <2>3. [decision |-> d, at |-> at] \in ProcessedRow
    BY <2>1 DEF ProcessedRow
  <2>4. [run_id |-> run, event_id |-> e, state |-> "running"] \in ActiveRow
    BY DEF ActiveRow
  <2>5. \A f \in Event : Recorded(f) => processed_events'[f] # None
    BY <1>1, <2>1, <2>3 DEF record_event_and_acquire_lock
  <2> HIDE DEF d
  <2>6. StoreTypeOK'
    BY <1>1, <2>3, <2>4 DEF record_event_and_acquire_lock, d
  <2>7. CASE d = "dispatch"
    <3>1. processed_events'[e] # None
      BY <1>1, <2>3, <2>7 DEF record_event_and_acquire_lock, d
    <3>2. active_task_runs' = [active_task_runs EXCEPT ![TaskOf[e]] =
                 [run_id |-> run, event_id |-> e, state |-> "running"]]
      BY <1>1, <2>7 DEF record_event_and_acquire_lock, d
    <3> QED BY <2>5, <2>6, <3>1, <3>2 DEF ActiveRow
  <2>8. CASE d # "dispatch"
    <3>1. active_task_runs' = active_task_runs
      BY <1>1, <2>8 DEF record_event_and_acquire_lock, d
    <3> QED BY <2>5, <2>6, <3>1 DEF ActiveRow
  <2> QED BY <2>7, <2>8
<1>2. ASSUME NEW e \in Event, NEW d \in Decision, NEW at \in Nat,
             record_processed_event(e, d, at)
      PROVE  StoreInv'
  <2>1. [decision |-> d, at |-> at] \in ProcessedRow
    BY DEF ProcessedRow
  <2> QED BY <1>2, <2>1 DEF record_processed_event, ActiveRow
<1>3. ASSUME NEW e \in Event, NEW d \in Decision,
             update_processed_event_decision(e, d)
      PROVE  StoreInv'
  BY <1>3 DEF update_processed_event_decision, ProcessedRow, ActiveRow
<1>4. ASSUME NEW e \in Event, NEW d \in Decision, NEW run \in RunId,
             persist_terminal_decision(TaskOf[e], e, d, run)
      PROVE  StoreInv'
  BY <1>4 DEF persist_terminal_decision, storeVars, RunningAs, Running,
              ProcessedRow, ActiveRow
<1>5. ASSUME NEW t \in Task, NEW run \in RunId, NEW new \in RunId,
             set_active_run_id(t, run, new)
      PROVE  StoreInv'
  BY <1>5 DEF set_active_run_id, RunningAs, Running, ActiveRow
<1>6. ASSUME NEW t \in Task, NEW run \in RunId, NEW final \in {"released", "stale"},
             release_active_run(t, run, final)
      PROVE  StoreInv'
  BY <1>6 DEF release_active_run, RunningAs, Running, ActiveRow
<1>7. ASSUME NEW t \in Task, NEW run \in NamedRun, NEW w \in Workflow,
             upsert_paused_run(t, run, w)
      PROVE  StoreInv'
  BY <1>7 DEF upsert_paused_run, PausedRow, ActiveRow
<1>8. ASSUME NEW t \in Task, NEW run \in RunId, clear_paused_run(t, run)
      PROVE  StoreInv'
  BY <1>8 DEF clear_paused_run, PausedAs, ActiveRow
<1>9. CASE UNCHANGED storeVars
  BY <1>9 DEF storeVars
<1> QED BY <1>1, <1>2, <1>3, <1>4, <1>5, <1>6, <1>7, <1>8, <1>9 DEF StoreNext

LEMMA StoreInitInv == StoreInit => StoreInv
  BY DEF StoreInit, StoreInv, StoreTypeOK, LockTracesToEvent

\* The tables have their types in every state any client can bring about.
THEOREM StoreTypeCorrect == StoreSpec => []StoreTypeOK
  BY StoreInitInv, StoreStepInv, PTL DEF StoreSpec, StoreInv

\* Every lock row was taken by a recorded event of its task.
THEOREM LocksTraceToEvents == StoreSpec => []LockTracesToEvent
  BY StoreInitInv, StoreStepInv, PTL DEF StoreSpec, StoreInv

-----------------------------------------------------------------------------
(* The refinement mapping *)

Holder == [t \in Task |-> IF Running(t) THEN active_task_runs[t].event_id ELSE None]
Spent == {e \in Event : Recorded(e)}

\* When no row of the lock table changes its run state or its event, the
\* abstract holder does not change.
LEMMA SameLocksSameHolder ==
    ASSUME active_task_runs' = active_task_runs
    PROVE  Holder' = Holder
  BY DEF Holder, Running

\* The abstract set of spent events follows the recorded ones.
LEMMA SameEventsSameSpent ==
    ASSUME \A e \in Event : Recorded(e)' <=> Recorded(e)
    PROVE  Spent' = Spent
  BY DEF Spent

\* Ending the run of a task releases its abstract lock.
LEMMA EndingIsRelease ==
    ASSUME StoreInv, NEW t \in Task, NEW final \in {"released", "stale"},
           Running(t),
           active_task_runs' = [active_task_runs EXCEPT ![t].state = final]
    PROVE  /\ Holder[t] # None
           /\ Holder' = [Holder EXCEPT ![t] = None]
<1> USE NoneIsNoValue DEF StoreInv, StoreTypeOK, Running, ActiveRow
<1>1. active_task_runs[t].event_id \in Event
  OBVIOUS
<1>2. Holder[t] # None
  BY <1>1 DEF Holder
<1>3. ~Running(t)'
  OBVIOUS
<1>4. \A u \in Task \ {t} : active_task_runs'[u] = active_task_runs[u]
  OBVIOUS
<1>5. Holder' = [Holder EXCEPT ![t] = None]
  BY <1>3, <1>4 DEF Holder
<1> QED BY <1>2, <1>5

\* A new run id leaves the abstract holder alone.
LEMMA RenamingKeepsHolder ==
    ASSUME StoreInv, NEW t \in Task, NEW run \in RunId,
           Running(t),
           active_task_runs' = [active_task_runs EXCEPT ![t].run_id = run]
    PROVE  Holder' = Holder
<1> USE NoneIsNoValue DEF StoreInv, StoreTypeOK, ActiveRow
<1>1. Running(t)' /\ active_task_runs'[t].event_id = active_task_runs[t].event_id
  BY DEF Running
<1>2. \A u \in Task \ {t} : active_task_runs'[u] = active_task_runs[u]
  OBVIOUS
<1> QED BY <1>1, <1>2 DEF Holder, Running

\* Changing the decision of a recorded event records nothing new.
LEMMA DecidingKeepsSpent ==
    ASSUME StoreInv, NEW e \in Event, NEW d \in Decision,
           processed_events' = IF Recorded(e) THEN [processed_events EXCEPT ![e].decision = d]
                               ELSE processed_events
    PROVE  Spent' = Spent
<1>1. \A f \in Event : Recorded(f)' <=> Recorded(f)
  BY NoneIsNoValue DEF Recorded, StoreInv, StoreTypeOK, ProcessedRow
<1> QED BY <1>1, SameEventsSameSpent

\* Inserting the row of a new event spends it.
LEMMA InsertingSpends ==
    ASSUME StoreInv, NEW e \in Event, ~Recorded(e), NEW row \in ProcessedRow,
           processed_events' = [processed_events EXCEPT ![e] = row]
    PROVE  e \notin Spent /\ Spent' = Spent \cup {e}
  BY NoneIsNoValue DEF Spent, Recorded, StoreInv, StoreTypeOK

\* Every method is a step of the abstract lock, or leaves it alone.
LEMMA StoreStepRefines ==
    StoreInv /\ [StoreNext]_storeVars => [Lock!Next]_<<Holder, Spent>>
<1> SUFFICES ASSUME StoreInv, [StoreNext]_storeVars
             PROVE  [Lock!Next]_<<Holder, Spent>>
  OBVIOUS
<1> USE TaskOfType DEF Lock!Next
<1>1. ASSUME NEW e \in Event, NEW run \in RunId, NEW at \in Nat,
             record_event_and_acquire_lock(e, run, at)
      PROVE  [Lock!Next]_<<Holder, Spent>>
  <2> DEFINE d == LockDecision(e, at)
  <2>1. [decision |-> d, at |-> at] \in ProcessedRow
    BY DEF LockDecision, Decision, ProcessedRow
  <2>2. CASE d = "skip_duplicate"
    <3>1. UNCHANGED <<processed_events, active_task_runs>>
      BY <1>1, <2>2 DEF record_event_and_acquire_lock
    <3> QED BY <3>1, SameLocksSameHolder DEF Spent, Recorded
  <2>3. CASE d # "skip_duplicate"
    <3>1. /\ ~Recorded(e)
          /\ processed_events' = [processed_events EXCEPT ![e] = [decision |-> d, at |-> at]]
      BY <1>1, <2>3 DEF record_event_and_acquire_lock, LockDecision
    <3>2. e \notin Spent /\ Spent' = Spent \cup {e}
      BY <2>1, <3>1, InsertingSpends
    <3>3. CASE d # "dispatch"
      <4>1. Holder' = Holder
        BY <1>1, <3>3, SameLocksSameHolder DEF record_event_and_acquire_lock
      <4>2. Lock!Spend(e)
        BY <3>2, <4>1 DEF Lock!Spend, Holder, Spent
      <4> QED BY <4>2
    <3>4. CASE d = "dispatch"
      <4>1. ~Running(TaskOf[e])
        BY <3>4 DEF LockDecision
      <4>2. active_task_runs' = [active_task_runs EXCEPT ![TaskOf[e]] =
                 [run_id |-> run, event_id |-> e, state |-> "running"]]
        BY <1>1, <3>4 DEF record_event_and_acquire_lock
      <4>3. active_task_runs'[TaskOf[e]] = [run_id |-> run, event_id |-> e, state |-> "running"]
        BY <4>2 DEF StoreInv, StoreTypeOK
      <4>4. \A u \in Task \ {TaskOf[e]} : active_task_runs'[u] = active_task_runs[u]
        BY <4>2 DEF StoreInv, StoreTypeOK
      <4>5. active_task_runs'[TaskOf[e]] # None
        BY <4>3, NoneIsNoValue DEF ActiveRow
      <4>6. Running(TaskOf[e])' /\ active_task_runs'[TaskOf[e]].event_id = e
        BY <4>3, <4>5 DEF Running
      <4>7. Holder' = [Holder EXCEPT ![TaskOf[e]] = e]
        BY <4>4, <4>6 DEF Holder, Running
      <4>8. Holder[TaskOf[e]] = None
        BY <4>1 DEF Holder
      <4>9. Lock!Acquire(e)
        BY <3>2, <4>7, <4>8 DEF Lock!Acquire, Holder, Spent
      <4> QED BY <4>9
    <3> QED BY <3>3, <3>4
  <2> QED BY <2>2, <2>3
<1>2. ASSUME NEW e \in Event, NEW d \in Decision, NEW at \in Nat,
             record_processed_event(e, d, at)
      PROVE  [Lock!Next]_<<Holder, Spent>>
  <2>1. Holder' = Holder
    BY <1>2, SameLocksSameHolder DEF record_processed_event
  <2>2. CASE Recorded(e)
    BY <1>2, <2>1, <2>2 DEF record_processed_event, Spent, Recorded
  <2>3. CASE ~Recorded(e)
    <3>1. [decision |-> d, at |-> at] \in ProcessedRow
      BY DEF ProcessedRow
    <3>2. e \notin Spent /\ Spent' = Spent \cup {e}
      BY <1>2, <2>3, <3>1, InsertingSpends DEF record_processed_event
    <3>3. Lock!Spend(e)
      BY <2>1, <3>2 DEF Lock!Spend, Holder, Spent
    <3> QED BY <3>3
  <2> QED BY <2>2, <2>3
<1>3. ASSUME NEW e \in Event, NEW d \in Decision,
             update_processed_event_decision(e, d)
      PROVE  [Lock!Next]_<<Holder, Spent>>
  BY <1>3, SameLocksSameHolder, DecidingKeepsSpent DEF update_processed_event_decision
<1>4. ASSUME NEW e \in Event, NEW d \in Decision, NEW run \in RunId,
             persist_terminal_decision(TaskOf[e], e, d, run)
      PROVE  [Lock!Next]_<<Holder, Spent>>
  <2>1. CASE RunningAs(TaskOf[e], run)
    <3>1. Spent' = Spent
      BY <1>4, <2>1, DecidingKeepsSpent DEF persist_terminal_decision
    <3>2. Holder[TaskOf[e]] # None /\ Holder' = [Holder EXCEPT ![TaskOf[e]] = None]
      BY <1>4, <2>1, EndingIsRelease DEF persist_terminal_decision, RunningAs
    <3>3. Lock!Release(TaskOf[e])
      BY <3>1, <3>2 DEF Lock!Release, Holder, Spent
    <3> QED BY <3>3
  <2>2. CASE ~RunningAs(TaskOf[e], run)
    BY <1>4, <2>2, SameLocksSameHolder
       DEF persist_terminal_decision, storeVars, Spent, Recorded
  <2> QED BY <2>1, <2>2
<1>5. ASSUME NEW t \in Task, NEW run \in RunId, NEW new \in RunId,
             set_active_run_id(t, run, new)
      PROVE  [Lock!Next]_<<Holder, Spent>>
  <2>1. Spent' = Spent
    BY <1>5 DEF set_active_run_id, Spent, Recorded
  <2>2. Holder' = Holder
    BY <1>5, RenamingKeepsHolder, SameLocksSameHolder DEF set_active_run_id, RunningAs
  <2> QED BY <2>1, <2>2
<1>6. ASSUME NEW t \in Task, NEW run \in RunId, NEW final \in {"released", "stale"},
             release_active_run(t, run, final)
      PROVE  [Lock!Next]_<<Holder, Spent>>
  <2>1. Spent' = Spent
    BY <1>6 DEF release_active_run, Spent, Recorded
  <2>2. CASE RunningAs(t, run)
    <3>1. Holder[t] # None /\ Holder' = [Holder EXCEPT ![t] = None]
      BY <1>6, <2>2, EndingIsRelease DEF release_active_run, RunningAs
    <3>2. Lock!Release(t)
      BY <2>1, <3>1 DEF Lock!Release, Holder, Spent
    <3> QED BY <3>2
  <2>3. CASE ~RunningAs(t, run)
    BY <1>6, <2>1, <2>3, SameLocksSameHolder DEF release_active_run
  <2> QED BY <2>2, <2>3
<1>7. ASSUME NEW t \in Task, NEW run \in NamedRun, NEW w \in Workflow,
             upsert_paused_run(t, run, w)
      PROVE  [Lock!Next]_<<Holder, Spent>>
  BY <1>7, SameLocksSameHolder DEF upsert_paused_run, Spent, Recorded
<1>8. ASSUME NEW t \in Task, NEW run \in RunId, clear_paused_run(t, run)
      PROVE  [Lock!Next]_<<Holder, Spent>>
  BY <1>8, SameLocksSameHolder DEF clear_paused_run, Spent, Recorded
<1>9. CASE UNCHANGED storeVars
  BY <1>9, SameLocksSameHolder DEF storeVars, Spent, Recorded
<1> QED BY <1>1, <1>2, <1>3, <1>4, <1>5, <1>6, <1>7, <1>8, <1>9 DEF StoreNext

LEMMA StoreInitRefines == StoreInit => Lock!Init
  BY TaskOfType DEF StoreInit, Lock!Init, Running, Recorded

\* The tables implement the abstract run lock: a lock is granted only while
\* it is free and only to an event recorded by the same transaction, and no
\* event is spent twice, whichever methods any number of clients call.
THEOREM StoreImplementsRunLock == StoreSpec => RefinesRunLock
<1>1. StoreInv /\ [StoreNext]_storeVars => [Lock!Next]_(Lock!vars)
  BY StoreStepRefines DEF Lock!vars, Holder, Spent
<1> QED BY <1>1, StoreInitInv, StoreStepInv, StoreInitRefines, PTL
        DEF StoreSpec, RefinesRunLock, Lock!Spec
-------------------------------------------------------------------------------
(***************************************************************************)
(* The control plane.                                                      *)
(***************************************************************************)
\* Where a request has the local variables its next step reads.
Deciding == {"outcome_only", "mark", "outcome_row", "outcome_gate", "settle"}
Resuming == {"resume_record", "resume_post", "resume_sent", "resume_clear"}
Cancelling == {"cancel_record", "cancel_post", "cancel_release", "cancel_clear"}
Dispatched == {"outcome_dispatch", "qa", "settle"}

RequestOK(q) ==
    /\ q \in RequestState
    /\ q.pc # "idle" => q.event \in Event
    /\ q.pc \in Deciding => q.decision \in Decision
    /\ q.pc \in Resuming => q.paused \in PausedRow
    /\ q.pc \in Cancelling => q.active \in ActiveRow
    /\ q.pc = "cancel_clear" => q.paused \in PausedRow
    /\ q.pc \in Dispatched => q.run \in RunId

PassOK(p) == p.step = "free" => p.item \in Item

CallbackOK(m) ==
    /\ req[m.run].pc # "idle"
    /\ m.pc \in {"release", "clear"} => m.target \in RunId

\* TypeOK, strengthened: a handler has what its next step uses, and whatever
\* runs in n8n, was posted or calls back belongs to a request that has begun.
Attached ==
    /\ \A r \in Request : RequestOK(req[r])
    /\ \A p \in Reconciler : PassOK(recon[p])
    /\ \A x \in Run : n8n[x] # "none" => req[x].pc # "idle"
    /\ \A m \in callbacks : CallbackOK(m)
    /\ \A r \in posted : req[r].pc # "idle"

Inv == TypeOK /\ LockTracesToEvent /\ Attached

LEMMA InitInv == Init => Inv
<1> SUFFICES ASSUME Init PROVE Inv
  OBVIOUS
<1> USE DEF Init
<1>1. StoreTypeOK
  BY DEF StoreInit, StoreTypeOK
<1>2. ReconTypeOK
  BY DEF ReconInit, ReconTypeOK, NoPass, StartPass, TaskStatus
<1>3. \A r \in Request : RequestOK(req[r])
  BY DEF IdleRequest, RequestOK, RequestState, PC, Gone, Deciding, Resuming,
         Cancelling, Dispatched
<1>4. \A p \in Reconciler : PassOK(recon[p])
  BY DEF ReconInit, PassOK, NoPass, StartPass
<1>5. req \in [Request -> RequestState]
  BY <1>3 DEF RequestOK
<1>6. LockTracesToEvent
  BY DEF StoreInit, LockTracesToEvent
<1> QED BY <1>1, <1>2, <1>3, <1>4, <1>5, <1>6, MaxCrashesType
           DEF Inv, TypeOK, Attached

\* When one request moves on and its new local state has the right shape,
\* the others keep theirs.
LEMMA RequestMoves ==
    ASSUME Inv, NEW r \in Request, NEW q, RequestOK(q), q.pc # "idle",
           req' = [req EXCEPT ![r] = q]
    PROVE  /\ req' \in [Request -> RequestState]
           /\ \A s \in Request : RequestOK(req'[s])
           /\ \A s \in Request : req[s].pc # "idle" => req'[s].pc # "idle"
  BY DEF Inv, TypeOK, Attached, RequestOK

\* The step of one request, with what it may do to the rest of the system.
Moved(r) == \E q : RequestOK(q) /\ q.pc # "idle" /\ req' = [req EXCEPT ![r] = q]

LEMMA OneRequestMoves ==
    ASSUME Inv, NEW r \in Request, Moved(r), [StoreNext]_storeVars,
           ReconTypeOK', \A p \in Reconciler : PassOK(recon'[p]),
           n8n' \in [Run -> {"none", "running", "waiting", "finished"}],
           \A x \in Run : n8n'[x] # "none" => n8n[x] # "none" \/ x = r,
           \A m \in callbacks' \ callbacks :
               m \in Callback /\ n8n[m.run] # "none" /\ m.pc = "write",
           posted' \subseteq posted \cup {r},
           clock' \in Nat, UNCHANGED <<crashes, acked>>
    PROVE  Inv'
<1>1. PICK q : RequestOK(q) /\ q.pc # "idle" /\ req' = [req EXCEPT ![r] = q]
  BY DEF Moved
<1>2. /\ req' \in [Request -> RequestState]
      /\ \A s \in Request : RequestOK(req'[s])
      /\ \A s \in Request : req[s].pc # "idle" => req'[s].pc # "idle"
  BY <1>1, RequestMoves
<1>3. req'[r].pc # "idle"
  BY <1>1 DEF Inv, TypeOK
<1>4. StoreTypeOK' /\ LockTracesToEvent'
  BY StoreStepInv DEF Inv, TypeOK, StoreInv
<1>5. TypeOK'
  BY <1>2, <1>4 DEF Inv, TypeOK
<1>6. /\ \A x \in Run : n8n'[x] # "none" => req'[x].pc # "idle"
      /\ \A s \in posted' : req'[s].pc # "idle"
  BY <1>2, <1>3 DEF Inv, TypeOK, Attached, Request
<1>7. \A m \in callbacks' : CallbackOK(m)'
  <2> TAKE m \in callbacks'
  <2>1. CASE m \in callbacks
    BY <1>2, <2>1 DEF Inv, TypeOK, Attached, Request, CallbackOK, Callback
  <2>2. CASE m \notin callbacks
    BY <1>2, <2>2 DEF Inv, TypeOK, Attached, Request, CallbackOK, Callback
  <2> QED BY <2>1, <2>2
<1> QED BY <1>2, <1>4, <1>5, <1>6, <1>7 DEF Inv, Attached

LEMMA QuietStep ==
    ASSUME Inv, NEW r \in Request, Moved(r), [StoreNext]_storeVars, Quiet
    PROVE  Inv'
<1>1. /\ UNCHANGED <<recon, task_status, n8n, callbacks, posted, clock, crashes, acked>>
  BY DEF Quiet, QuietButPost, reconVars
<1>2. ReconTypeOK' /\ \A p \in Reconciler : PassOK(recon'[p])
  BY <1>1 DEF Inv, TypeOK, ReconTypeOK, Attached
<1> QED BY <1>1, <1>2, OneRequestMoves DEF Inv, TypeOK

LEMMA RequestFacts ==
    ASSUME Inv, NEW r \in Request, req[r].pc # "idle"
    PROVE  /\ Ev(r) \in Event /\ Tk(r) \in Task /\ Body(r) \in Payload
           /\ req[r].at \in Nat /\ Pending(Ev(r)) \in RunId /\ TaskOf[Ev(r)] = Tk(r)
  BY TaskOfType, PayloadType
     DEF Inv, TypeOK, Attached, RequestOK, RequestState, Ev, Tk, Body, RunId

\* The handler returns a decision.
LEMMA ReplyOK ==
    ASSUME Inv, NEW r \in Request, NEW d \in Decision, req[r].pc # "idle", Reply(r, d)
    PROVE  Moved(r)
<1> DEFINE q == [req[r] EXCEPT !.pc = "done", !.decision = d,
                     !.active = None, !.paused = None, !.run = None]
<1>1. req[r] \in RequestState /\ req[r].event \in Event /\ "done" \in PC
  BY DEF Inv, Attached, RequestOK, PC, Gone
<1>2. q \in RequestState /\ q.pc = "done" /\ q.event = req[r].event
  BY <1>1 DEF RequestState
<1>3. req' = [req EXCEPT ![r] = q]
  BY DEF Reply, Inv, TypeOK
<1> HIDE DEF q
<1>4. RequestOK(q) /\ q.pc # "idle"
  BY <1>1, <1>2 DEF RequestOK, Deciding, Resuming, Cancelling, Dispatched
<1> QED BY <1>3, <1>4 DEF Moved

\* The handler goes on to a step that wants no more than it has.
LEMMA GotoOK ==
    ASSUME Inv, NEW r \in Request, NEW pc \in PC \ {"idle"}, req[r].pc # "idle",
           Goto(r, pc),
           pc \in Deciding => req[r].decision \in Decision,
           pc \in Resuming => req[r].paused \in PausedRow,
           pc \in Cancelling => req[r].active \in ActiveRow,
           pc = "cancel_clear" => req[r].paused \in PausedRow,
           pc \in Dispatched => req[r].run \in RunId
    PROVE  Moved(r)
<1> DEFINE q == [req[r] EXCEPT !.pc = pc]
<1>1. RequestOK(q) /\ q.pc # "idle"
  BY DEF Inv, Attached, RequestOK, RequestState
<1>2. req' = [req EXCEPT ![r] = q]
  BY DEF Goto, Inv, TypeOK
<1> QED BY <1>1, <1>2 DEF Moved

LEMMA DecideOK ==
    ASSUME Inv, NEW r \in Request, NEW pc \in PC \ {"idle"}, req[r].pc # "idle",
           NEW d \in Decision \cup {None}, Decide(r, pc, d),
           pc \in Deciding => d \in Decision,
           pc \in Resuming => req[r].paused \in PausedRow,
           pc \in Cancelling => req[r].active \in ActiveRow,
           pc = "cancel_clear" => req[r].paused \in PausedRow,
           pc \in Dispatched => req[r].run \in RunId
    PROVE  Moved(r)
<1> DEFINE q == [req[r] EXCEPT !.pc = pc, !.decision = d]
<1>1. RequestOK(q) /\ q.pc # "idle"
  BY DEF Inv, Attached, RequestOK, RequestState
<1>2. req' = [req EXCEPT ![r] = q]
  BY DEF Decide, Inv, TypeOK
<1> QED BY <1>1, <1>2 DEF Moved

-----------------------------------------------------------------------------
(* Every step of the control plane is at most one call of a store method *)

LEMMA MethodsAreStoreSteps ==
    /\ \A e \in Event :
         /\ \A run \in RunId, at \in Nat :
               record_event_and_acquire_lock(e, run, at) => StoreNext
         /\ \A d \in Decision, at \in Nat : record_processed_event(e, d, at) => StoreNext
         /\ \A d \in Decision : update_processed_event_decision(e, d) => StoreNext
         /\ \A d \in Decision, run \in RunId :
               persist_terminal_decision(TaskOf[e], e, d, run) => StoreNext
    /\ \A t \in Task, run \in RunId :
         /\ \A new \in RunId : set_active_run_id(t, run, new) => StoreNext
         /\ release_active_run(t, run, "released") => StoreNext
         /\ release_active_run(t, run, "stale") => StoreNext
         /\ clear_paused_run(t, run) => StoreNext
    /\ \A t \in Task, run \in NamedRun, w \in Workflow :
         upsert_paused_run(t, run, w) => StoreNext
<1>1. NamedRun \subseteq RunId
  BY DEF RunId
<1> QED BY <1>1 DEF StoreNext

LEMMA StepperHasBegun ==
    ASSUME NEW r \in Request, RequestStep(r)
    PROVE  req[r].pc # "idle"
  BY DEF RequestStep, At, read_active_run, read_paused_and_branch, leave_checkpoint,
         outcome_only, acquire_lock, mark, outcome_row, outcome_gate, post_dispatch,
         dispatch_named, dispatch_anonymous, Answered, dispatch_failed, outcome_dispatch,
         qa_invalid, qa_result, settle, resume_record, post_resume, resume_failed,
         resumed, resume_clear, cancel_record, cancel_signal, cancel_release, cancel_clear

LEMMA RequestStoreStep ==
    ASSUME Inv, NEW r \in Request, RequestStep(r)
    PROVE  [StoreNext]_storeVars
<1>0. req \in [Request -> RequestState] /\ RequestOK(req[r])
  BY DEF Inv, TypeOK, Attached
<1>1. req[r].pc # "idle"
  BY StepperHasBegun
<1>2. /\ Ev(r) \in Event /\ Tk(r) \in Task /\ TaskOf[Ev(r)] = Tk(r)
      /\ req[r].at \in Nat /\ Pending(Ev(r)) \in RunId
  BY <1>1, RequestFacts
<1>3. "schema_mismatch" \in Decision /\ "dispatch_failed" \in Decision /\ "pending" \in Decision
  BY DEF Decision
<1> USE MethodsAreStoreSteps
<1>5. CASE read_active_run(r) \/ read_paused_and_branch(r) \/ leave_checkpoint(r)
           \/ outcome_only(r) \/ post_dispatch(r) \/ dispatch_anonymous(r)
           \/ qa_result(r) \/ post_resume(r) \/ cancel_signal(r)
  BY <1>5 DEF storeVars, read_active_run, read_paused_and_branch, leave_checkpoint,
     outcome_only, post_dispatch, dispatch_anonymous, qa_result, post_resume, cancel_signal
<1>6. CASE acquire_lock(r)
  BY <1>2, <1>6 DEF acquire_lock
<1>7. CASE mark(r) \/ outcome_row(r) \/ outcome_gate(r) \/ settle(r)
  <2>1. req[r].decision \in Decision
    BY <1>0, <1>7 DEF RequestOK, RequestState, mark, outcome_row, outcome_gate, settle,
                      At, Deciding
  <2>2. settle(r) => req[r].run \in RunId
    BY <1>0 DEF RequestOK, RequestState, settle, At, Dispatched
  <2> QED BY <1>2, <1>3, <1>7, <2>1, <2>2 DEF mark, outcome_row, outcome_gate, settle
<1>8. CASE dispatch_named(r) \/ dispatch_failed(r) \/ outcome_dispatch(r) \/ qa_invalid(r)
  <2>1. ~dispatch_failed(r) => req[r].run \in RunId
    BY <1>0, <1>8 DEF RequestOK, RequestState, dispatch_named, Answered, outcome_dispatch,
                      qa_invalid, At, Dispatched
  <2> QED BY <1>2, <1>3, <1>8, <2>1
          DEF dispatch_named, dispatch_failed, outcome_dispatch, qa_invalid
<1>9. CASE resume_record(r) \/ cancel_record(r)
  BY <1>2, <1>3, <1>9 DEF resume_record, cancel_record, record_operator_event
<1>10. CASE resume_failed(r) \/ resumed(r) \/ resume_clear(r)
  <2>1. req[r].paused.run_id \in RunId
    BY <1>0, <1>10 DEF RequestOK, RequestState, Resuming, resume_failed, resumed,
                       resume_clear, At, PausedRow, RunId
  <2>2. resumed(r) => req[r].run \in RunId
    BY <1>0 DEF RequestOK, RequestState, resumed
  <2> QED BY <1>2, <1>3, <1>10, <2>1, <2>2 DEF resume_failed, resumed, resume_clear
<1>11. CASE cancel_release(r) \/ cancel_clear(r)
  <2>1. req[r].active.run_id \in RunId
    BY <1>0, <1>11 DEF RequestOK, RequestState, Cancelling, cancel_release,
                       cancel_clear, At, ActiveRow
  <2>2. cancel_clear(r) => req[r].paused.run_id \in RunId
    BY <1>0 DEF RequestOK, RequestState, cancel_clear, At, PausedRow, RunId
  <2> QED BY <1>2, <1>11, <2>1, <2>2 DEF cancel_release, cancel_clear
<1> QED BY <1>5, <1>6, <1>7, <1>8, <1>9, <1>10, <1>11 DEF RequestStep

-----------------------------------------------------------------------------
(* Requests keep the invariant *)

\* Steps that change the tables and the request only.
LEMMA QuietRequestSteps ==
    ASSUME Inv, NEW r \in Request, req[r].pc # "idle", [StoreNext]_storeVars,
           \/ read_active_run(r) \/ outcome_only(r) \/ acquire_lock(r) \/ mark(r)
           \/ outcome_row(r) \/ outcome_gate(r) \/ dispatch_named(r)
           \/ dispatch_anonymous(r) \/ dispatch_failed(r) \/ outcome_dispatch(r)
           \/ qa_invalid(r) \/ settle(r) \/ resume_record(r) \/ resume_failed(r)
           \/ resumed(r) \/ resume_clear(r) \/ cancel_record(r) \/ cancel_release(r)
           \/ cancel_clear(r)
    PROVE  Inv'
<1>0. req \in [Request -> RequestState] /\ RequestOK(req[r])
  BY DEF Inv, TypeOK, Attached
<1>1. /\ Ev(r) \in Event /\ Tk(r) \in Task /\ Body(r) \in Payload
      /\ Pending(Ev(r)) \in RunId
  BY RequestFacts
<1> SUFFICES Moved(r)
  BY QuietStep DEF read_active_run, outcome_only, acquire_lock, mark, outcome_row,
     outcome_gate, dispatch_named, dispatch_anonymous, dispatch_failed, outcome_dispatch,
     qa_invalid, settle, resume_record, resume_failed, resumed, resume_clear,
     cancel_record, record_operator_event, cancel_release, cancel_clear
<1> USE DEF At
<1>2. CASE read_active_run(r)
  <2> DEFINE q == [req[r] EXCEPT !.pc = "get_paused", !.active = get_active_run(Tk(r))]
  <2>1. get_active_run(Tk(r)) \in ActiveRow \cup {None}
    BY <1>1 DEF get_active_run, Inv, TypeOK, StoreTypeOK
  <2>2. RequestOK(q) /\ q.pc # "idle"
    BY <1>0, <1>2, <2>1 DEF read_active_run, RequestOK, RequestState, PC, Deciding, Resuming,
       Cancelling, Dispatched
  <2>3. req' = [req EXCEPT ![r] = q]
    BY <1>0, <1>2 DEF read_active_run
  <2> QED BY <2>2, <2>3 DEF Moved
<1>3. CASE outcome_only(r)
  BY <1>0, <1>3, ReplyOK DEF outcome_only, RequestOK, RequestState, Deciding, Decision
<1>4. CASE acquire_lock(r)
  <2>1. LockDecision(Ev(r), req[r].at) \in
          {"skip_duplicate", "stale_event", "reject_active_run", "dispatch"}
    BY DEF LockDecision
  <2>2. Body(r).gate \in Decision
    BY <1>1 DEF Payload, GateRefusal, Decision
  <2>3. \/ Reply(r, "skip_duplicate")
        \/ Decide(r, "outcome_row", "stale_event")
        \/ Decide(r, "outcome_row", "reject_active_run")
        \/ Decide(r, "mark", "reject_missing_metadata")
        \/ Decide(r, "outcome_gate", Body(r).gate)
        \/ Goto(r, "post")
    BY <1>4, <2>1 DEF acquire_lock
  <2>4. {"skip_duplicate", "stale_event", "reject_active_run", "reject_missing_metadata"}
           \subseteq Decision
    BY DEF Decision
  <2> QED BY <1>4, <2>2, <2>3, <2>4, ReplyOK, DecideOK, GotoOK
          DEF acquire_lock, PC, Deciding, Resuming, Cancelling, Dispatched
<1>5. CASE mark(r)
  BY <1>0, <1>5, GotoOK
     DEF mark, RequestOK, PC, Deciding, Resuming, Cancelling, Dispatched
<1>6. CASE outcome_row(r) \/ outcome_gate(r) \/ settle(r)
  BY <1>0, <1>6, ReplyOK
     DEF outcome_row, outcome_gate, settle, RequestOK, Deciding, Decision
<1>7. CASE dispatch_named(r)
  BY <1>0, <1>7, GotoOK
     DEF dispatch_named, Answered, AfterDispatch, RequestOK, RequestState, PC, Deciding,
         Resuming, Cancelling, Dispatched
<1>8. CASE dispatch_anonymous(r)
  <2> DEFINE q == [req[r] EXCEPT !.pc = AfterDispatch(r), !.run = Pending(Ev(r))]
  <2>1. AfterDispatch(r) \in PC /\ AfterDispatch(r) \in {"qa", "outcome_dispatch"}
    BY DEF AfterDispatch, PC
  <2>2. req' = [req EXCEPT ![r] = q]
    BY <1>0, <1>8 DEF dispatch_anonymous
  <2>3. req[r] \in RequestState /\ req[r].event \in Event
    BY <1>0 DEF RequestOK
  <2>4. /\ q \in RequestState /\ q.event = req[r].event
        /\ q.pc = AfterDispatch(r) /\ q.run = Pending(Ev(r))
    BY <1>1, <2>1, <2>3 DEF RequestState
  <2> HIDE DEF q
  <2>5. RequestOK(q) /\ q.pc # "idle"
    BY <1>1, <2>1, <2>3, <2>4 DEF RequestOK, Deciding, Resuming, Cancelling, Dispatched
  <2> QED BY <2>2, <2>5 DEF Moved
<1>9. CASE dispatch_failed(r) \/ resume_failed(r)
  BY <1>0, <1>9, DecideOK
     DEF dispatch_failed, resume_failed, Decision, PC, Deciding, Resuming, Cancelling, Dispatched
<1>10. CASE outcome_dispatch(r) \/ qa_invalid(r)
  BY <1>0, <1>10, ReplyOK DEF outcome_dispatch, qa_invalid, Decision
<1>11. CASE resume_record(r)
  BY <1>0, <1>11, ReplyOK, DecideOK
     DEF resume_record, record_operator_event, RequestOK, Decision, PC, Deciding, Resuming,
         Cancelling, Dispatched
<1>12. CASE resumed(r)
  BY <1>0, <1>12, GotoOK
     DEF resumed, RequestOK, PC, Deciding, Resuming, Cancelling, Dispatched
<1>13. CASE resume_clear(r)
  BY <1>0, <1>13, DecideOK
     DEF resume_clear, Decision, PC, Deciding, Resuming, Cancelling, Dispatched
<1>14. CASE cancel_record(r)
  BY <1>0, <1>14, ReplyOK, DecideOK
     DEF cancel_record, record_operator_event, RequestOK, Decision, PC, Deciding, Resuming,
         Cancelling, Dispatched
<1>15. CASE cancel_release(r)
  BY <1>0, <1>15, GotoOK, DecideOK
     DEF cancel_release, RequestOK, RequestState, Decision, PC, Deciding, Resuming,
         Cancelling, Dispatched
<1>16. CASE cancel_clear(r)
  BY <1>0, <1>16, DecideOK
     DEF cancel_clear, Decision, PC, Deciding, Resuming, Cancelling, Dispatched
<1> QED BY <1>2, <1>3, <1>4, <1>5, <1>6, <1>7, <1>8, <1>9, <1>10, <1>11, <1>12, <1>13,
           <1>14, <1>15, <1>16

\* Steps of a request that change the reconciliation pass, n8n, ClickUp or
\* the callbacks as well.
LEMMA LoudRequestSteps ==
    ASSUME Inv, NEW r \in Request, req[r].pc # "idle", [StoreNext]_storeVars,
           \/ read_paused_and_branch(r) \/ leave_checkpoint(r) \/ post_dispatch(r)
           \/ qa_result(r) \/ post_resume(r) \/ cancel_signal(r)
    PROVE  Inv'
<1>0. req \in [Request -> RequestState] /\ RequestOK(req[r])
  BY DEF Inv, TypeOK, Attached
<1>1. /\ Ev(r) \in Event /\ Tk(r) \in Task /\ Body(r) \in Payload
      /\ Pending(Ev(r)) \in RunId
  BY RequestFacts
<1>2. /\ recon \in [Reconciler ->
             [step : {"off", "list", "probe", "free", "end"}, todo : SUBSET Item,
              item : Item \cup {None}, drift : BOOLEAN]]
      /\ task_status \in [Task -> TaskStatus]
      /\ \A p \in Reconciler : PassOK(recon[p])
      /\ r \in Reconciler
      /\ n8n \in [Run -> {"none", "running", "waiting", "finished"}]
      /\ r \in Run
      /\ clock \in Nat
  BY DEF Inv, TypeOK, ReconTypeOK, Attached, Reconciler, Request
<1> USE DEF At
<1>3. CASE read_paused_and_branch(r)
  <2> DEFINE paused == paused_task_runs[Tk(r)]
  <2>1. paused \in PausedRow \cup {None}
    BY <1>1 DEF Inv, TypeOK, StoreTypeOK
  <2> HIDE DEF paused
  <2>2. Moved(r)
    <3>0. /\ req[r] \in RequestState /\ req[r].event \in Event
          /\ {"resume_record", "cancel_record", "outcome_only", "checkpoint", "lock"}
               \subseteq PC
      BY <1>0 DEF RequestOK, PC
    <3>1. CASE WantsResume(r, req[r].active, paused)
      <4> DEFINE q == [req[r] EXCEPT !.paused = paused, !.pc = "resume_record"]
      <4>1. req' = [req EXCEPT ![r] = q]
        BY <1>0, <1>3, <3>1 DEF read_paused_and_branch, paused
      <4>2. /\ q \in RequestState /\ q.pc = "resume_record" /\ q.event = req[r].event
            /\ q.paused = paused
        BY <2>1, <3>0 DEF RequestState
      <4>3. paused \in PausedRow
        BY <2>1, <3>1 DEF WantsResume
      <4> HIDE DEF q
      <4>4. RequestOK(q) /\ q.pc # "idle"
        BY <3>0, <4>2, <4>3 DEF RequestOK, Deciding, Resuming, Cancelling, Dispatched
      <4> QED BY <4>1, <4>4 DEF Moved
    <3>2. CASE ~WantsResume(r, req[r].active, paused) /\ WantsCancel(r, req[r].active)
      <4> DEFINE q == [req[r] EXCEPT !.paused = paused, !.pc = "cancel_record"]
      <4>1. req' = [req EXCEPT ![r] = q]
        BY <1>0, <1>3, <3>2 DEF read_paused_and_branch, paused
      <4>2. /\ q \in RequestState /\ q.pc = "cancel_record" /\ q.event = req[r].event
            /\ q.active = req[r].active
        BY <2>1, <3>0 DEF RequestState
      <4>3. req[r].active \in ActiveRow
        BY <3>0, <3>2 DEF WantsCancel, RequestState
      <4> HIDE DEF q
      <4>4. RequestOK(q) /\ q.pc # "idle"
        BY <3>0, <4>2, <4>3 DEF RequestOK, Deciding, Resuming, Cancelling, Dispatched
      <4> QED BY <4>1, <4>4 DEF Moved
    <3>3. CASE /\ ~WantsResume(r, req[r].active, paused)
               /\ ~WantsCancel(r, req[r].active)
               /\ Body(r).policy # "dispatch"
      <4> DEFINE q == [req[r] EXCEPT !.active = None, !.pc = "outcome_only",
                                     !.decision = Body(r).policy]
      <4>1. req' = [req EXCEPT ![r] = q]
        BY <1>0, <1>3, <3>3 DEF read_paused_and_branch, paused
      <4>2. Body(r).policy \in Decision
        BY <1>1, <3>3 DEF Payload, Decision
      <4>3. /\ q \in RequestState /\ q.pc = "outcome_only" /\ q.event = req[r].event
            /\ q.decision = Body(r).policy
        BY <3>0, <4>2 DEF RequestState
      <4> HIDE DEF q
      <4>4. RequestOK(q) /\ q.pc # "idle"
        BY <3>0, <4>2, <4>3 DEF RequestOK, Deciding, Resuming, Cancelling, Dispatched
      <4> QED BY <4>1, <4>4 DEF Moved
    <3>4. CASE /\ ~WantsResume(r, req[r].active, paused)
               /\ ~WantsCancel(r, req[r].active)
               /\ Body(r).policy = "dispatch"
      <4> DEFINE q == [req[r] EXCEPT !.active = None,
                                     !.pc = IF Checkpoint THEN "checkpoint" ELSE "lock"]
      <4>1. req' = [req EXCEPT ![r] = q]
        BY <1>0, <1>3, <3>4 DEF read_paused_and_branch, paused
      <4>2. /\ q \in RequestState /\ q.pc \in {"checkpoint", "lock"}
            /\ q.event = req[r].event
        BY <3>0 DEF RequestState
      <4> HIDE DEF q
      <4>3. RequestOK(q) /\ q.pc # "idle"
        BY <3>0, <4>2 DEF RequestOK, Deciding, Resuming, Cancelling, Dispatched
      <4> QED BY <4>1, <4>3 DEF Moved
    <3> QED BY <3>1, <3>2, <3>3, <3>4
  <2>3. recon' = recon \/ recon' = [recon EXCEPT ![r] = StartPass]
    BY <1>3 DEF read_paused_and_branch
  <2>4. ReconTypeOK' /\ \A p \in Reconciler : PassOK(recon'[p])
    BY <1>2, <1>3, <2>3 DEF read_paused_and_branch, ReconTypeOK, StartPass, NoPass, PassOK
  <2> QED BY <1>2, <1>3, <2>2, <2>4, OneRequestMoves
          DEF read_paused_and_branch, envVars, history
<1>4. CASE leave_checkpoint(r)
  <2>1. Moved(r)
    BY <1>0, <1>4, DecideOK, GotoOK
       DEF leave_checkpoint, Decision, PC, Deciding, Resuming, Cancelling, Dispatched
  <2>2. recon' = [recon EXCEPT ![r] = NoPass] /\ UNCHANGED task_status
    BY <1>4 DEF leave_checkpoint
  <2>3. ReconTypeOK' /\ \A p \in Reconciler : PassOK(recon'[p])
    BY <1>2, <2>2 DEF ReconTypeOK, NoPass, PassOK
  <2> QED BY <1>2, <1>4, <2>1, <2>3, OneRequestMoves DEF leave_checkpoint, envVars, history
<1>5. CASE qa_result(r)
  <2>1. Moved(r)
    BY <1>0, <1>5, DecideOK
       DEF qa_result, QaDecision, Decision, RequestOK, PC, Deciding, Resuming, Cancelling,
           Dispatched
  <2>2. task_status' \in [Task -> TaskStatus] /\ UNCHANGED recon
    BY <1>2, <1>5 DEF qa_result, QaStatus, TaskStatus
  <2>3. ReconTypeOK' /\ \A p \in Reconciler : PassOK(recon'[p])
    BY <1>2, <2>2 DEF ReconTypeOK
  <2> QED BY <1>2, <1>5, <2>1, <2>3, OneRequestMoves DEF qa_result, envVars, history
<1>6. ReconTypeOK /\ UNCHANGED reconVars
        => ReconTypeOK' /\ \A p \in Reconciler : PassOK(recon'[p])
  BY <1>2 DEF ReconTypeOK, reconVars
<1>7. CASE post_dispatch(r)
  <2>1. Moved(r)
    <3> DEFINE q == [req[r] EXCEPT !.pc = "sent", !.run = N8n(r)]
    <3>1. CASE Goto(r, "sent")
      BY <1>0, <1>7, <3>1, GotoOK
         DEF post_dispatch, PC, Deciding, Resuming, Cancelling, Dispatched
    <3>2. CASE req' = [req EXCEPT ![r].pc = "sent", ![r].run = N8n(r)]
      <4>1. N8n(r) \in RunId
        BY <1>2 DEF RunId, NamedRun
      <4>2. RequestOK(q) /\ q.pc # "idle"
        BY <1>0, <1>7, <4>1 DEF post_dispatch, RequestOK, RequestState, PC, Deciding,
           Resuming, Cancelling, Dispatched
      <4>3. req' = [req EXCEPT ![r] = q]
        BY <1>0, <3>2
      <4> QED BY <4>2, <4>3 DEF Moved
    <3> QED BY <1>7, <3>1, <3>2 DEF post_dispatch
  <2>2. n8n' = n8n \/ n8n' = [n8n EXCEPT ![r] = "running"]
    BY <1>7 DEF post_dispatch
  <2> QED BY <1>2, <1>6, <1>7, <2>1, <2>2, OneRequestMoves
          DEF post_dispatch, QuietButPost, Inv, TypeOK
<1>8. CASE post_resume(r)
  <2> DEFINE x == req[r].paused.run_id[2]
  <2>1. x \in Run
    <3>1. req[r].paused \in PausedRow
      BY <1>0, <1>8 DEF post_resume, RequestOK, Resuming
    <3>2. PICK y \in Run : req[r].paused.run_id = N8n(y)
      BY <3>1 DEF PausedRow, NamedRun
    <3> QED BY <3>2 DEF N8n
  <2>2. N8n(x) \in RunId /\ N8n(r) \in RunId
    BY <1>2, <2>1 DEF RunId, NamedRun
  <2>3. \/ Goto(r, "resume_sent") /\ n8n' = n8n
        \/ /\ req' = [req EXCEPT ![r].pc = "resume_sent", ![r].run = N8n(x)]
           /\ n8n[x] = "waiting"
           /\ n8n' = [n8n EXCEPT ![x] = "running"]
        \/ /\ req' = [req EXCEPT ![r].pc = "resume_sent", ![r].run = N8n(r)]
           /\ n8n' = [n8n EXCEPT ![x] = IF @ = "waiting" THEN "finished" ELSE @,
                                 ![r] = "running"]
    BY <1>8 DEF post_resume
  <2>4. ASSUME NEW run \in RunId,
               req' = [req EXCEPT ![r].pc = "resume_sent", ![r].run = run]
        PROVE  Moved(r)
    <3> DEFINE q == [req[r] EXCEPT !.pc = "resume_sent", !.run = run]
    <3>1. RequestOK(q) /\ q.pc # "idle"
      BY <1>0, <1>8 DEF post_resume, RequestOK, RequestState, PC, Deciding,
         Resuming, Cancelling, Dispatched
    <3>2. req' = [req EXCEPT ![r] = q]
      BY <1>0, <2>4
    <3> QED BY <3>1, <3>2 DEF Moved
  <2>5. Goto(r, "resume_sent") => Moved(r)
    BY <1>0, <1>8, GotoOK
       DEF post_resume, RequestOK, PC, Deciding, Resuming, Cancelling, Dispatched
  <2>6. Moved(r)
    BY <2>2, <2>3, <2>4, <2>5
  <2>7. /\ n8n' \in [Run -> {"none", "running", "waiting", "finished"}]
        /\ \A y \in Run : n8n'[y] # "none" => n8n[y] # "none" \/ y = r
    BY <1>2, <2>1, <2>3
  <2> QED BY <1>2, <1>6, <1>8, <2>6, <2>7, OneRequestMoves
          DEF post_resume, QuietButPost, Inv, TypeOK
<1>9. CASE cancel_signal(r)
  <2>1. Moved(r)
    BY <1>0, <1>9, GotoOK
       DEF cancel_signal, RequestOK, PC, Deciding, Resuming, Cancelling, Dispatched
  <2>2. \/ UNCHANGED <<n8n, callbacks>>
        \/ \E x \in Run :
             /\ n8n[x] \in Live
             /\ n8n' = [n8n EXCEPT ![x] = "finished"]
             /\ callbacks' \subseteq callbacks \cup {FinalCallback(x, TRUE)}
    BY <1>9 DEF cancel_signal, envVars
  <2>3. \A x \in Run : FinalCallback(x, TRUE) \in Callback
                       /\ FinalCallback(x, TRUE).run = x /\ FinalCallback(x, TRUE).pc = "write"
    BY DEF FinalCallback, Callback, Workflow
  <2>4. \A m \in callbacks' \ callbacks :
          m \in Callback /\ n8n[m.run] # "none" /\ m.pc = "write"
    BY <2>2, <2>3 DEF Live
  <2>5. /\ n8n' \in [Run -> {"none", "running", "waiting", "finished"}]
        /\ \A y \in Run : n8n'[y] # "none" => n8n[y] # "none" \/ y = r
    BY <1>2, <2>2 DEF Live
  <2> QED BY <1>2, <1>6, <1>9, <2>1, <2>4, <2>5, OneRequestMoves
          DEF cancel_signal, Inv, TypeOK, history
<1> QED BY <1>3, <1>4, <1>5, <1>7, <1>8, <1>9

LEMMA RequestInv ==
    ASSUME Inv, NEW r \in Request, RequestStep(r)
    PROVE  Inv'
<1>1. req[r].pc # "idle"
  BY StepperHasBegun
<1>2. [StoreNext]_storeVars
  BY RequestStoreStep
<1> QED BY <1>1, <1>2, QuietRequestSteps, LoudRequestSteps DEF RequestStep

LEMMA ReceiveInv ==
    ASSUME Inv, NEW e \in Event, receive(e)
    PROVE  Inv'
<1> DEFINE r == CHOOSE s \in Unused : TRUE
           stamp == IF PayloadOf[e].occurred_at = 0 THEN clock + 1
                    ELSE PayloadOf[e].occurred_at
           q == [req[r] EXCEPT !.pc = "get_active", !.event = e, !.at = stamp]
<1>1. r \in Unused /\ r \in Request
  BY DEF receive, Unused
<1>2. clock' = clock + 1
      /\ req' = [req EXCEPT ![r].pc = "get_active", ![r].event = e, ![r].at = stamp]
  BY DEF receive
<1> HIDE DEF r
<1>3. req \in [Request -> RequestState] /\ RequestOK(req[r]) /\ clock \in Nat
  BY <1>1 DEF Inv, TypeOK, Attached
<1>4. PayloadOf[e] \in Payload
  BY PayloadType
<1>5. stamp \in Nat /\ clock' \in Nat
  BY <1>2, <1>3, <1>4 DEF Payload
<1> HIDE DEF stamp
<1>6. RequestOK(q) /\ q.pc # "idle"
  <2>1. req[r] \in RequestState /\ "get_active" \in PC
    BY <1>3 DEF RequestOK, PC
  <2>2. q \in RequestState /\ q.pc = "get_active" /\ q.event = e
    BY <1>5, <2>1 DEF RequestState
  <2> HIDE DEF q
  <2> QED BY <2>2 DEF RequestOK, Deciding, Resuming, Cancelling, Dispatched
<1>7. req' = [req EXCEPT ![r] = q]
  BY <1>1, <1>2, <1>3 DEF RequestState
<1>8. Moved(r)
  BY <1>6, <1>7 DEF Moved
<1>9. ReconTypeOK' /\ \A p \in Reconciler : PassOK(recon'[p])
  BY DEF receive, reconVars, Inv, TypeOK, ReconTypeOK, Attached
<1> QED BY <1>1, <1>5, <1>8, <1>9, OneRequestMoves
        DEF receive, envVars, history, storeVars, Inv, TypeOK

-----------------------------------------------------------------------------
(* The other steps *)

\* A step that moves no request.
LEMMA OthersMove ==
    ASSUME Inv, [StoreNext]_storeVars, UNCHANGED <<req, clock, crashes, posted>>,
           ReconTypeOK', \A p \in Reconciler : PassOK(recon'[p]),
           n8n' \in [Run -> {"none", "running", "waiting", "finished"}],
           \A x \in Run : n8n'[x] # "none" => n8n[x] # "none",
           \A m \in callbacks' \ callbacks : m \in Callback /\ CallbackOK(m),
           acked' \subseteq Run
    PROVE  Inv'
<1>1. StoreTypeOK' /\ LockTracesToEvent'
  BY StoreStepInv DEF Inv, TypeOK, StoreInv
<1>2. TypeOK'
  BY <1>1 DEF Inv, TypeOK
<1>3. \A m \in callbacks' : CallbackOK(m)'
  BY DEF Inv, Attached, CallbackOK
<1> QED BY <1>1, <1>2, <1>3 DEF Inv, Attached

LEMMA PassInv ==
    ASSUME Inv, NEW p \in Reconciler, PassStep(p)
    PROVE  Inv' /\ [StoreNext]_storeVars
<1>1. /\ recon \in [Reconciler ->
             [step : {"off", "list", "probe", "free", "end"}, todo : SUBSET Item,
              item : Item \cup {None}, drift : BOOLEAN]]
      /\ task_status \in [Task -> TaskStatus]
      /\ PassOK(recon[p])
      /\ \A p2 \in Reconciler : PassOK(recon[p2])
  BY DEF Inv, TypeOK, ReconTypeOK, Attached
<1>2. \A todo \in SUBSET Item, drift \in BOOLEAN :
        /\ PassOK(Left(todo, drift))
        /\ Left(todo, drift) \in
             [step : {"off", "list", "probe", "free", "end"}, todo : SUBSET Item,
              item : Item \cup {None}, drift : BOOLEAN]
  BY DEF Left, PassOK
<1>3. [StoreNext]_storeVars
  <2>1. CASE list_running(p) \/ probe(p)
    BY <2>1 DEF list_running, probe, storeVars
  <2>2. CASE release_stale(p)
    <3>1. recon[p].item[1] \in Task /\ recon[p].item[2] \in RunId
      BY <1>1, <2>2 DEF release_stale, PassOK, Item
    <3> QED BY <2>2, <3>1, MethodsAreStoreSteps DEF release_stale
  <2> QED BY <2>1, <2>2 DEF PassStep, ReconcileStep
<1>4. task_status' = task_status
  BY DEF PassStep, ReconcileStep, list_running, probe, release_stale
<1>5. ASSUME NEW q, PassOK(q), recon' = [recon EXCEPT ![p] = q],
             q \in [step : {"off", "list", "probe", "free", "end"}, todo : SUBSET Item,
                   item : Item \cup {None}, drift : BOOLEAN]
      PROVE  ReconTypeOK' /\ \A p2 \in Reconciler : PassOK(recon'[p2])
  <2>1. \A p2 \in Reconciler : PassOK(recon'[p2])
    BY <1>1, <1>5
  <2> QED BY <1>1, <1>4, <1>5, <2>1 DEF ReconTypeOK
<1>6. ReconTypeOK' /\ \A p2 \in Reconciler : PassOK(recon'[p2])
  <2>1. CASE list_running(p)
    <3>1. {<<t, active_task_runs[t].run_id>> : t \in list_running_runs} \in SUBSET Item
      BY DEF list_running_runs, Item, Running, Inv, TypeOK, StoreTypeOK, ActiveRow
    <3>2. PICK todo \in SUBSET Item : recon' = [recon EXCEPT ![p] = Left(todo, FALSE)]
      BY <2>1, <3>1 DEF list_running
    <3> QED BY <1>2, <1>5, <3>2
  <2>2. CASE probe(p)
    <3>1. PICK i \in recon[p].todo :
            \/ recon' = [recon EXCEPT ![p] = Left(recon[p].todo \ {i}, recon[p].drift)]
            \/ recon' = [recon EXCEPT ![p] = Left(recon[p].todo \ {i}, TRUE)]
            \/ recon' = [recon EXCEPT ![p].step = "free", ![p].item = i,
                                      ![p].todo = recon[p].todo \ {i}]
      BY <2>2 DEF probe
    <3>2. i \in Item /\ recon[p].todo \ {i} \in SUBSET Item /\ recon[p].drift \in BOOLEAN
      BY <1>1, <3>1
    <3>3. CASE recon' = [recon EXCEPT ![p].step = "free", ![p].item = i,
                                      ![p].todo = recon[p].todo \ {i}]
      <4>1. recon' = [recon EXCEPT ![p] =
               [recon[p] EXCEPT !.step = "free", !.item = i, !.todo = recon[p].todo \ {i}]]
        BY <1>1, <3>3
      <4> DEFINE q == [recon[p] EXCEPT !.step = "free", !.item = i,
                                       !.todo = recon[p].todo \ {i}]
      <4>2. PassOK(q)
        BY <1>1, <3>2 DEF PassOK
      <4>3. q \in [step : {"off", "list", "probe", "free", "end"}, todo : SUBSET Item,
                   item : Item \cup {None}, drift : BOOLEAN]
        BY <1>1, <3>2
      <4> QED BY <1>5, <4>1, <4>2, <4>3
    <3>4. CASE \E drift \in BOOLEAN :
                 recon' = [recon EXCEPT ![p] = Left(recon[p].todo \ {i}, drift)]
      BY <1>2, <1>5, <3>2, <3>4
    <3> QED BY <3>1, <3>2, <3>3, <3>4
  <2>3. CASE release_stale(p)
    <3>1. PICK drift \in BOOLEAN : recon' = [recon EXCEPT ![p] = Left(recon[p].todo, drift)]
      BY <2>3 DEF release_stale
    <3>2. recon[p].todo \in SUBSET Item
      BY <1>1
    <3> QED BY <1>2, <1>5, <3>1, <3>2
  <2> QED BY <2>1, <2>2, <2>3 DEF PassStep, ReconcileStep
<1> QED BY <1>3, <1>6, OthersMove DEF PassStep, envVars, history, Inv, TypeOK

LEMMA OperatorInv ==
    ASSUME Inv, NEW t \in Task, OperatorStep(t)
    PROVE  Inv' /\ [StoreNext]_storeVars
<1>1. ReconTypeOK' /\ \A p \in Reconciler : PassOK(recon'[p])
  BY DEF OperatorStep, OperatorMovesCard, Inv, TypeOK, ReconTypeOK, Attached, TaskStatus
<1> QED BY <1>1, OthersMove
        DEF OperatorStep, OperatorMovesCard, envVars, history, storeVars, Inv, TypeOK

LEMMA N8nInv ==
    ASSUME Inv, NEW x \in Run, N8nStep(x)
    PROVE  Inv' /\ [StoreNext]_storeVars
<1>1. n8n \in [Run -> {"none", "running", "waiting", "finished"}]
  BY DEF Inv, TypeOK
<1>2. n8n[x] # "none" /\ req[x].pc # "idle"
  BY DEF N8nStep, run_finishes, run_returns, run_asks, run_times_out, Inv, Attached
<1>3. /\ n8n' \in [Run -> {"none", "running", "waiting", "finished"}]
      /\ \A y \in Run : n8n'[y] # "none" => n8n[y] # "none"
  BY <1>1, <1>2 DEF N8nStep, run_finishes, run_returns, run_asks, run_times_out
<1>4. OfN8n
  BY DEF N8nStep, run_finishes, run_returns, run_asks, run_times_out
<1>5. ASSUME NEW named \in BOOLEAN, NEW status \in {"final", "waiting_input", "timed_out"},
             NEW w \in Workflow,
             NEW m, m = [FinalCallback(x, named) EXCEPT !.status = status, !.workflow = w]
      PROVE  m \in Callback /\ CallbackOK(m)
  BY <1>2, <1>5 DEF FinalCallback, Callback, CallbackOK
<1>6. Naming \subseteq BOOLEAN
  BY DEF Naming
<1>7. {"build_spec", "other"} \subseteq Workflow
  BY DEF Workflow
<1>8. \A m \in callbacks' \ callbacks : m \in Callback /\ CallbackOK(m)
  BY <1>5, <1>6, <1>7 DEF N8nStep, run_finishes, run_returns, run_asks, run_times_out, Report
<1>9. ReconTypeOK' /\ \A p \in Reconciler : PassOK(recon'[p])
  BY <1>4 DEF OfN8n, reconVars, Inv, TypeOK, ReconTypeOK, Attached
<1> QED BY <1>3, <1>4, <1>8, <1>9, OthersMove DEF OfN8n, history, storeVars, Inv, TypeOK

LEMMA CallbackInv ==
    ASSUME Inv, NEW m \in callbacks, CallbackStep(m) \/ callback_lost(m)
    PROVE  Inv' /\ [StoreNext]_storeVars
<1>1. m \in Callback /\ CallbackOK(m) /\ m.run \in Request
  BY DEF Inv, TypeOK, Attached, Callback, Request
<1>2. Tk(m.run) \in Task
  BY <1>1, RequestFacts DEF CallbackOK
<1>3. N8n(m.run) \in NamedRun /\ N8n(m.run) \in RunId
  BY <1>1 DEF NamedRun, RunId, Request
<1>4. m.pc \in {"release", "clear"} => m.target \in RunId
  BY <1>1 DEF CallbackOK
<1>5. [StoreNext]_storeVars
  <2>1. CASE callback_write(m) \/ callback_lookup(m) \/ callback_lost(m)
    BY <2>1 DEF callback_write, callback_lookup, callback_lost, storeVars
  <2>2. CASE callback_pause(m)
    BY <1>1, <1>2, <1>3, <2>2, MethodsAreStoreSteps DEF callback_pause, Callback
  <2>3. CASE callback_release(m)
    BY <1>2, <1>4, <2>3, MethodsAreStoreSteps DEF callback_release
  <2>4. CASE callback_clear(m)
    BY <1>2, <1>4, <2>4, MethodsAreStoreSteps DEF callback_clear
  <2> QED BY <2>1, <2>2, <2>3, <2>4 DEF CallbackStep
<1>6. OfCallback
  BY DEF CallbackStep, callback_write, callback_lookup, callback_lost, callback_pause,
         callback_release, callback_clear
<1>7. \A n \in callbacks' \ callbacks : n \in Callback /\ CallbackOK(n)
  <2>1. ASSUME NEW n,
               \/ n = [m EXCEPT !.pc = "write", !.target = None]
               \/ n = [m EXCEPT !.pc = "pause"]
               \/ n = [m EXCEPT !.pc = "lookup"]
               \/ \E pc \in {"release", "clear"}, target \in RunId :
                    n = [m EXCEPT !.pc = pc, !.target = target]
        PROVE  n \in Callback /\ CallbackOK(n)
    BY <1>1, <2>1 DEF Callback, CallbackOK
  <2>2. CASE callback_write(m)
    BY <1>3, <2>1, <2>2 DEF callback_write, Ends, Moves
  <2>3. CASE callback_pause(m) \/ callback_clear(m)
    BY <2>1, <2>3 DEF callback_pause, callback_clear, Ends, Moves
  <2>4. CASE callback_lookup(m)
    <3>1. get_active_run(Tk(m.run)) # None => get_active_run(Tk(m.run)).run_id \in RunId
      BY <1>2 DEF get_active_run, Running, Inv, TypeOK, StoreTypeOK, ActiveRow
    <3> QED BY <2>1, <2>4, <3>1 DEF callback_lookup, Ends, Moves
  <2>5. CASE callback_release(m)
    <3>1. [m EXCEPT !.pc = "clear"] = [m EXCEPT !.pc = "clear", !.target = m.target]
      BY <1>1 DEF Callback
    <3> QED BY <1>4, <2>1, <2>5, <3>1 DEF callback_release, Moves
  <2>6. CASE callback_lost(m)
    BY <2>6 DEF callback_lost
  <2> QED BY <2>2, <2>3, <2>4, <2>5, <2>6 DEF CallbackStep
<1>8. acked' \subseteq Run
  BY <1>1 DEF CallbackStep, callback_write, callback_lookup, callback_lost, callback_pause,
              callback_release, callback_clear, Inv, TypeOK, Request
<1>9. ReconTypeOK' /\ \A p \in Reconciler : PassOK(recon'[p])
  <2>1. recon' = recon
    BY <1>6 DEF OfCallback
  <2>2. task_status' \in [Task -> TaskStatus]
    BY DEF CallbackStep, callback_write, callback_lookup, callback_lost, callback_pause,
           callback_release, callback_clear, Inv, TypeOK, ReconTypeOK, TaskStatus
  <2> QED BY <2>1, <2>2 DEF Inv, TypeOK, ReconTypeOK, Attached
<1> QED BY <1>5, <1>6, <1>7, <1>8, <1>9, OthersMove DEF OfCallback, Inv, TypeOK

LEMMA CrashInv ==
    ASSUME Inv, crash
    PROVE  Inv' /\ [StoreNext]_storeVars
<1>1. [StoreNext]_storeVars
  BY DEF crash, storeVars
<1>2. StoreTypeOK' /\ LockTracesToEvent'
  BY <1>1, StoreStepInv DEF Inv, TypeOK, StoreInv
<1>3. ASSUME NEW r \in Request
      PROVE  /\ RequestOK(req'[r])
             /\ req[r].pc # "idle" => req'[r].pc # "idle"
  <2>1. RequestOK(req[r])
    BY DEF Inv, Attached
  <2>2. CASE req[r].pc \in Gone
    BY <2>1, <2>2 DEF crash
  <2>3. CASE req[r].pc \notin Gone
    <3>1. req'[r] = [IdleRequest EXCEPT !.pc = "dead", !.event = Ev(r)]
      BY <2>3 DEF crash
    <3>2. Ev(r) \in Event
      BY <2>1, <2>3 DEF RequestOK, Gone, Ev
    <3> DEFINE q == [IdleRequest EXCEPT !.pc = "dead", !.event = Ev(r)]
    <3>3. "dead" \in PC
      BY DEF PC, Gone
    <3>4. q \in RequestState /\ q.pc = "dead" /\ q.event = Ev(r)
      BY <3>2, <3>3 DEF IdleRequest, RequestState
    <3> HIDE DEF q
    <3>5. RequestOK(q) /\ q.pc # "idle"
      BY <3>2, <3>4 DEF RequestOK, Deciding, Resuming, Cancelling, Dispatched
    <3> QED BY <3>1, <3>5 DEF q
  <2> QED BY <2>2, <2>3
<1>4. req' \in [Request -> RequestState]
  BY <1>3 DEF crash, RequestOK
<1>5. ReconTypeOK' /\ \A p \in Reconciler : PassOK(recon'[p])
  BY DEF crash, Inv, TypeOK, ReconTypeOK, PassOK, StartPass, NoPass
<1>6. callbacks' \subseteq Callback /\ \A m \in callbacks' : CallbackOK(m)'
  <2>1. ASSUME NEW m \in callbacks
        PROVE  /\ [m EXCEPT !.pc = "write", !.target = None] \in Callback
               /\ CallbackOK([m EXCEPT !.pc = "write", !.target = None])'
    <3>1. m \in Callback /\ req[m.run].pc # "idle" /\ m.run \in Request
      BY DEF Inv, TypeOK, Attached, Callback, CallbackOK, Request
    <3>2. req'[m.run].pc # "idle"
      BY <1>3, <3>1
    <3> DEFINE n == [m EXCEPT !.pc = "write", !.target = None]
    <3>3. n \in Callback /\ n.run = m.run /\ n.pc = "write"
      BY <3>1 DEF Callback
    <3> HIDE DEF n
    <3>4. n \in Callback /\ CallbackOK(n)'
      BY <3>2, <3>3 DEF CallbackOK
    <3> QED BY <3>4 DEF n
  <2> QED BY <2>1 DEF crash
<1>7. TypeOK'
  <2>1. /\ clock' = clock /\ n8n' = n8n /\ posted' = posted /\ acked' = acked
        /\ crashes' = crashes + 1
    BY DEF crash, history
  <2>2. /\ clock \in Nat /\ crashes \in Nat /\ posted \subseteq Request /\ acked \subseteq Run
        /\ n8n \in [Run -> {"none", "running", "waiting", "finished"}]
    BY DEF Inv, TypeOK
  <2> QED BY <1>2, <1>4, <1>5, <1>6, <2>1, <2>2 DEF TypeOK
<1>8. Attached'
  <2>1. /\ \A x \in Run : n8n'[x] # "none" => req'[x].pc # "idle"
        /\ \A r \in posted' : req'[r].pc # "idle"
    BY <1>3 DEF crash, history, Inv, TypeOK, Attached, Request
  <2> QED BY <1>3, <1>5, <1>6, <2>1 DEF Attached
<1> QED BY <1>1, <1>2, <1>7, <1>8 DEF Inv

\* Every step keeps the invariant and is a step of the store, or leaves the
\* store alone.
LEMMA NextInv == Inv /\ [Next]_vars => Inv' /\ [StoreNext]_storeVars
<1> SUFFICES ASSUME Inv, [Next]_vars
             PROVE  Inv' /\ [StoreNext]_storeVars
  OBVIOUS
<1>1. ASSUME NEW e \in Event, receive(e)
      PROVE  Inv' /\ [StoreNext]_storeVars
  BY <1>1, ReceiveInv DEF receive, storeVars
<1>2. ASSUME NEW r \in Request, RequestStep(r)
      PROVE  Inv' /\ [StoreNext]_storeVars
  BY <1>2, RequestInv, RequestStoreStep
<1>3. CASE UNCHANGED vars
  <2>1. UNCHANGED storeVars
    BY <1>3 DEF vars, storeVars
  <2> QED BY <1>3, <2>1 DEF vars, storeVars, reconVars, Inv, TypeOK, StoreTypeOK, ReconTypeOK,
             LockTracesToEvent, Recorded, Attached, CallbackOK
<1> QED BY <1>1, <1>2, <1>3, PassInv, OperatorInv, N8nInv, CallbackInv, CrashInv DEF Next

\* Every variable has its type in every reachable state, whatever n8n,
\* ClickUp and the operators do and wherever the service crashes.
THEOREM TypeCorrect == Spec => []TypeOK
<1>1. Inv => TypeOK
  BY DEF Inv
<1> QED BY <1>1, InitInv, NextInv, PTL DEF Spec

\* The requests, callbacks and reconciliation passes use the tables through
\* the store's methods only, with arguments the methods are made for.
THEOREM UsesStore == Spec => StoreSpec
<1>1. Init => StoreInit
  BY DEF Init
<1> QED BY <1>1, InitInv, NextInv, PTL DEF Spec, StoreSpec

\* Whatever runs concurrently: a lock row stands for a recorded event.
THEOREM ControlPlaneLocksTrace == Spec => []LockTracesToEvent
  BY UsesStore, LocksTraceToEvents, PTL

\* The whole control plane implements the abstract run lock.
THEOREM ControlPlaneImplementsRunLock == Spec => RefinesRunLock
  BY UsesStore, StoreImplementsRunLock, PTL

-----------------------------------------------------------------------------
(* An event is sent to n8n at most once.  DispatchedOnce is not inductive: a
   request that is about to POST has to count as one that did, and a request
   gets there only in the step that records its event. *)

Senders == posted \cup {r \in Request : req[r].pc \in {"post", "resume_post"}}

OnceInv ==
    /\ \A r \in Senders : Recorded(Ev(r))
    /\ \A r1, r2 \in Senders : Ev(r1) = Ev(r2) => r1 = r2

\* A recorded event stays recorded.
LEMMA RecordedStays ==
    ASSUME StoreInv, [StoreNext]_storeVars, NEW e \in Event, Recorded(e)
    PROVE  Recorded(e)'
<1> USE NoneIsNoValue DEF StoreInv, StoreTypeOK, Recorded, ProcessedRow
<1>1. ASSUME NEW f \in Event, NEW run \in RunId, NEW at \in Nat,
             record_event_and_acquire_lock(f, run, at)
      PROVE  processed_events'[e] # None
  <2>1. [decision |-> LockDecision(f, at), at |-> at] \in ProcessedRow
    BY DEF LockDecision, Decision
  <2> QED BY <1>1, <2>1 DEF record_event_and_acquire_lock
<1>2. ASSUME NEW f \in Event, NEW d \in Decision, NEW at \in Nat,
             record_processed_event(f, d, at)
      PROVE  processed_events'[e] # None
  BY <1>2 DEF record_processed_event
<1>3. ASSUME NEW f \in Event, NEW d \in Decision, update_processed_event_decision(f, d)
      PROVE  processed_events'[e] # None
  BY <1>3 DEF update_processed_event_decision
<1>4. ASSUME NEW f \in Event, NEW d \in Decision, NEW run \in RunId,
             persist_terminal_decision(TaskOf[f], f, d, run)
      PROVE  processed_events'[e] # None
  BY <1>4 DEF persist_terminal_decision, storeVars
<1> QED BY <1>1, <1>2, <1>3, <1>4
        DEF StoreNext, storeVars, set_active_run_id, release_active_run, upsert_paused_run,
            clear_paused_run

\* What a step of request r does to the senders.
SendsIfRecorded(r) ==
    /\ \A s \in Request : Ev(s)' = Ev(s)
    /\ Senders' \subseteq Senders \cup {r}
    /\ r \in Senders' \ Senders => ~Recorded(Ev(r)) /\ Recorded(Ev(r))'

KeepsEvents(r) ==
    /\ \A s \in Request : Ev(s)' = Ev(s)
    /\ \A s \in Request \ {r} : req'[s] = req[s]

LEMMA HelpersKeepEvents ==
    ASSUME Inv, NEW r \in Request
    PROVE  /\ \A pc : Goto(r, pc) => KeepsEvents(r) /\ req'[r].pc = pc
           /\ \A pc, d : Decide(r, pc, d) => KeepsEvents(r) /\ req'[r].pc = pc
           /\ \A d : Reply(r, d) => KeepsEvents(r) /\ req'[r].pc = "done"
<1>1. req \in [Request -> RequestState]
  BY DEF Inv, TypeOK
<1> USE <1>1 DEF KeepsEvents, Ev, RequestState
<1>2. ASSUME NEW pc, Goto(r, pc) PROVE KeepsEvents(r) /\ req'[r].pc = pc
  BY <1>2 DEF Goto
<1>3. ASSUME NEW pc, NEW d, Decide(r, pc, d) PROVE KeepsEvents(r) /\ req'[r].pc = pc
  BY <1>3 DEF Decide
<1>4. ASSUME NEW d, Reply(r, d) PROVE KeepsEvents(r) /\ req'[r].pc = "done"
  BY <1>4 DEF Reply
<1> QED BY <1>2, <1>3, <1>4

\* A step that keeps the events and sends r nowhere new.
LEMMA NoNewSender ==
    ASSUME Inv, NEW r \in Request, KeepsEvents(r),
           posted' = posted \/ (posted' = posted \cup {r} /\ r \in Senders),
           req'[r].pc \notin {"post", "resume_post"}
    PROVE  SendsIfRecorded(r)
  BY DEF SendsIfRecorded, Senders, KeepsEvents, Inv, TypeOK

LEMMA RequestSends ==
    ASSUME Inv, NEW r \in Request, RequestStep(r)
    PROVE  SendsIfRecorded(r)
<1>1. req \in [Request -> RequestState] /\ RequestOK(req[r])
  BY DEF Inv, TypeOK, Attached
<1> USE HelpersKeepEvents
<1>2. CASE \/ outcome_only(r) \/ mark(r) \/ outcome_row(r) \/ outcome_gate(r)
           \/ dispatch_named(r) \/ dispatch_failed(r) \/ outcome_dispatch(r)
           \/ qa_invalid(r) \/ settle(r)
  BY <1>2, NoNewSender
     DEF outcome_only, mark, outcome_row, outcome_gate, dispatch_named, AfterDispatch,
         dispatch_failed, outcome_dispatch, qa_invalid, settle, Quiet
<1>3. CASE \/ resume_failed(r) \/ resumed(r) \/ resume_clear(r) \/ cancel_record(r)
           \/ cancel_release(r) \/ cancel_clear(r)
  BY <1>3, NoNewSender
     DEF resume_failed, resumed, resume_clear, cancel_record, record_operator_event,
         cancel_release, cancel_clear, Quiet
<1>4. CASE \/ leave_checkpoint(r) \/ qa_result(r) \/ cancel_signal(r)
  <2>1. posted' = posted
    BY <1>4 DEF leave_checkpoint, qa_result, cancel_signal, history
  <2>2. ASSUME NEW pc, NEW d, Decide(r, pc, d), pc \notin {"post", "resume_post"}
        PROVE  SendsIfRecorded(r)
    BY <2>1, <2>2, NoNewSender
  <2>3. ASSUME NEW pc, Goto(r, pc), pc \notin {"post", "resume_post"}
        PROVE  SendsIfRecorded(r)
    BY <2>1, <2>3, NoNewSender
  <2>4. CASE leave_checkpoint(r)
    BY <2>2, <2>3, <2>4 DEF leave_checkpoint
  <2>5. CASE qa_result(r)
    <3>1. PICK d : Decide(r, "settle", d)
      BY <2>5 DEF qa_result
    <3> QED BY <2>2, <3>1
  <2>6. CASE cancel_signal(r)
    BY <2>2, <2>3, <2>6 DEF cancel_signal
  <2> QED BY <1>4, <2>4, <2>5, <2>6
<1>5. CASE read_active_run(r) \/ dispatch_anonymous(r)
  <2>1. posted' = posted
    BY <1>5 DEF read_active_run, dispatch_anonymous, Quiet
  <2>2. KeepsEvents(r) /\ req'[r].pc \notin {"post", "resume_post"}
    BY <1>1, <1>5
       DEF read_active_run, dispatch_anonymous, AfterDispatch, KeepsEvents, Ev, RequestState
  <2> QED BY <2>1, <2>2, NoNewSender
<1>6. CASE read_paused_and_branch(r)
  <2>1. posted' = posted
    BY <1>6 DEF read_paused_and_branch, history
  <2>2. KeepsEvents(r) /\ req'[r].pc \notin {"post", "resume_post"}
    BY <1>1, <1>6 DEF read_paused_and_branch, KeepsEvents, Ev, RequestState
  <2> QED BY <2>1, <2>2, NoNewSender
<1>7. CASE post_dispatch(r) \/ post_resume(r)
  <2>1. posted' = posted \cup {r} /\ r \in Senders
    BY <1>7 DEF post_dispatch, post_resume, At, Senders
  <2>2. KeepsEvents(r) /\ req'[r].pc \notin {"post", "resume_post"}
    <3>1. ASSUME NEW pc \in {"sent", "resume_sent"}, NEW run,
                 req' = [req EXCEPT ![r].pc = pc, ![r].run = run]
          PROVE  KeepsEvents(r) /\ req'[r].pc \notin {"post", "resume_post"}
      BY <1>1, <3>1 DEF KeepsEvents, Ev, RequestState
    <3>2. \A pc : Goto(r, pc) => KeepsEvents(r) /\ req'[r].pc = pc
      OBVIOUS
    <3>3. CASE post_dispatch(r)
      <4>1. \/ Goto(r, "sent")
            \/ req' = [req EXCEPT ![r].pc = "sent", ![r].run = N8n(r)]
        BY <3>3 DEF post_dispatch
      <4> QED BY <3>1, <3>2, <4>1
    <3>4. CASE post_resume(r)
      <4>1. \/ Goto(r, "resume_sent")
            \/ \E run : req' = [req EXCEPT ![r].pc = "resume_sent", ![r].run = run]
        BY <3>4 DEF post_resume
      <4> QED BY <3>1, <3>2, <4>1
    <3> QED BY <1>7, <3>3, <3>4
  <2> QED BY <2>1, <2>2, NoNewSender
<1>8. CASE acquire_lock(r) \/ resume_record(r)
  <2>1. posted' = posted
    BY <1>8 DEF acquire_lock, resume_record, record_operator_event, Quiet
  <2>2. CASE Recorded(Ev(r))
    <3>1. KeepsEvents(r) /\ req'[r].pc \notin {"post", "resume_post"}
      BY <1>8, <2>2 DEF acquire_lock, resume_record, record_operator_event, LockDecision
    <3> QED BY <2>1, <3>1, NoNewSender
  <2>3. CASE ~Recorded(Ev(r))
    <3>1. /\ Ev(r) \in Event /\ req[r].at \in Nat
      BY <1>8, RequestFacts DEF acquire_lock, resume_record, At
    <3>2. \A d \in Decision : [decision |-> d, at |-> req[r].at] \in ProcessedRow
      BY <3>1 DEF ProcessedRow
    <3>3. "pending" \in Decision /\ LockDecision(Ev(r), req[r].at) \in Decision
      BY DEF Decision, LockDecision
    <3>4. LockDecision(Ev(r), req[r].at) \in {"stale_event", "reject_active_run", "dispatch"}
      BY <2>3 DEF LockDecision
    <3>5. KeepsEvents(r)
      BY <1>8, <3>4 DEF acquire_lock, resume_record, record_operator_event
    <3>6. processed_events'[Ev(r)] # None
      <4>1. CASE acquire_lock(r)
        BY <3>1, <3>2, <3>3, <3>4, <4>1, NoneIsNoValue
           DEF acquire_lock, record_event_and_acquire_lock, Inv, TypeOK, StoreTypeOK
      <4>2. CASE resume_record(r)
        BY <2>3, <3>1, <3>2, <3>3, <4>2, NoneIsNoValue
           DEF resume_record, record_operator_event, record_processed_event,
               Inv, TypeOK, StoreTypeOK
      <4> QED BY <1>8, <4>1, <4>2
    <3>7. Recorded(Ev(r))'
      BY <3>5, <3>6 DEF Recorded, KeepsEvents
    <3> QED BY <2>1, <2>3, <3>5, <3>7 DEF SendsIfRecorded, Senders, KeepsEvents
  <2> QED BY <2>2, <2>3
<1> QED BY <1>2, <1>3, <1>4, <1>5, <1>6, <1>7, <1>8 DEF RequestStep

\* What any other step does to them.
LEMMA OthersSendNothing ==
    ASSUME Inv, [Next]_vars, \A r \in Request : ~RequestStep(r)
    PROVE  /\ posted' = posted
           /\ \A r \in Request : req[r].pc # "idle" => Ev(r)' = Ev(r)
           /\ \A r \in Request : req'[r].pc \in {"post", "resume_post"} => req'[r].pc = req[r].pc
<1>1. req \in [Request -> RequestState]
  BY DEF Inv, TypeOK
<1>2. ASSUME NEW e \in Event, receive(e)
      PROVE  /\ posted' = posted
             /\ \A r \in Request : req[r].pc # "idle" => Ev(r)' = Ev(r)
             /\ \A r \in Request : req'[r].pc \in {"post", "resume_post"} => req'[r].pc = req[r].pc
  <2>1. PICK r \in Unused : \E at :
          req' = [req EXCEPT ![r].pc = "get_active", ![r].event = e, ![r].at = at]
    BY <1>2 DEF receive
  <2>2. r \in Request /\ req[r].pc = "idle" /\ req'[r].pc = "get_active"
    BY <1>1, <2>1 DEF Unused, At, RequestState
  <2>3. \A s \in Request \ {r} : req'[s] = req[s]
    BY <1>1, <2>1
  <2>4. posted' = posted
    BY <1>2 DEF receive, history
  <2> QED BY <2>2, <2>3, <2>4 DEF Ev
<1>3. CASE crash
  <2>1. ASSUME NEW r \in Request
        PROVE  Ev(r)' = Ev(r) /\ (req'[r].pc \in {"post", "resume_post"} => req'[r].pc = req[r].pc)
    BY <1>1, <1>3 DEF crash, Ev, IdleRequest, Gone
  <2> QED BY <1>3, <2>1 DEF crash, history
<1>4. ASSUME UNCHANGED <<req, posted>>
      PROVE  /\ posted' = posted
             /\ \A r \in Request : req[r].pc # "idle" => Ev(r)' = Ev(r)
             /\ \A r \in Request : req'[r].pc \in {"post", "resume_post"} => req'[r].pc = req[r].pc
  BY <1>4 DEF Ev
<1>5. CASE UNCHANGED vars
  BY <1>4, <1>5 DEF vars
<1>6. ASSUME NEW p \in Reconciler, PassStep(p) PROVE UNCHANGED <<req, posted>>
  BY <1>6 DEF PassStep, history
<1>7. ASSUME NEW x \in Run, N8nStep(x) PROVE UNCHANGED <<req, posted>>
  BY <1>7 DEF N8nStep, run_finishes, run_returns, run_asks, run_times_out, OfN8n, history
<1>8. ASSUME NEW m \in callbacks, CallbackStep(m) \/ callback_lost(m)
      PROVE  UNCHANGED <<req, posted>>
  BY <1>8 DEF CallbackStep, callback_write, callback_lookup, callback_lost, callback_pause,
              callback_release, callback_clear, OfCallback
<1>9. ASSUME NEW t \in Task, OperatorStep(t) PROVE UNCHANGED <<req, posted>>
  BY <1>9 DEF OperatorStep, history
<1> QED BY <1>2, <1>3, <1>4, <1>5, <1>6, <1>7, <1>8, <1>9 DEF Next

LEMMA OnceStep == Inv /\ OnceInv /\ [Next]_vars => OnceInv'
<1> SUFFICES ASSUME Inv, OnceInv, [Next]_vars
             PROVE  OnceInv'
  OBVIOUS
<1>1. Senders \subseteq Request /\ \A r \in Senders : req[r].pc # "idle" /\ Ev(r) \in Event
  BY RequestFacts DEF Senders, Inv, TypeOK, Attached
<1>2. \A e \in Event : Recorded(e) => Recorded(e)'
  BY NextInv, RecordedStays DEF Inv, TypeOK, StoreInv
<1>3. ASSUME NEW r \in Request, RequestStep(r)
      PROVE  OnceInv'
  <2>1. SendsIfRecorded(r)
    BY <1>3, RequestSends
  <2>2. CASE Senders' \subseteq Senders
    BY <1>1, <1>2, <2>1, <2>2 DEF OnceInv, SendsIfRecorded, Recorded
  <2>3. CASE r \in Senders' \ Senders
    <3>1. \A s \in Senders : Ev(s) # Ev(r)
      BY <2>1, <2>3 DEF OnceInv, SendsIfRecorded
    <3> QED BY <1>1, <1>2, <2>1, <2>3, <3>1 DEF OnceInv, SendsIfRecorded, Recorded
  <2> QED BY <2>1, <2>2, <2>3 DEF SendsIfRecorded
<1>4. CASE \A r \in Request : ~RequestStep(r)
  <2>1. /\ Senders' \subseteq Senders
        /\ \A r \in Senders' : Ev(r)' = Ev(r)
    BY <1>1, <1>4, OthersSendNothing DEF Senders
  <2> QED BY <1>1, <1>2, <2>1 DEF OnceInv, Recorded
<1> QED BY <1>3, <1>4

\* However often an event is delivered, however the requests interleave and
\* wherever the service crashes, it is sent to n8n at most once.
THEOREM SentOnce == Spec => []DispatchedOnce
<1>1. Init => OnceInv
  BY DEF Init, OnceInv, Senders, IdleRequest
<1>2. OnceInv => DispatchedOnce
  BY DEF OnceInv, Senders, DispatchedOnce
<1> QED BY <1>1, <1>2, InitInv, NextInv, OnceStep, PTL DEF Spec

-----------------------------------------------------------------------------
(* What becomes of a decision and of the lock that was taken with it.
   DecisionSettled and LeaksAreKnown need to know who may still write the row
   of an event: one request, and until it has written, the row says pending
   or dispatch. *)

Operating ==
    {"resume_post", "resume_sent", "resume_clear", "cancel_post", "cancel_release",
     "cancel_clear"}
Owning ==
    Operating \cup
    {"mark", "outcome_gate", "post", "sent", "outcome_dispatch", "qa", "settle"}
Writing == Owning \cup {"outcome_row"}
Early ==
    {"idle", "get_active", "get_paused", "checkpoint", "lock", "post", "sent",
     "resume_record", "resume_post", "resume_sent", "outcome_gate"}

Known == {"reject_missing_metadata", "schema_mismatch"}
ByOperator == {"input_resumed", "cancelled_by_operator"}

\* What a request has decided, and which run it knows, where it is.
Labels(q) ==
    /\ q.pc = "mark" => q.decision \in ByOperator \cup {"reject_missing_metadata"}
    /\ q.pc = "outcome_gate" => q.decision \in GateRefusal
    /\ q.pc = "settle" => q.decision \in QaDecision \cup {"schema_mismatch"}
    /\ q.pc \in Early => q.run \in NamedRun \cup {None}

OwnInv ==
    /\ \A r \in Request : Labels(req[r])
    /\ \A r \in Request : req[r].pc \in Writing => Recorded(Ev(r))
    /\ \A r1, r2 \in Request :
         req[r1].pc \in Writing /\ req[r2].pc \in Writing /\ Ev(r1) = Ev(r2) => r1 = r2
    /\ \A r \in Request :
         req[r].pc \in Owning => processed_events[Ev(r)].decision \in {"pending", "dispatch"}

\* The lock is still under the provisional id of event e.
Locked(e) == RunningAs(TaskOf[e], Pending(e))

\* A request that acts for an operator has no lock of its own.
Operator(r) ==
    \/ req[r].pc \in Operating
    \/ req[r].pc = "mark" /\ req[r].decision \in ByOperator

\* A request on which the lock of its event depends, or depended.
Answers(r) ==
    \/ r \in posted
    \/ req[r].pc \in {"dead", "post", "outcome_gate"}
    \/ req[r].pc = "mark" /\ req[r].decision = "reject_missing_metadata"

Accounted(e) ==
    \/ processed_events[e].decision \in Known
    \/ /\ processed_events[e].decision = "dispatch"
       /\ \E r \in Request : Ev(r) = e /\ Answers(r)

Provisional ==
    \A t \in Task, e \in Event :
        active_task_runs[t] # None /\ active_task_runs[t].run_id = Pending(e) =>
            active_task_runs[t].event_id = e

LeakInv ==
    /\ Provisional
    /\ \A r \in Request : Operator(r) => ~Locked(Ev(r))
    /\ \A e \in Event : Locked(e) => Accounted(e)

\* What a step may do to the locks, unless it takes one: nothing, end one, or
\* give one the name n8n uses.
LocksFall ==
    \A t \in Task :
        \/ active_task_runs'[t] = active_task_runs[t]
        \/ /\ active_task_runs[t] # None
           /\ active_task_runs'[t].event_id = active_task_runs[t].event_id
           /\ \/ /\ active_task_runs'[t].state # "running"
                 /\ active_task_runs'[t].run_id = active_task_runs[t].run_id
              \/ active_task_runs'[t].run_id \in NamedRun

LEMMA PendingIsNotNamed ==
    /\ \A e \in Event : Pending(e) \notin NamedRun
    /\ \A e, f \in Event : Pending(e) = Pending(f) => e = f
  BY DEF Pending, NamedRun, N8n

LEMMA LocksFallKeep ==
    ASSUME Inv, Inv', LocksFall
    PROVE  /\ Provisional => Provisional'
           /\ \A e \in Event : Locked(e)' => Locked(e)
<1>1. Provisional => Provisional'
  BY PendingIsNotNamed DEF Provisional, LocksFall
<1>2. \A e \in Event : Locked(e)' => Locked(e)
  BY PendingIsNotNamed, TaskOfType DEF Locked, RunningAs, Running, LocksFall
<1> QED BY <1>1, <1>2

LEMMA MethodsLetLocksFall ==
    ASSUME Inv, NEW t \in Task
    PROVE  /\ active_task_runs' = active_task_runs => LocksFall
           /\ \A run \in RunId, final \in {"released", "stale"} :
                release_active_run(t, run, final) => LocksFall
           /\ \A run \in RunId, new \in NamedRun :
                set_active_run_id(t, run, new) => LocksFall
           /\ \A e \in Event, d \in Decision, run \in RunId :
                persist_terminal_decision(t, e, d, run) => LocksFall
<1> USE DEF LocksFall, Inv, TypeOK, StoreTypeOK, Running, RunningAs, ActiveRow
<1>1. active_task_runs' = active_task_runs => LocksFall
  OBVIOUS
<1>2. \A run \in RunId, final \in {"released", "stale"} :
        release_active_run(t, run, final) => LocksFall
  BY DEF release_active_run
<1>3. \A run \in RunId, new \in NamedRun : set_active_run_id(t, run, new) => LocksFall
  BY DEF set_active_run_id
<1>4. \A e \in Event, d \in Decision, run \in RunId :
        persist_terminal_decision(t, e, d, run) => LocksFall
  BY DEF persist_terminal_decision, storeVars
<1> QED BY <1>1, <1>2, <1>3, <1>4

-----------------------------------------------------------------------------
(* The three things a step of a request does to the row of its event *)

Reads(r) ==
    /\ UNCHANGED processed_events
    /\ LocksFall
    /\ req'[r].pc \in Writing => req[r].pc \in Writing
    /\ req'[r].pc \in Owning => req[r].pc \in Owning
    /\ Operator(r)' => Operator(r)
    /\ Answers(r) /\ ~Answers(r)' => ~Locked(Ev(r))

Inserts(r) ==
    /\ ~Recorded(Ev(r))
    /\ \E d \in {"pending", "dispatch", "stale_event", "reject_active_run"} :
         /\ processed_events' =
              [processed_events EXCEPT ![Ev(r)] = [decision |-> d, at |-> req[r].at]]
         /\ d \in {"stale_event", "reject_active_run"} => req'[r].pc = "outcome_row"
         /\ IF d = "dispatch"
            THEN /\ active_task_runs' =
                      [active_task_runs EXCEPT ![Tk(r)] =
                         [run_id |-> Pending(Ev(r)), event_id |-> Ev(r), state |-> "running"]]
                 /\ Answers(r)' /\ ~Operator(r)'
            ELSE UNCHANGED active_task_runs

Settles(r) ==
    /\ req[r].pc \in Writing
    /\ req'[r].pc \in {"done", "outcome_row"}
    /\ LocksFall
    /\ \E d \in Decision \ {"pending", "dispatch"} :
         /\ processed_events' = [processed_events EXCEPT ![Ev(r)].decision = d]
         /\ req[r].pc = "outcome_row" => d = "schema_mismatch"
         /\ RunningAs(Tk(r), Pending(Ev(r)))' => d \in Known

Effect(r) ==
    /\ KeepsEvents(r)
    /\ Labels(req'[r])
    /\ posted \subseteq posted'
    /\ Reads(r) \/ Inserts(r) \/ Settles(r)

LEMMA HelpersLabel ==
    ASSUME Inv, NEW r \in Request
    PROVE  /\ \A pc : Goto(r, pc) =>
                /\ req'[r].run = req[r].run /\ req'[r].decision = req[r].decision
           /\ \A pc, d : Decide(r, pc, d) =>
                req'[r].run = req[r].run /\ req'[r].decision = d
           /\ \A d : Reply(r, d) => Labels(req'[r])
<1>1. req \in [Request -> RequestState]
  BY DEF Inv, TypeOK
<1>2. ASSUME NEW pc, Goto(r, pc)
      PROVE  req'[r].run = req[r].run /\ req'[r].decision = req[r].decision
  BY <1>1, <1>2 DEF Goto, RequestState
<1>3. ASSUME NEW pc, NEW d, Decide(r, pc, d)
      PROVE  req'[r].run = req[r].run /\ req'[r].decision = d
  BY <1>1, <1>3 DEF Decide, RequestState
<1>4. ASSUME NEW d, Reply(r, d) PROVE Labels(req'[r])
  BY <1>1, <1>4 DEF Reply, RequestState, Labels, Early
<1> QED BY <1>2, <1>3, <1>4

\* A reply that changes no table.
LEMMA QuietReply ==
    ASSUME Inv, OwnInv, NEW r \in Request, NEW d, Reply(r, d), UNCHANGED storeVars,
           posted' = posted, Answers(r) => r \in posted \/ ~Locked(Ev(r))
    PROVE  Effect(r)
<1>1. KeepsEvents(r) /\ req'[r].pc = "done" /\ Labels(req'[r])
  BY HelpersKeepEvents, HelpersLabel
<1>2. LocksFall
  BY DEF LocksFall, storeVars
<1>3. Reads(r)
  BY <1>1, <1>2 DEF Reads, storeVars, Writing, Owning, Operating, Operator, Answers
<1> QED BY <1>1, <1>3 DEF Effect

\* A terminal decision that is persisted with the release of the lock.
LEMMA Persists ==
    ASSUME Inv, OwnInv, NEW r \in Request,
           req[r].pc \in {"outcome_gate", "sent", "outcome_dispatch", "qa", "settle"},
           NEW d \in Decision \ {"pending", "dispatch"}, NEW run \in RunId,
           persist_terminal_decision(Tk(r), Ev(r), d, run),
           req[r].pc = "outcome_gate" => run = Pending(Ev(r)),
           KeepsEvents(r), Labels(req'[r]), posted' = posted,
           req'[r].pc \in {"done", "outcome_row"}
    PROVE  Effect(r)
<1>1. /\ Ev(r) \in Event /\ Tk(r) \in Task /\ Recorded(Ev(r)) /\ TaskOf[Ev(r)] = Tk(r)
  BY RequestFacts DEF OwnInv, Writing, Owning
<1>2. LocksFall
  BY <1>1, MethodsLetLocksFall
<1>3. CASE RunningAs(Tk(r), run)
  <2>1. processed_events' = [processed_events EXCEPT ![Ev(r)].decision = d]
    BY <1>1, <1>3 DEF persist_terminal_decision
  <2>2. ~RunningAs(Tk(r), Pending(Ev(r)))'
    <3>1. active_task_runs[Tk(r)] \in ActiveRow
      BY <1>1, <1>3 DEF Inv, TypeOK, StoreTypeOK, RunningAs, Running
    <3>2. active_task_runs'[Tk(r)].state = "released"
      BY <1>1, <1>3, <3>1 DEF persist_terminal_decision, Inv, TypeOK, StoreTypeOK, ActiveRow
    <3>3. TaskOf[Ev(r)]' = Tk(r)
      BY <1>1 DEF KeepsEvents
    <3>4. ASSUME NEW run2 PROVE ~(active_task_runs'[Tk(r)] # None
                  /\ active_task_runs'[Tk(r)].state = "running")
      BY <3>2
    <3> QED BY <1>1, <3>3, <3>4 DEF RunningAs, Running, KeepsEvents, Tk
  <2>3. Settles(r)
    BY <1>2, <2>1, <2>2 DEF Settles, Writing, Owning
  <2> QED BY <2>3 DEF Effect
<1>4. CASE ~RunningAs(Tk(r), run)
  <2>1. UNCHANGED storeVars
    BY <1>4 DEF persist_terminal_decision
  <2>2. req[r].pc = "outcome_gate" => ~Locked(Ev(r))
    BY <1>1, <1>4 DEF Locked
  <2>3. Answers(r) /\ ~Answers(r)' => ~Locked(Ev(r))
    BY <2>2 DEF Answers, Writing, Owning, Operating
  <2>4. Reads(r)
    BY <1>2, <2>1, <2>3 DEF Reads, storeVars, Writing, Owning, Operating, Operator
  <2> QED BY <2>4 DEF Effect
<1> QED BY <1>3, <1>4

\* The decision is updated, the lock is not touched.
LEMMA Updates ==
    ASSUME Inv, OwnInv, NEW r \in Request, req[r].pc \in Writing,
           NEW d \in Decision \ {"pending", "dispatch"},
           update_processed_event_decision(Ev(r), d),
           req[r].pc = "outcome_row" => d = "schema_mismatch",
           d \in Known \/ ~Locked(Ev(r)),
           KeepsEvents(r), Labels(req'[r]), posted' = posted,
           req'[r].pc \in {"done", "outcome_row"}
    PROVE  Effect(r)
<1>1. /\ Ev(r) \in Event /\ Tk(r) \in Task /\ Recorded(Ev(r)) /\ TaskOf[Ev(r)] = Tk(r)
  <2>1. req[r].pc # "idle"
    BY DEF Writing, Owning, Operating
  <2> QED BY <2>1, RequestFacts DEF OwnInv
<1>2. /\ LocksFall /\ active_task_runs' = active_task_runs
      /\ processed_events' = [processed_events EXCEPT ![Ev(r)].decision = d]
  BY <1>1 DEF update_processed_event_decision, LocksFall
<1>3. RunningAs(Tk(r), Pending(Ev(r)))' => Locked(Ev(r))
  BY <1>1, <1>2 DEF Locked, RunningAs, Running, KeepsEvents, Tk
<1> QED BY <1>2, <1>3 DEF Settles, Effect

\* A step that changes no row and leads to no step that would write one.
LEMMA Passes ==
    ASSUME Inv, OwnInv, NEW r \in Request, KeepsEvents(r), Labels(req'[r]), LocksFall,
           UNCHANGED processed_events, posted \subseteq posted',
           req[r].pc \notin {"mark", "outcome_gate", "dead"}, req[r].pc = "post" => r \in posted',
           req'[r].pc # "mark" \/ (/\ req[r].pc \in Operating
                                  /\ req'[r].decision \in ByOperator),
           \/ req'[r].pc \notin Writing
           \/ req'[r].pc \in Operating /\ req[r].pc \in Operating
           \/ req'[r].pc \notin Operating /\ req[r].pc \in Owning
    PROVE  Effect(r)
<1>1. r \in posted => r \in posted'
  OBVIOUS
<1>2. Answers(r) => Answers(r)'
  BY <1>1 DEF Answers
<1>3. Operator(r)' => Operator(r)
  BY DEF Operator, Operating, Writing, Owning
<1>4. Reads(r)
  BY <1>2, <1>3 DEF Reads, Writing, Owning
<1> QED BY <1>4 DEF Effect

LEMMA UnrecordedIsUnlocked ==
    ASSUME Inv, Provisional, NEW e \in Event, Locked(e)
    PROVE  Recorded(e)
  BY TaskOfType DEF Locked, RunningAs, Running, Provisional, Inv, LockTracesToEvent

\* The first step of a resume or a cancellation inserts the event.
LEMMA OperatorEffect ==
    ASSUME Inv, OwnInv, NEW r \in Request, req[r].pc \in {"resume_record", "cancel_record"},
           NEW next \in {"resume_post", "cancel_post", "mark"}, NEW d,
           next = "mark" => d = "reject_missing_metadata",
           next = "resume_post" => req[r].pc = "resume_record",
           record_operator_event(r, next, d)
    PROVE  Effect(r)
<1>1. posted' = posted
  BY DEF record_operator_event, Quiet
<1>2. Ev(r) \in Event /\ req[r].at \in Nat
  BY RequestFacts
<1>3. CASE Recorded(Ev(r))
  <2>1. Reply(r, "skip_duplicate") /\ UNCHANGED storeVars
    BY <1>3 DEF record_operator_event, record_processed_event, storeVars
  <2> QED BY <1>1, <2>1, QuietReply DEF Answers
<1>4. CASE ~Recorded(Ev(r))
  <2>1. Decide(r, next, d)
    BY <1>4 DEF record_operator_event
  <2>2. /\ KeepsEvents(r) /\ req'[r].pc = next
        /\ req'[r].run = req[r].run /\ req'[r].decision = d
    BY <2>1, HelpersKeepEvents, HelpersLabel
  <2>3. Labels(req'[r])
    BY <2>2 DEF OwnInv, Labels, Early
  <2>4. Inserts(r)
    BY <1>4 DEF Inserts, record_operator_event, record_processed_event
  <2> QED BY <1>1, <2>2, <2>3, <2>4 DEF Effect
<1> QED BY <1>3, <1>4

LEMMA AcquireEffect ==
    ASSUME Inv, OwnInv, NEW r \in Request, acquire_lock(r)
    PROVE  Effect(r)
<1> DEFINE d == LockDecision(Ev(r), req[r].at)
<1>1. posted' = posted /\ req[r].pc = "lock"
  BY DEF acquire_lock, Quiet, At
<1>2. Ev(r) \in Event /\ Tk(r) \in Task /\ req[r].at \in Nat /\ Body(r) \in Payload
      /\ TaskOf[Ev(r)] = Tk(r)
  BY <1>1, RequestFacts
<1>3. CASE Recorded(Ev(r))
  <2>1. d = "skip_duplicate"
    BY <1>3 DEF LockDecision
  <2>2. Reply(r, "skip_duplicate") /\ UNCHANGED storeVars
    BY <2>1 DEF acquire_lock, record_event_and_acquire_lock, storeVars
  <2> QED BY <1>1, <2>2, QuietReply DEF Answers
<1>4. CASE ~Recorded(Ev(r))
  <2>1. d \in {"stale_event", "reject_active_run", "dispatch"}
    BY <1>4 DEF LockDecision
  <2>2. processed_events' =
          [processed_events EXCEPT ![Ev(r)] = [decision |-> d, at |-> req[r].at]]
    BY <2>1 DEF acquire_lock, record_event_and_acquire_lock
  <2>3. req[r].run \in NamedRun \cup {None}
    BY <1>1 DEF OwnInv, Labels, Early
  <2>4. CASE d \in {"stale_event", "reject_active_run"}
    <3>1. Decide(r, "outcome_row", d) /\ UNCHANGED active_task_runs
      BY <2>4 DEF acquire_lock, record_event_and_acquire_lock
    <3>2. KeepsEvents(r) /\ req'[r].pc = "outcome_row" /\ Labels(req'[r])
      BY <3>1, HelpersKeepEvents DEF Labels, Early
    <3>3. Inserts(r)
      BY <1>4, <2>2, <2>4, <3>1, <3>2 DEF Inserts
    <3> QED BY <1>1, <3>2, <3>3 DEF Effect
  <2>5. CASE d = "dispatch"
    <3>1. active_task_runs' =
            [active_task_runs EXCEPT ![Tk(r)] =
               [run_id |-> Pending(Ev(r)), event_id |-> Ev(r), state |-> "running"]]
      BY <1>2, <2>5 DEF acquire_lock, record_event_and_acquire_lock
    <3>2. \/ Decide(r, "mark", "reject_missing_metadata")
          \/ Decide(r, "outcome_gate", Body(r).gate) /\ Body(r).gate # "dispatch"
          \/ Goto(r, "post")
      BY <2>5 DEF acquire_lock
    <3>3. /\ KeepsEvents(r) /\ req'[r].run = req[r].run
          /\ \/ req'[r].pc = "mark" /\ req'[r].decision = "reject_missing_metadata"
             \/ /\ req'[r].pc = "outcome_gate"
                /\ req'[r].decision = Body(r).gate /\ Body(r).gate # "dispatch"
             \/ req'[r].pc = "post"
      BY <3>2, HelpersKeepEvents, HelpersLabel
    <3>4. Labels(req'[r])
      BY <1>2, <2>3, <3>3 DEF Labels, Early, Payload
    <3>5. Answers(r)' /\ ~Operator(r)'
      BY <3>3 DEF Answers, Operator, Operating, ByOperator
    <3>6. Inserts(r)
      BY <1>4, <2>2, <2>5, <3>1, <3>5 DEF Inserts
    <3> QED BY <1>1, <3>3, <3>4, <3>6 DEF Effect
  <2> QED BY <2>1, <2>4, <2>5
<1> QED BY <1>3, <1>4

LEMMA DecidingEffect ==
    ASSUME Inv, OwnInv, LeakInv, NEW r \in Request,
           \/ outcome_only(r) \/ mark(r) \/ outcome_row(r) \/ outcome_gate(r)
           \/ dispatch_failed(r) \/ outcome_dispatch(r) \/ qa_invalid(r) \/ settle(r)
           \/ resume_failed(r)
    PROVE  Effect(r)
<1>0. req \in [Request -> RequestState] /\ RequestOK(req[r]) /\ Labels(req[r])
  BY DEF Inv, TypeOK, Attached, OwnInv
<1>1. req[r].pc # "idle"
  BY DEF At, outcome_only, mark, outcome_row, outcome_gate, dispatch_failed, outcome_dispatch,
         qa_invalid, settle, resume_failed
<1>2. Ev(r) \in Event /\ Pending(Ev(r)) \in RunId
  BY <1>1, RequestFacts
<1>3. posted' = posted
  BY DEF outcome_only, mark, outcome_row, outcome_gate, dispatch_failed, outcome_dispatch,
         qa_invalid, settle, resume_failed, Quiet
<1>4. /\ {"schema_mismatch", "dispatch_failed", "reject_missing_metadata"} \cup ByOperator
           \cup GateRefusal \cup QaDecision \subseteq Decision \ {"pending", "dispatch"}
      /\ "schema_mismatch" \in Known /\ "reject_missing_metadata" \in Known
  BY DEF Decision, ByOperator, GateRefusal, QaDecision, Known
<1>5. \A d : Reply(r, d) =>
        KeepsEvents(r) /\ req'[r].pc = "done" /\ Labels(req'[r])
  BY HelpersKeepEvents, HelpersLabel
<1>6. ASSUME NEW d, Decide(r, "outcome_row", d) \/ Goto(r, "outcome_row")
      PROVE  KeepsEvents(r) /\ req'[r].pc = "outcome_row" /\ Labels(req'[r])
  <2>1. KeepsEvents(r) /\ req'[r].pc = "outcome_row"
    BY <1>6, HelpersKeepEvents
  <2> QED BY <2>1 DEF Labels, Early
<1> USE DEF At
<1>7. CASE outcome_only(r)
  <2>1. UNCHANGED storeVars /\ \E d : Reply(r, d)
    BY <1>7 DEF outcome_only
  <2> QED BY <1>3, <1>7, <2>1, QuietReply DEF outcome_only, Answers
<1>8. CASE mark(r)
  <2>1. /\ req[r].decision \in ByOperator \cup {"reject_missing_metadata"}
        /\ req[r].decision \in Known \/ ~Locked(Ev(r))
    BY <1>0, <1>4, <1>8 DEF mark, Labels, LeakInv, Operator
  <2> QED BY <1>3, <1>4, <1>6, <1>8, <2>1, Updates DEF mark, Writing, Owning
<1>9. CASE outcome_row(r)
  <2>1. CASE Reply(r, req[r].decision) /\ UNCHANGED storeVars
    BY <1>3, <1>9, <2>1, QuietReply DEF outcome_row, Answers
  <2>2. CASE /\ update_processed_event_decision(Ev(r), "schema_mismatch")
             /\ Reply(r, "schema_mismatch")
    BY <1>3, <1>4, <1>5, <1>9, <2>2, Updates DEF outcome_row, Writing
  <2> QED BY <1>9, <2>1, <2>2 DEF outcome_row
<1>10. CASE outcome_gate(r)
  <2>1. CASE /\ persist_terminal_decision(Tk(r), Ev(r), req[r].decision, Pending(Ev(r)))
             /\ Reply(r, req[r].decision)
    <3>1. req[r].decision \in GateRefusal
      BY <1>0, <1>10 DEF outcome_gate, Labels
    <3> QED BY <1>2, <1>3, <1>4, <1>5, <1>10, <2>1, <3>1, Persists DEF outcome_gate
  <2>2. CASE /\ update_processed_event_decision(Ev(r), "schema_mismatch")
             /\ Reply(r, "schema_mismatch")
    BY <1>3, <1>4, <1>5, <1>10, <2>2, Updates DEF outcome_gate, Writing, Owning
  <2> QED BY <1>10, <2>1, <2>2 DEF outcome_gate
<1>11. CASE dispatch_failed(r)
  BY <1>2, <1>3, <1>4, <1>6, <1>11, Persists DEF dispatch_failed
<1>12. CASE outcome_dispatch(r)
  <2>1. CASE Reply(r, "dispatch") /\ UNCHANGED storeVars
    BY <1>3, <1>12, <2>1, QuietReply DEF outcome_dispatch, Answers
  <2>2. CASE /\ persist_terminal_decision(Tk(r), Ev(r), "schema_mismatch", req[r].run)
             /\ Reply(r, "schema_mismatch")
    <3>1. req[r].run \in RunId
      BY <1>0, <1>12 DEF outcome_dispatch, RequestOK, Dispatched
    <3> QED BY <1>3, <1>4, <1>5, <1>12, <2>2, <3>1, Persists DEF outcome_dispatch
  <2> QED BY <1>12, <2>1, <2>2 DEF outcome_dispatch
<1>13. CASE qa_invalid(r)
  <2>1. req[r].run \in RunId
    BY <1>0, <1>13 DEF qa_invalid, RequestOK, Dispatched
  <2> QED BY <1>3, <1>4, <1>5, <1>13, <2>1, Persists DEF qa_invalid
<1>14. CASE settle(r)
  <2>1. req[r].run \in RunId /\ req[r].decision \in QaDecision \cup {"schema_mismatch"}
    BY <1>0, <1>14 DEF settle, RequestOK, Dispatched, Labels
  <2> QED BY <1>3, <1>4, <1>5, <1>14, <2>1, Persists DEF settle
<1>15. CASE resume_failed(r)
  <2>1. ~Locked(Ev(r))
    BY <1>15 DEF resume_failed, LeakInv, Operator, Operating
  <2> QED BY <1>3, <1>4, <1>6, <1>15, <2>1, Updates
          DEF resume_failed, Writing, Owning, Operating
<1> QED BY <1>7, <1>8, <1>9, <1>10, <1>11, <1>12, <1>13, <1>14, <1>15

\* The names a step moves to.
LEMMA Names ==
    /\ {"get_paused", "outcome_only", "checkpoint", "lock", "resume_record", "cancel_record"}
         \cap (Writing \cup {"mark", "outcome_gate", "dead"}) = {}
    /\ {"sent", "outcome_dispatch", "qa", "settle"} \cap Operating = {}
    /\ {"post", "sent", "outcome_dispatch", "qa"} \cup Operating \subseteq Owning
  BY DEF Writing, Owning, Operating

LEMMA QuietPassing ==
    ASSUME Inv, OwnInv, NEW r \in Request,
           \/ read_active_run(r) \/ read_paused_and_branch(r) \/ leave_checkpoint(r)
           \/ post_dispatch(r) \/ dispatch_anonymous(r) \/ qa_result(r) \/ cancel_signal(r)
    PROVE  Effect(r)
<1>0. req \in [Request -> RequestState] /\ RequestOK(req[r]) /\ Labels(req[r])
  BY DEF Inv, TypeOK, Attached, OwnInv
<1>1. /\ UNCHANGED storeVars /\ posted \subseteq posted'
  BY DEF read_active_run, read_paused_and_branch, leave_checkpoint, post_dispatch,
         dispatch_anonymous, qa_result, cancel_signal, Quiet, QuietButPost, history
<1>2. LocksFall /\ UNCHANGED processed_events
  BY <1>1 DEF LocksFall, storeVars
<1> USE DEF At
<1>3. CASE read_active_run(r)
  <2>1. KeepsEvents(r) /\ req'[r].pc = "get_paused" /\ req'[r].run = req[r].run
    BY <1>0, <1>3 DEF read_active_run, KeepsEvents, Ev, RequestState
  <2>2. Labels(req'[r])
    BY <1>0, <1>3, <2>1 DEF read_active_run, Labels, Early
  <2> QED BY <1>1, <1>2, <1>3, <2>1, <2>2, Names, Passes DEF read_active_run
<1>4. CASE read_paused_and_branch(r)
  <2>1. /\ KeepsEvents(r) /\ req'[r].run = req[r].run
        /\ req'[r].pc \in {"outcome_only", "checkpoint", "lock", "resume_record",
                           "cancel_record"}
    BY <1>0, <1>4 DEF read_paused_and_branch, KeepsEvents, Ev, RequestState
  <2>2. Labels(req'[r])
    BY <1>0, <1>4, <2>1 DEF read_paused_and_branch, Labels, Early
  <2> QED BY <1>1, <1>2, <1>4, <2>1, <2>2, Names, Passes DEF read_paused_and_branch
<1>5. CASE leave_checkpoint(r)
  <2>1. /\ KeepsEvents(r) /\ req'[r].run = req[r].run
        /\ req'[r].pc \in {"outcome_only", "lock"}
    BY <1>5, HelpersKeepEvents, HelpersLabel DEF leave_checkpoint
  <2>2. Labels(req'[r])
    BY <1>0, <1>5, <2>1 DEF leave_checkpoint, Labels, Early
  <2> QED BY <1>1, <1>2, <1>5, <2>1, <2>2, Names, Passes DEF leave_checkpoint
<1>6. CASE post_dispatch(r)
  <2>1. CASE req' = [req EXCEPT ![r].pc = "sent", ![r].run = N8n(r)]
    <3>1. /\ KeepsEvents(r) /\ req'[r].pc = "sent" /\ req'[r].run = N8n(r)
      BY <1>0, <2>1 DEF KeepsEvents, Ev, RequestState
    <3>2. N8n(r) \in NamedRun
      BY DEF NamedRun, Request
    <3>3. Labels(req'[r])
      BY <3>1, <3>2 DEF Labels
    <3>4. r \in posted'
      BY <1>6 DEF post_dispatch
    <3> QED BY <1>1, <1>2, <1>6, <3>1, <3>3, <3>4, Names, Passes DEF post_dispatch
  <2>2. CASE Goto(r, "sent")
    <3>1. /\ KeepsEvents(r) /\ req'[r].pc = "sent" /\ req'[r].run = req[r].run
      BY <2>2, HelpersKeepEvents, HelpersLabel
    <3>2. Labels(req'[r])
      BY <1>0, <1>6, <3>1 DEF post_dispatch, Labels, Early
    <3>3. r \in posted'
      BY <1>6 DEF post_dispatch
    <3> QED BY <1>1, <1>2, <1>6, <3>1, <3>2, <3>3, Names, Passes DEF post_dispatch
  <2> QED BY <1>6, <2>1, <2>2 DEF post_dispatch
<1>7. CASE dispatch_anonymous(r)
  <2>1. KeepsEvents(r) /\ req'[r].pc \in {"qa", "outcome_dispatch"}
    BY <1>0, <1>7 DEF dispatch_anonymous, AfterDispatch, KeepsEvents, Ev, RequestState
  <2>2. Labels(req'[r])
    BY <2>1 DEF Labels, Early
  <2> QED BY <1>1, <1>2, <1>7, <2>1, <2>2, Names, Passes DEF dispatch_anonymous, Answered
<1>8. CASE qa_result(r)
  <2>1. \E d \in QaDecision \cup {"schema_mismatch"} : Decide(r, "settle", d)
    BY <1>8 DEF qa_result
  <2>2. /\ KeepsEvents(r) /\ req'[r].pc = "settle"
        /\ req'[r].decision \in QaDecision \cup {"schema_mismatch"}
    BY <2>1, HelpersKeepEvents, HelpersLabel
  <2>3. Labels(req'[r])
    BY <2>2 DEF Labels, Early
  <2> QED BY <1>1, <1>2, <1>8, <2>2, <2>3, Names, Passes DEF qa_result
<1>9. CASE cancel_signal(r)
  <2>1. KeepsEvents(r) /\ req'[r].pc = "cancel_release"
    BY <1>9, HelpersKeepEvents DEF cancel_signal
  <2>2. Labels(req'[r])
    BY <2>1 DEF Labels, Early
  <2> QED BY <1>1, <1>2, <1>9, <2>1, <2>2, Passes DEF cancel_signal, Operating
<1> QED BY <1>3, <1>4, <1>5, <1>6, <1>7, <1>8, <1>9

LEMMA StorePassing ==
    ASSUME Inv, OwnInv, NEW r \in Request,
           \/ dispatch_named(r) \/ resumed(r) \/ resume_clear(r) \/ post_resume(r)
           \/ cancel_release(r) \/ cancel_clear(r)
    PROVE  Effect(r)
<1>0. req \in [Request -> RequestState] /\ RequestOK(req[r]) /\ Labels(req[r])
  BY DEF Inv, TypeOK, Attached, OwnInv
<1> USE DEF At
<1>1. Ev(r) \in Event /\ Tk(r) \in Task /\ Pending(Ev(r)) \in RunId
  <2>1. req[r].pc # "idle"
    BY DEF dispatch_named, Answered, resumed, resume_clear, post_resume, cancel_release,
           cancel_clear
  <2> QED BY <2>1, RequestFacts
<1>2. UNCHANGED processed_events /\ posted \subseteq posted'
  BY DEF dispatch_named, resumed, resume_clear, post_resume, cancel_release, cancel_clear,
         set_active_run_id, clear_paused_run, release_active_run, Quiet, storeVars
<1>3. CASE dispatch_named(r)
  <2>1. req[r].run \in NamedRun
    BY <1>0, <1>3 DEF dispatch_named, Answered, Labels, Early
  <2>2. LocksFall
    BY <1>1, <1>3, <2>1, MethodsLetLocksFall DEF dispatch_named
  <2>3. KeepsEvents(r) /\ req'[r].pc \in {"qa", "outcome_dispatch"}
    BY <1>3, HelpersKeepEvents DEF dispatch_named, AfterDispatch
  <2>4. Labels(req'[r])
    BY <2>3 DEF Labels, Early
  <2> QED BY <1>2, <1>3, <2>2, <2>3, <2>4, Names, Passes DEF dispatch_named, Answered
<1>4. CASE resumed(r)
  <2>1. req[r].run \in NamedRun /\ req[r].paused.run_id \in RunId
    BY <1>0, <1>4 DEF resumed, Labels, Early, RequestOK, Resuming, PausedRow, RunId
  <2>2. LocksFall
    BY <1>1, <1>4, <2>1, MethodsLetLocksFall DEF resumed, storeVars
  <2>3. KeepsEvents(r) /\ req'[r].pc = "resume_clear"
    BY <1>4, HelpersKeepEvents DEF resumed
  <2>4. Labels(req'[r])
    BY <2>3 DEF Labels, Early
  <2> QED BY <1>2, <1>4, <2>2, <2>3, <2>4, Passes DEF resumed, Operating
<1>5. CASE resume_clear(r)
  <2>1. LocksFall
    BY <1>5 DEF resume_clear, clear_paused_run, LocksFall
  <2>2. /\ KeepsEvents(r) /\ req'[r].pc = "mark" /\ req'[r].decision = "input_resumed"
    BY <1>5, HelpersKeepEvents, HelpersLabel DEF resume_clear
  <2>3. Labels(req'[r])
    BY <2>2 DEF Labels, Early, ByOperator
  <2> QED BY <1>2, <1>5, <2>1, <2>2, <2>3, Passes
          DEF resume_clear, Operating, Owning, ByOperator
<1>6. CASE post_resume(r)
  <2> DEFINE x == req[r].paused.run_id[2]
  <2>1. LocksFall
    BY <1>6 DEF post_resume, storeVars, LocksFall
  <2>2. x \in Run
    <3>1. req[r].paused \in PausedRow
      BY <1>0, <1>6 DEF post_resume, RequestOK, Resuming
    <3>2. PICK y \in Run : req[r].paused.run_id = N8n(y)
      BY <3>1 DEF PausedRow, NamedRun
    <3> QED BY <3>2 DEF N8n
  <2>3. N8n(x) \in NamedRun /\ N8n(r) \in NamedRun
    BY <2>2 DEF NamedRun, Request
  <2>4. \/ Goto(r, "resume_sent")
        \/ req' = [req EXCEPT ![r].pc = "resume_sent", ![r].run = N8n(x)]
        \/ req' = [req EXCEPT ![r].pc = "resume_sent", ![r].run = N8n(r)]
    BY <1>6 DEF post_resume
  <2>5. ASSUME NEW run \in NamedRun,
               req' = [req EXCEPT ![r].pc = "resume_sent", ![r].run = run]
        PROVE  KeepsEvents(r) /\ req'[r].pc = "resume_sent" /\ req'[r].run \in NamedRun
    BY <1>0, <2>5 DEF KeepsEvents, Ev, RequestState
  <2>6. CASE Goto(r, "resume_sent")
    <3>1. KeepsEvents(r) /\ req'[r].pc = "resume_sent" /\ req'[r].run = req[r].run
      BY <2>6, HelpersKeepEvents, HelpersLabel
    <3>2. Labels(req'[r])
      BY <1>0, <1>6, <3>1 DEF post_resume, Labels, Early
    <3> QED BY <1>2, <1>6, <2>1, <3>1, <3>2, Passes DEF post_resume, Operating
  <2>7. CASE ~Goto(r, "resume_sent")
    <3>1. KeepsEvents(r) /\ req'[r].pc = "resume_sent" /\ req'[r].run \in NamedRun
      BY <2>3, <2>4, <2>5, <2>7
    <3>2. Labels(req'[r])
      BY <3>1 DEF Labels
    <3> QED BY <1>2, <1>6, <2>1, <3>1, <3>2, Passes DEF post_resume, Operating
  <2> QED BY <2>6, <2>7
<1>7. CASE cancel_release(r)
  <2>1. req[r].active.run_id \in RunId
    BY <1>0, <1>7 DEF cancel_release, RequestOK, Cancelling, ActiveRow
  <2>2. LocksFall
    BY <1>1, <1>7, <2>1, MethodsLetLocksFall DEF cancel_release
  <2>3. /\ KeepsEvents(r)
        /\ \/ req'[r].pc = "cancel_clear"
           \/ req'[r].pc = "mark" /\ req'[r].decision = "cancelled_by_operator"
    BY <1>7, HelpersKeepEvents, HelpersLabel DEF cancel_release
  <2>4. Labels(req'[r])
    BY <2>3 DEF Labels, Early, ByOperator
  <2> QED BY <1>2, <1>7, <2>2, <2>3, <2>4, Passes
          DEF cancel_release, Operating, Owning, ByOperator
<1>8. CASE cancel_clear(r)
  <2>1. LocksFall
    BY <1>8 DEF cancel_clear, clear_paused_run, LocksFall
  <2>2. /\ KeepsEvents(r) /\ req'[r].pc = "mark"
        /\ req'[r].decision = "cancelled_by_operator"
    BY <1>8, HelpersKeepEvents, HelpersLabel DEF cancel_clear
  <2>3. Labels(req'[r])
    BY <2>2 DEF Labels, Early, ByOperator
  <2> QED BY <1>2, <1>8, <2>1, <2>2, <2>3, Passes
          DEF cancel_clear, Operating, Owning, ByOperator
<1> QED BY <1>3, <1>4, <1>5, <1>6, <1>7, <1>8

LEMMA RequestEffect ==
    ASSUME Inv, OwnInv, LeakInv, NEW r \in Request, RequestStep(r)
    PROVE  Effect(r)
<1>1. CASE resume_record(r)
  BY <1>1, OperatorEffect DEF resume_record, At
<1>2. CASE cancel_record(r)
  BY <1>2, OperatorEffect DEF cancel_record, At
<1> QED BY <1>1, <1>2, DecidingEffect, AcquireEffect, QuietPassing, StorePassing
        DEF RequestStep

\* What any other step does.
LEMMA OtherEffect ==
    ASSUME Inv, [Next]_vars, \A r \in Request : ~RequestStep(r)
    PROVE  /\ UNCHANGED <<processed_events, posted>>
           /\ LocksFall
           /\ \A r \in Request :
                \/ req'[r] = req[r]
                \/ /\ req[r].pc = "idle" /\ req'[r].pc = "get_active"
                   /\ req'[r].run = req[r].run
                \/ /\ req[r].pc \notin Gone /\ req'[r].pc = "dead"
                   /\ req'[r].event = req[r].event
<1>0. req \in [Request -> RequestState]
  BY DEF Inv, TypeOK
<1>1. ASSUME NEW e \in Event, receive(e)
      PROVE  \A r \in Request :
               \/ req'[r] = req[r]
               \/ /\ req[r].pc = "idle" /\ req'[r].pc = "get_active"
                  /\ req'[r].run = req[r].run
  <2>1. PICK r \in Unused : \E at :
          req' = [req EXCEPT ![r].pc = "get_active", ![r].event = e, ![r].at = at]
    BY <1>1 DEF receive
  <2> QED BY <1>0, <2>1 DEF Unused, At, RequestState
<1>2. CASE crash
  <2>1. \A r \in Request :
          \/ req'[r] = req[r]
          \/ /\ req[r].pc \notin Gone /\ req'[r].pc = "dead"
             /\ req'[r].event = req[r].event
    BY <1>2 DEF crash, IdleRequest, Ev
  <2> QED BY <1>2, <2>1 DEF crash, history, storeVars, LocksFall
<1>3. ASSUME NEW e \in Event, receive(e)
      PROVE  UNCHANGED <<processed_events, posted>> /\ LocksFall
  BY <1>3 DEF receive, history, storeVars, LocksFall
<1>4. ASSUME NEW p \in Reconciler, PassStep(p)
      PROVE  UNCHANGED <<processed_events, posted, req>> /\ LocksFall
  <2>1. CASE list_running(p) \/ probe(p)
    BY <1>4, <2>1 DEF PassStep, list_running, probe, history, storeVars, LocksFall
  <2>2. CASE release_stale(p)
    <3>1. recon[p].item \in Item
      BY <2>2 DEF release_stale, Inv, Attached, PassOK
    <3>2. recon[p].item[1] \in Task /\ recon[p].item[2] \in RunId
      BY <3>1 DEF Item
    <3>3. LocksFall
      BY <2>2, <3>2, MethodsLetLocksFall DEF release_stale
    <3> QED BY <1>4, <2>2, <3>3 DEF PassStep, release_stale, release_active_run, history
  <2> QED BY <1>4, <2>1, <2>2 DEF PassStep, ReconcileStep
<1>5. ASSUME NEW x \in Run, N8nStep(x)
      PROVE  UNCHANGED <<processed_events, posted, req>> /\ LocksFall
  BY <1>5 DEF N8nStep, run_finishes, run_returns, run_asks, run_times_out, OfN8n, history,
     storeVars, LocksFall
<1>6. ASSUME NEW m \in callbacks, CallbackStep(m) \/ callback_lost(m)
      PROVE  UNCHANGED <<processed_events, posted, req>> /\ LocksFall
  <2>1. OfCallback
    BY <1>6 DEF CallbackStep, callback_write, callback_lookup, callback_lost, callback_pause,
       callback_release, callback_clear
  <2>2. CASE callback_release(m)
    <3>1. /\ m.run \in Request /\ req[m.run].pc # "idle" /\ m.target \in RunId
      BY <2>2 DEF callback_release, Inv, TypeOK, Attached, Callback, CallbackOK, Request
    <3>2. Tk(m.run) \in Task
      BY <3>1, RequestFacts
    <3>3. LocksFall
      BY <2>2, <3>1, <3>2, MethodsLetLocksFall DEF callback_release
    <3> QED BY <2>1, <2>2, <3>3 DEF callback_release, release_active_run, OfCallback
  <2>3. CASE ~callback_release(m)
    <3>1. UNCHANGED <<processed_events, active_task_runs>>
      BY <1>6, <2>3 DEF CallbackStep, callback_write, callback_lookup, callback_lost,
         callback_pause, callback_clear, upsert_paused_run, clear_paused_run, storeVars
    <3> QED BY <2>1, <3>1 DEF OfCallback, LocksFall
  <2> QED BY <2>2, <2>3
<1>7. ASSUME NEW t \in Task, OperatorStep(t)
      PROVE  UNCHANGED <<processed_events, posted, req>> /\ LocksFall
  BY <1>7 DEF OperatorStep, OperatorMovesCard, history, storeVars, LocksFall
<1>8. CASE UNCHANGED vars
  BY <1>8 DEF vars, storeVars, LocksFall
<1> QED BY <1>1, <1>2, <1>3, <1>4, <1>5, <1>6, <1>7, <1>8 DEF Next

-----------------------------------------------------------------------------
(* One writer for the row of an event *)

LEMMA OwnStep == Inv /\ OwnInv /\ LeakInv /\ [Next]_vars => OwnInv'
<1> SUFFICES ASSUME Inv, OwnInv, LeakInv, [Next]_vars
             PROVE  OwnInv'
  OBVIOUS
<1>0. /\ req \in [Request -> RequestState] /\ req' \in [Request -> RequestState]
      /\ processed_events \in [Event -> ProcessedRow \cup {None}]
  BY NextInv DEF Inv, TypeOK, StoreTypeOK
<1>1. \A s \in Request : req[s].pc # "idle" => Ev(s) \in Event
  BY RequestFacts
<1>2. \A e \in Event : Recorded(e) => Recorded(e)'
  BY NextInv, RecordedStays DEF Inv, TypeOK, StoreInv
<1>3. "idle" \notin Writing /\ "get_active" \notin Writing /\ "dead" \notin Writing
  BY DEF Writing, Owning, Operating
<1>4. CASE \A r \in Request : ~RequestStep(r)
  <2>1. /\ UNCHANGED processed_events
        /\ \A s \in Request :
             \/ req'[s] = req[s]
             \/ /\ req[s].pc = "idle" /\ req'[s].pc = "get_active"
                /\ req'[s].run = req[s].run
             \/ /\ req[s].pc \notin Gone /\ req'[s].pc = "dead"
                /\ req'[s].event = req[s].event
    BY <1>4, OtherEffect
  <2>2. \A s \in Request : Labels(req'[s])
    BY <2>1 DEF OwnInv, Labels, Early
  <2>3. \A s \in Request : req'[s].pc \in Writing => req'[s] = req[s] /\ Ev(s)' = Ev(s)
    BY <1>3, <2>1 DEF Ev
  <2>4. \A s \in Request : req'[s].pc \in Owning => req'[s].pc \in Writing
    BY DEF Writing
  <2> QED BY <2>1, <2>2, <2>3, <2>4 DEF OwnInv, Recorded
<1>5. ASSUME NEW r \in Request, RequestStep(r)
      PROVE  OwnInv'
  <2>1. Effect(r)
    BY <1>5, RequestEffect
  <2>2. /\ \A s \in Request : Ev(s)' = Ev(s)
        /\ \A s \in Request \ {r} : req'[s] = req[s]
    BY <2>1 DEF Effect, KeepsEvents
  <2>3. \A s \in Request : Labels(req'[s])
    BY <2>1, <2>2 DEF Effect, OwnInv
  <2>4. Owning \subseteq Writing /\ {"done", "outcome_row"} \cap Owning = {}
    BY DEF Writing, Owning, Operating
  <2>5. CASE Reads(r)
    <3>1. \A s \in Request : req'[s].pc \in Writing => req[s].pc \in Writing
      BY <2>2, <2>5 DEF Reads
    <3>2. \A s \in Request : req'[s].pc \in Owning => req[s].pc \in Owning
      BY <2>2, <2>5 DEF Reads
    <3> QED BY <2>2, <2>3, <2>5, <3>1, <3>2 DEF OwnInv, Reads, Recorded
  <2>6. CASE Inserts(r)
    <3>1. Ev(r) \in Event /\ req[r].at \in Nat
      BY <1>5, StepperHasBegun, RequestFacts
    <3>2. PICK d \in {"pending", "dispatch", "stale_event", "reject_active_run"} :
            /\ processed_events' =
                 [processed_events EXCEPT ![Ev(r)] = [decision |-> d, at |-> req[r].at]]
            /\ d \in {"stale_event", "reject_active_run"} => req'[r].pc = "outcome_row"
      BY <2>6 DEF Inserts
    <3>3. \A s \in Request : req[s].pc \in Writing => Ev(s) # Ev(r) /\ s # r
      BY <2>6 DEF Inserts, OwnInv
    <3>4. \A s \in Request \ {r} : req'[s].pc \in Writing =>
            Ev(s) # Ev(r) /\ processed_events'[Ev(s)] = processed_events[Ev(s)]
      BY <1>0, <1>1, <1>3, <2>2, <3>2, <3>3
    <3>5. [decision |-> d, at |-> req[r].at] # None
      BY <3>1, NoneIsNoValue DEF ProcessedRow, Decision
    <3>6. processed_events'[Ev(r)] = [decision |-> d, at |-> req[r].at]
      BY <1>0, <3>1, <3>2
    <3>7. \A s \in Request : req'[s].pc \in Writing => processed_events'[Ev(s)] # None
      BY <2>2, <3>4, <3>5, <3>6 DEF OwnInv, Recorded
    <3>8. \A s \in Request : req'[s].pc \in Owning =>
            processed_events'[Ev(s)].decision \in {"pending", "dispatch"}
      BY <2>2, <2>4, <3>2, <3>4, <3>6 DEF OwnInv
    <3>9. \A r1, r2 \in Request :
            req'[r1].pc \in Writing /\ req'[r2].pc \in Writing /\ Ev(r1) = Ev(r2) => r1 = r2
      BY <2>2, <3>4 DEF OwnInv
    <3> QED BY <2>2, <2>3, <3>7, <3>8, <3>9 DEF OwnInv, Recorded
  <2>7. CASE Settles(r)
    <3>1. req[r].pc \in Writing /\ req'[r].pc \in (Writing \ Owning) \cup {"done"}
      BY <2>7 DEF Settles, Writing, Owning, Operating
    <3>2. PICK d \in Decision :
            processed_events' = [processed_events EXCEPT ![Ev(r)].decision = d]
      BY <2>7 DEF Settles
    <3>3. "done" \notin Writing
      BY DEF Writing, Owning, Operating
    <3>4. \A s \in Request : req'[s].pc \in Writing => req[s].pc \in Writing
      BY <2>2, <3>1
    <3>5. \A s \in Request : req'[s].pc \in Owning =>
            s # r /\ req[s].pc \in Owning /\ Ev(s) # Ev(r)
      BY <2>2, <2>4, <3>1, <3>3, <3>4 DEF OwnInv
    <3>6. \A s \in Request : req'[s].pc \in Owning =>
            processed_events'[Ev(s)] = processed_events[Ev(s)]
      BY <1>0, <1>1, <1>3, <2>4, <3>2, <3>5
    <3>7. \A s \in Request : req'[s].pc \in Writing => Recorded(Ev(s))'
      BY <1>1, <1>2, <1>3, <2>2, <3>4 DEF OwnInv, Recorded
    <3> QED BY <2>2, <2>3, <3>4, <3>5, <3>6, <3>7 DEF OwnInv
  <2> QED BY <2>1, <2>5, <2>6, <2>7 DEF Effect
<1> QED BY <1>4, <1>5

LEMMA LeakStep == Inv /\ OwnInv /\ LeakInv /\ [Next]_vars => LeakInv'
<1> SUFFICES ASSUME Inv, OwnInv, LeakInv, [Next]_vars
             PROVE  LeakInv'
  OBVIOUS
<1>0. /\ Inv'
      /\ req \in [Request -> RequestState] /\ req' \in [Request -> RequestState]
      /\ processed_events \in [Event -> ProcessedRow \cup {None}]
      /\ active_task_runs \in [Task -> ActiveRow \cup {None}]
  BY NextInv DEF Inv, TypeOK, StoreTypeOK
<1>1. \A s \in Request : req[s].pc # "idle" => Ev(s) \in Event
  BY RequestFacts
<1>2. \A e \in Event : Locked(e) => Recorded(e)
  BY UnrecordedIsUnlocked DEF LeakInv
<1>3. LocksFall => Provisional' /\ \A e \in Event : Locked(e)' => Locked(e)
  BY <1>0, LocksFallKeep DEF LeakInv
<1>4. CASE \A r \in Request : ~RequestStep(r)
  <2>1. /\ UNCHANGED <<processed_events, posted>>
        /\ LocksFall
        /\ \A s \in Request :
             \/ req'[s] = req[s]
             \/ /\ req[s].pc = "idle" /\ req'[s].pc = "get_active"
                /\ req'[s].run = req[s].run
             \/ /\ req[s].pc \notin Gone /\ req'[s].pc = "dead"
                /\ req'[s].event = req[s].event
    BY <1>4, OtherEffect
  <2>2. ASSUME NEW s \in Request, Operator(s)'
        PROVE  Operator(s) /\ Ev(s)' = Ev(s) /\ Ev(s) \in Event
    <3>1. req'[s] = req[s]
      BY <2>1, <2>2 DEF Operator, Operating
    <3>2. req[s].pc # "idle"
      BY <2>2, <3>1 DEF Operator, Operating
    <3> QED BY <1>1, <2>2, <3>1, <3>2 DEF Operator, Ev
  <2>3. ASSUME NEW s \in Request, Answers(s)
        PROVE  Answers(s)' /\ Ev(s)' = Ev(s)
    <3>1. req[s].pc # "idle"
      BY <2>3 DEF Answers, Inv, Attached
    <3> QED BY <2>1, <2>3, <3>1 DEF Answers, Ev
  <2>4. \A s \in Request : Operator(s)' => ~Locked(Ev(s))'
    <3> SUFFICES ASSUME NEW s \in Request, Operator(s)' PROVE ~Locked(Ev(s))'
      OBVIOUS
    <3>1. Operator(s) /\ Ev(s)' = Ev(s) /\ Ev(s) \in Event
      BY <2>2
    <3> DEFINE e == Ev(s)
    <3>2. ~Locked(e)
      BY <3>1 DEF LeakInv
    <3>3. e' = e
      BY <3>1
    <3> HIDE DEF e
    <3>4. e \in Event
      BY <3>1 DEF e
    <3> QED BY <1>3, <2>1, <3>2, <3>3, <3>4 DEF e, Locked
  <2>5. ASSUME NEW e \in Event, Locked(e)' PROVE Accounted(e)'
    <3>1. Accounted(e)
      BY <1>3, <2>1, <2>5 DEF LeakInv
    <3> QED BY <2>1, <2>3, <3>1 DEF Accounted
  <2> QED BY <1>3, <2>1, <2>4, <2>5 DEF LeakInv
<1>5. ASSUME NEW r \in Request, RequestStep(r)
      PROVE  LeakInv'
  <2>1. Effect(r)
    BY <1>5, RequestEffect
  <2>2. /\ \A s \in Request : Ev(s)' = Ev(s)
        /\ \A s \in Request \ {r} : req'[s] = req[s]
        /\ posted \subseteq posted'
    BY <2>1 DEF Effect, KeepsEvents
  <2>3. Ev(r) \in Event /\ Tk(r) \in Task /\ TaskOf[Ev(r)] = Tk(r)
    BY <1>5, StepperHasBegun, RequestFacts
  <2>4. /\ \A s \in Request \ {r} : Operator(s)' => Operator(s)
        /\ \A s \in Request \ {r} : Answers(s) => Answers(s)'
    BY <2>2 DEF Operator, Answers
  <2>5. \A s \in Request : Operator(s) => Ev(s) \in Event
    BY <1>1 DEF Operator, Operating
  <2>6. ASSUME LocksFall, \A s \in Request : Operator(s)' => Operator(s) \/ ~Recorded(Ev(s))
        PROVE  Provisional' /\ \A s \in Request : Operator(s)' => ~Locked(Ev(s))'
    <3>0. Provisional'
      BY <1>3, <2>6
    <3>1. ASSUME NEW s \in Request, Operator(s)' PROVE ~Locked(Ev(s))'
      <4> DEFINE e == Ev(s)
      <4>1. e \in Event /\ e' = e
        BY <1>0, <2>2, <3>1 DEF Operator, Operating, Inv, Attached, RequestOK, Ev
      <4>2. ~Locked(e)
        BY <1>2, <2>6, <3>1, <4>1 DEF LeakInv
      <4> HIDE DEF e
      <4> QED BY <1>3, <2>6, <4>1, <4>2 DEF e, Locked
    <3> QED BY <3>0, <3>1
  <2>7. CASE Reads(r)
    <3>1. \A s \in Request : Operator(s)' => Operator(s)
      <4> SUFFICES ASSUME NEW s \in Request, Operator(s)' PROVE Operator(s)
        OBVIOUS
      <4>1. s = r => Operator(s)
        BY <2>7 DEF Reads
      <4> QED BY <2>4, <4>1
    <3>2. ASSUME NEW e \in Event, Locked(e)' PROVE Accounted(e)'
      <4>1. Locked(e) /\ Accounted(e) /\ processed_events'[e] = processed_events[e]
        BY <1>3, <2>7, <3>2 DEF LeakInv, Reads
      <4>2. \A s \in Request : Ev(s) = e /\ Answers(s) => Ev(s)' = e /\ Answers(s)'
        BY <2>2, <2>4, <2>7, <4>1 DEF Reads, Answers
      <4> QED BY <4>1, <4>2 DEF Accounted
    <3> QED BY <2>6, <2>7, <3>1, <3>2 DEF LeakInv, Reads
  <2>8. CASE Settles(r)
    <3>1. LocksFall /\ \A s \in Request : Operator(s)' => Operator(s)
      <4>1. LocksFall /\ ~Operator(r)'
        BY <2>8 DEF Settles, Operator, Operating
      <4>2. ASSUME NEW s \in Request, Operator(s)' PROVE Operator(s)
        BY <2>4, <4>1, <4>2
      <4> QED BY <4>1, <4>2
    <3>2. PICK d \in Decision :
            /\ processed_events' = [processed_events EXCEPT ![Ev(r)].decision = d]
            /\ RunningAs(Tk(r), Pending(Ev(r)))' => d \in Known
      BY <2>8 DEF Settles
    <3>3. ASSUME NEW e \in Event, Locked(e)' PROVE Accounted(e)'
      <4>1. Locked(e) /\ Accounted(e) /\ Recorded(e)
        BY <1>2, <1>3, <3>1, <3>3 DEF LeakInv
      <4>2. CASE e = Ev(r)
        <5>1. RunningAs(Tk(r), Pending(Ev(r)))'
          BY <2>2, <2>3, <3>3, <4>2 DEF Locked, RunningAs, Running, Tk
        <5>2. processed_events'[e].decision = d /\ d \in Known
          BY <1>0, <2>3, <3>2, <4>1, <4>2, <5>1 DEF Recorded, ProcessedRow
        <5> QED BY <5>2 DEF Accounted
      <4>3. CASE e # Ev(r)
        <5>1. processed_events'[e] = processed_events[e]
          BY <1>0, <3>2, <4>3
        <5>2. \A s \in Request : Ev(s) = e /\ Answers(s) => Ev(s)' = e /\ Answers(s)'
          BY <2>2, <2>4, <4>3 DEF Answers
        <5> QED BY <4>1, <5>1, <5>2 DEF Accounted
      <4> QED BY <4>2, <4>3
    <3> QED BY <2>6, <3>1, <3>3 DEF LeakInv
  <2>9. CASE Inserts(r)
    <3>1. PICK d \in {"pending", "dispatch", "stale_event", "reject_active_run"} :
            /\ processed_events' =
                 [processed_events EXCEPT ![Ev(r)] = [decision |-> d, at |-> req[r].at]]
            /\ IF d = "dispatch"
               THEN /\ active_task_runs' =
                         [active_task_runs EXCEPT ![Tk(r)] =
                            [run_id |-> Pending(Ev(r)), event_id |-> Ev(r),
                             state |-> "running"]]
                    /\ Answers(r)' /\ ~Operator(r)'
               ELSE UNCHANGED active_task_runs
      BY <2>9 DEF Inserts
    <3>2. ~Recorded(Ev(r)) /\ ~Locked(Ev(r))
      BY <1>2, <2>3, <2>9 DEF Inserts
    <3>3. ASSUME NEW e \in Event \ {Ev(r)}, Locked(e), Accounted(e)
          PROVE  Accounted(e)'
      <4>1. processed_events'[e] = processed_events[e]
        BY <1>0, <3>1
      <4>2. \A s \in Request : Ev(s) = e /\ Answers(s) => Ev(s)' = e /\ Answers(s)'
        BY <2>2, <2>4 DEF Answers
      <4> QED BY <3>3, <4>1, <4>2 DEF Accounted
    <3>4. CASE d # "dispatch"
      <4>1. LocksFall
        BY <3>1, <3>4 DEF LocksFall
      <4>2. ASSUME NEW s \in Request, Operator(s)'
            PROVE  Operator(s) \/ ~Recorded(Ev(s))
        BY <2>4, <3>2, <4>2
      <4>3. ASSUME NEW e \in Event, Locked(e)' PROVE Accounted(e)'
        BY <1>3, <3>2, <3>3, <4>1, <4>3 DEF LeakInv
      <4> QED BY <2>6, <4>1, <4>2, <4>3 DEF LeakInv
    <3>5. CASE d = "dispatch"
      <4>1. active_task_runs'[Tk(r)] =
              [run_id |-> Pending(Ev(r)), event_id |-> Ev(r), state |-> "running"]
        BY <1>0, <2>3, <3>1, <3>5
      <4>2. \A t \in Task \ {Tk(r)} : active_task_runs'[t] = active_task_runs[t]
        BY <1>0, <3>1, <3>5
      <4>3. Provisional'
        BY <4>1, <4>2, PendingIsNotNamed, <2>3 DEF Provisional, LeakInv
      <4>4. ASSUME NEW e \in Event \ {Ev(r)}, Locked(e)' PROVE Locked(e)
        <5>1. TaskOf[e] # Tk(r)
          BY <2>3, <4>1, <4>4, PendingIsNotNamed DEF Locked, RunningAs
        <5> QED BY <4>2, <4>4, <5>1, TaskOfType DEF Locked, RunningAs, Running
      <4>5. ASSUME NEW s \in Request, Operator(s)' PROVE ~Locked(Ev(s))'
        <5> DEFINE e == Ev(s)
        <5>1. s # r /\ Operator(s)
          BY <2>4, <3>1, <3>5, <4>5
        <5>2. e \in Event /\ e' = e /\ ~Locked(e)
          BY <2>2, <2>5, <5>1 DEF LeakInv
        <5>3. e # Ev(r)
          <6>1. req[s].pc \in Writing
            BY <5>1 DEF Operator, Writing, Owning
          <6> QED BY <3>2, <6>1 DEF OwnInv
        <5> HIDE DEF e
        <5> QED BY <4>4, <5>2, <5>3 DEF e, Locked
      <4>6. ASSUME NEW e \in Event, Locked(e)' PROVE Accounted(e)'
        <5>1. CASE e = Ev(r)
          BY <1>0, <2>2, <2>3, <3>1, <3>5, <5>1 DEF Accounted
        <5>2. CASE e # Ev(r)
          BY <3>3, <4>4, <4>6, <5>2 DEF LeakInv
        <5> QED BY <5>1, <5>2
      <4> QED BY <4>3, <4>5, <4>6 DEF LeakInv
    <3> QED BY <3>4, <3>5
  <2> QED BY <2>1, <2>7, <2>8, <2>9 DEF Effect
<1> QED BY <1>4, <1>5

LEMMA InitOwnLeak == Init => OwnInv /\ LeakInv
<1> SUFFICES ASSUME Init PROVE OwnInv /\ LeakInv
  OBVIOUS
<1>1. \A r \in Request :
        req[r].pc = "idle" /\ req[r].run = None /\ req[r].decision = None
  BY DEF Init, IdleRequest
<1>2. \A t \in Task : active_task_runs[t] = None
  BY DEF Init, StoreInit
<1>3. OwnInv
  BY <1>1 DEF OwnInv, Labels, Writing, Owning, Operating
<1>4. LeakInv
  BY <1>1, <1>2, TaskOfType
     DEF LeakInv, Provisional, Operator, Operating, Locked, RunningAs, Running
<1> QED BY <1>3, <1>4

\* The locks process_event leaves behind are the known ones, for every set of
\* webhook bodies, with every misbehaviour of n8n and ClickUp and any crashes.
THEOREM LeaksAreTheKnownOnes == Spec => []LeaksAreKnown
<1>1. Inv /\ LeakInv => LeaksAreKnown
  <2> SUFFICES ASSUME Inv, LeakInv, NEW t \in Task, NEW e \in Event,
                      RunningAs(t, Pending(e)), Unattended(e)
               PROVE  \/ processed_events[e].decision \in Known
                      \/ /\ processed_events[e].decision = "dispatch"
                         /\ \E r \in Request : Ev(r) = e /\ (r \in posted \/ At(r, "dead"))
    BY DEF LeaksAreKnown, Known
  <2>1. TaskOf[e] = t
    BY DEF RunningAs, Running, LeakInv, Provisional, Inv, LockTracesToEvent
  <2>2. Accounted(e)
    BY <2>1 DEF LeakInv, Locked
  <2>3. \A r \in Request : Ev(r) = e => req[r].pc \in Gone
    BY DEF Unattended
  <2> QED BY <2>2, <2>3 DEF Accounted, Answers, At, Gone
<1> QED BY <1>1, InitInv, InitOwnLeak, NextInv, OwnStep, LeakStep, PTL DEF Spec

\* The row of an event is settled once.
LEMMA SettledStep ==
    ASSUME Inv, OwnInv, LeakInv, [Next]_vars, NEW e \in Event, Recorded(e),
           processed_events'[e] # processed_events[e]
    PROVE  LET old == processed_events[e].decision
               new == processed_events'[e].decision
           IN /\ processed_events'[e].at = processed_events[e].at
              /\ new \notin {"pending", "dispatch"}
              /\ old \in {"pending", "dispatch"} \/ new = "schema_mismatch"
<1>1. PICK r \in Request : RequestStep(r)
  BY OtherEffect
<1>2. processed_events \in [Event -> ProcessedRow \cup {None}]
  BY DEF Inv, TypeOK, StoreTypeOK
<1>3. Effect(r)
  BY <1>1, RequestEffect
<1>4. Settles(r)
  BY <1>2, <1>3 DEF Effect, Reads, Inserts
<1>5. PICK d \in Decision \ {"pending", "dispatch"} :
        /\ processed_events' = [processed_events EXCEPT ![Ev(r)].decision = d]
        /\ req[r].pc = "outcome_row" => d = "schema_mismatch"
  BY <1>4 DEF Settles
<1>6. e = Ev(r)
  BY <1>2, <1>5
<1>7. processed_events'[e] = [processed_events[e] EXCEPT !.decision = d]
  BY <1>2, <1>5, <1>6
<1>8. processed_events[e] \in ProcessedRow
  BY <1>2 DEF Recorded
<1>9. req[r].pc = "outcome_row" \/ processed_events[e].decision \in {"pending", "dispatch"}
  BY <1>4, <1>6 DEF Settles, Writing, OwnInv
<1> QED BY <1>5, <1>7, <1>8, <1>9 DEF ProcessedRow

\* No request, whatever it races with, unsettles a recorded decision.
THEOREM DecisionsSettle == Spec => DecisionSettled
<1>1. Inv /\ OwnInv /\ LeakInv /\ [Next]_vars =>
        [\A e \in Event :
           Recorded(e) /\ processed_events'[e] # processed_events[e] =>
              LET old == processed_events[e].decision
                  new == processed_events'[e].decision
              IN /\ processed_events'[e].at = processed_events[e].at
                 /\ new \notin {"pending", "dispatch"}
                 /\ old \in {"pending", "dispatch"} \/ new = "schema_mismatch"]_processed_events
  BY SettledStep
<1> QED BY <1>1, InitInv, InitOwnLeak, NextInv, OwnStep, LeakStep, PTL DEF Spec, DecisionSettled

-----------------------------------------------------------------------------
(* Which locks go stale *)

NothingGoesStale == \A t \in Task : Running(t) => active_task_runs'[t].state # "stale"

LEMMA MethodsLeaveNothingStale ==
    ASSUME Inv, NEW t \in Task
    PROVE  /\ active_task_runs' = active_task_runs => NothingGoesStale
           /\ \A run : release_active_run(t, run, "released") => NothingGoesStale
           /\ \A run : \A new \in RunId : set_active_run_id(t, run, new) => NothingGoesStale
           /\ \A e, d, run : persist_terminal_decision(t, e, d, run) => NothingGoesStale
           /\ \A e \in Event : \A run, at :
                record_event_and_acquire_lock(e, run, at) => NothingGoesStale
<1> USE DEF NothingGoesStale, Inv, TypeOK, StoreTypeOK, Running, RunningAs, ActiveRow
<1>1. active_task_runs' = active_task_runs => NothingGoesStale
  OBVIOUS
<1>2. \A run : release_active_run(t, run, "released") => NothingGoesStale
  BY DEF release_active_run
<1>3. \A run : \A new \in RunId : set_active_run_id(t, run, new) => NothingGoesStale
  BY DEF set_active_run_id
<1>4. \A e, d, run : persist_terminal_decision(t, e, d, run) => NothingGoesStale
  BY DEF persist_terminal_decision, storeVars
<1>5. \A e \in Event : \A run, at : record_event_and_acquire_lock(e, run, at) => NothingGoesStale
  BY TaskOfType DEF record_event_and_acquire_lock
<1> QED BY <1>1, <1>2, <1>3, <1>4, <1>5

LEMMA RequestsLeaveNothingStale ==
    ASSUME Inv, NEW r \in Request, RequestStep(r)
    PROVE  NothingGoesStale
<1>0. RequestOK(req[r]) /\ Ev(r) \in Event /\ Tk(r) \in Task
  BY StepperHasBegun, RequestFacts DEF Inv, Attached
<1> USE MethodsLeaveNothingStale, <1>0
<1>1. CASE \/ read_active_run(r) \/ read_paused_and_branch(r) \/ leave_checkpoint(r)
           \/ outcome_only(r) \/ post_dispatch(r) \/ dispatch_anonymous(r) \/ qa_result(r)
           \/ post_resume(r) \/ cancel_signal(r)
  BY <1>1 DEF read_active_run, read_paused_and_branch, leave_checkpoint, outcome_only,
     post_dispatch, dispatch_anonymous, qa_result, post_resume, cancel_signal, storeVars
<1>2. CASE \/ mark(r) \/ resume_record(r) \/ cancel_record(r) \/ resume_failed(r)
           \/ resume_clear(r) \/ cancel_clear(r)
  BY <1>2 DEF mark, resume_record, cancel_record, record_operator_event, resume_failed,
     resume_clear, cancel_clear, update_processed_event_decision, record_processed_event,
     clear_paused_run
<1>3. CASE outcome_row(r) \/ outcome_gate(r) \/ outcome_dispatch(r)
  BY <1>3 DEF outcome_row, outcome_gate, outcome_dispatch, update_processed_event_decision,
     storeVars
<1>4. CASE acquire_lock(r) \/ dispatch_failed(r) \/ qa_invalid(r) \/ settle(r)
           \/ cancel_release(r)
  BY <1>4 DEF acquire_lock, dispatch_failed, qa_invalid, settle, cancel_release
<1>5. CASE dispatch_named(r) \/ resumed(r)
  <2>1. req[r].run \in RunId
    BY <1>5 DEF dispatch_named, Answered, resumed, RequestOK, RequestState
  <2> QED BY <1>5, <2>1 DEF dispatch_named, resumed, storeVars
<1> QED BY <1>1, <1>2, <1>3, <1>4, <1>5 DEF RequestStep

LEMMA StaleStep ==
    ASSUME Inv, [Next]_vars, NEW t \in Task, Running(t), active_task_runs'[t].state = "stale"
    PROVE  \E p \in Reconciler :
             /\ recon[p].step = "free"
             /\ recon[p].item = <<t, active_task_runs[t].run_id>>
<1>1. ~NothingGoesStale
  BY DEF NothingGoesStale
<1>2. active_task_runs' # active_task_runs
  BY <1>1, MethodsLeaveNothingStale
<1>3. \A e \in Event : ~receive(e)
  BY <1>2 DEF receive, storeVars
<1>4. \A r \in Request : ~RequestStep(r)
  BY <1>1, RequestsLeaveNothingStale
<1>5. \A x \in Run : ~N8nStep(x)
  BY <1>2 DEF N8nStep, run_finishes, run_returns, run_asks, run_times_out, OfN8n, storeVars
<1>6. ASSUME NEW m \in callbacks, CallbackStep(m) \/ callback_lost(m)
      PROVE  FALSE
  <2>1. callback_release(m)
    BY <1>2, <1>6 DEF CallbackStep, callback_write, callback_lookup, callback_lost,
       callback_pause, callback_clear, upsert_paused_run, clear_paused_run, storeVars
  <2>2. m.run \in Request /\ req[m.run].pc # "idle"
    BY DEF Inv, TypeOK, Attached, Callback, CallbackOK, Request
  <2>3. Tk(m.run) \in Task
    BY <2>2, RequestFacts
  <2> QED BY <1>1, <2>1, <2>3, MethodsLeaveNothingStale DEF callback_release
<1>7. \A u \in Task : ~OperatorStep(u)
  BY <1>2 DEF OperatorStep, OperatorMovesCard, storeVars
<1>8. ~crash /\ ~UNCHANGED vars
  BY <1>2 DEF crash, vars, storeVars
<1>9. PICK p \in Reconciler : PassStep(p)
  BY <1>3, <1>4, <1>5, <1>6, <1>7, <1>8 DEF Next
<1>10. release_stale(p)
  BY <1>2, <1>9 DEF PassStep, ReconcileStep, list_running, probe, storeVars
<1>11. recon[p].item \in Item /\ recon[p].step = "free"
  BY <1>10 DEF release_stale, Inv, Attached, PassOK
<1>12. PICK u \in Task, run \in RunId : recon[p].item = <<u, run>>
  BY <1>11 DEF Item
<1>13. release_active_run(u, run, "stale")
  BY <1>10, <1>12 DEF release_stale
<1>14. active_task_runs[t].state = "running"
  BY DEF Running
<1>15. u = t /\ RunningAs(u, run)
  BY <1>2, <1>13, <1>14 DEF release_active_run, Inv, TypeOK, StoreTypeOK
<1> QED BY <1>11, <1>12, <1>15 DEF RunningAs

\* Reconciliation frees exactly the run it listed and probed, however many
\* passes run at once and whatever the requests do between its awaits.
THEOREM StaleLocksWereProbed == Spec => StaleIsWhatWasProbed
<1>1. Inv /\ [Next]_vars =>
        [\A t \in Task :
           Running(t) /\ active_task_runs'[t].state = "stale" =>
              \E p \in Reconciler :
                  /\ recon[p].step = "free"
                  /\ recon[p].item = <<t, active_task_runs[t].run_id>>]_active_task_runs
  BY StaleStep
<1> QED BY <1>1, InitInv, NextInv, PTL DEF Spec, StaleIsWhatWasProbed

-----------------------------------------------------------------------------
(* One live run.  OneLiveRun, CompletionReleases and RepliesAreOnRecord do not
   hold whatever n8n and ClickUp do; they are proved for calm surroundings.
   Calm is as wide as it can be: whatever else it let in, TLC finds a
   violation of one of the three:
     OneLiveRun fails with schema_drift, lost_response, early_response,
       late_resume and crash, with the pre-dispatch checkpoint and with
       cancellations;
     CompletionReleases with early_callback, overlapping_callback and
       cancellations;
     RepliesAreOnRecord with schema_drift, early_response, early_callback, the
       checkpoint and cancellations, and where callbacks that are repeated come
       without a name.
   The run live is calm. *)

Calm ==
    /\ Env \subseteq {"n8n_rejects", "clickup_error", "foreign_workflow", "lost_callback",
                      "anonymous_run", "anonymous_callback", "duplicate_callback",
                      "operator_moves", "probe_failure"}
    /\ ~("anonymous_callback" \in Env /\ "duplicate_callback" \in Env)
    /\ ~Checkpoint
    /\ \A e \in Event : ~PayloadOf[e].cancel

\* Where a request has not yet sent anything to n8n.
Before ==
    {"idle", "get_active", "get_paused", "lock", "outcome_only", "outcome_gate", "post",
     "resume_record", "resume_post"}

\* A callback without a name that will free whatever lock the task has.
Frees(m) == m.status # "waiting_input" /\ ~m.named /\ m.pc # "clear"

\* The lock of the task is there for x: its request works on it, its execution
\* is alive, or its end was told without a name and the lock is still to be freed.
Owns(x) ==
    \/ req[x].pc \in {"outcome_gate", "post", "sent", "qa", "settle"}
    \/ n8n[x] \in Live
    \/ \E m \in callbacks : m.run = x /\ Frees(m)

\* Passes: the startup pass found nothing, and there is no other.
CalmPasses ==
    /\ \A p \in Request : recon[p].step = "off"
    /\ recon[Boot].step \in {"list", "end"}
    /\ recon[Boot].step = "list" =>
         /\ \A t \in Task : ~Running(t)
         /\ \A r \in Request : req[r].pc = "idle"

\* What a request knows of the execution it started or went on with.
Execution(r) ==
    /\ req[r].pc \notin Cancelling \cup {"checkpoint", "dead"}
    /\ req[r].pc \in Before => n8n[r] = "none" /\ req[r].run = None
    /\ At(r, "sent") =>
         \/ req[r].run = None /\ n8n[r] = "none"
         \/ req[r].run = N8n(r) /\ n8n[r] \in {"running", "finished"}
    /\ req[r].pc \in {"qa", "settle"} =>
         req[r].run \in {N8n(r), Pending(Ev(r))} /\ n8n[r] = "finished"
    /\ At(r, "resume_sent") =>
         \/ n8n[r] = "none" /\ req[r].run \in {None, req[r].paused.run_id}
         \/ req[r].run = N8n(r) /\ n8n[r] = "running"

\* A row or a request that names an execution names one of its own task.
CalmRequests ==
    /\ \A r \in Request : Execution(r)
    /\ \A r \in Request, x \in Run :
         req[r].pc \in Resuming /\ req[r].paused.run_id = N8n(x) =>
            n8n[x] # "none" /\ Tk(x) = Tk(r)
    /\ \A t \in Task, x \in Run : PausedAs(t, N8n(x)) => n8n[x] # "none" /\ Tk(x) = t

\* A task has at most one owner, and only while it is locked.
CalmLocks ==
    /\ \A x \in Run : Owns(x) => Running(Tk(x))
    /\ \A x, y \in Run : Owns(x) /\ Owns(y) /\ Tk(x) = Tk(y) => x = y
    /\ \A r \in Request :
         req[r].pc \in {"outcome_gate", "post", "sent"} => RunningAs(Tk(r), Pending(Ev(r)))
    /\ \A r \in Request : req[r].pc \in {"qa", "settle"} => RunningAs(Tk(r), req[r].run)

\* A run that has reported cannot get its lock or its paused row back.
Over(x) == n8n[x] = "finished" /\ req[x].pc \notin {"sent", "qa", "settle", "resume_sent"}

HasLock(x) == RunningAs(Tk(x), N8n(x))
HasPause(x) == PausedAs(Tk(x), N8n(x))

\* The steps a callback goes through, and the lock it looks at.
Proper(m) ==
    /\ m.status = "waiting_input" => m.pc = "write" \/ (m.pc = "pause" /\ m.named)
    /\ m.status # "waiting_input" =>
         m.pc \in {"write", "release", "clear"} \/ (m.pc = "lookup" /\ ~m.named)
    /\ m.named /\ m.pc \in {"release", "clear"} => m.target = N8n(m.run)
    /\ ~m.named => "duplicate_callback" \notin Env

\* A callback with a name finds the lock of its own run or an owner's, which
\* is another; one without finds the lock of its run, whatever it is called.
CallbackCalm(m) ==
    /\ n8n[m.run] # "none"
    /\ req[m.run].pc \notin {"sent", "qa", "settle", "resume_sent"}
    /\ m.status # "waiting_input" => Over(m.run)
    /\ Proper(m)
    /\ ~m.named /\ m.pc = "release" => RunningAs(Tk(m.run), m.target)
    /\ m.named /\ m.pc = "clear" => ~HasLock(m.run)
    /\ m.named /\ m.status # "waiting_input" /\ HasLock(m.run) =>
         \A y \in Run : Owns(y) => Tk(y) # Tk(m.run)

CalmCallbacks ==
    /\ \A m \in callbacks : CallbackCalm(m)
    /\ \A m, n \in callbacks : m.run = n.run => m = n
    /\ \A x \in acked :
         /\ Over(x) /\ ~HasLock(x) /\ ~HasPause(x)
         /\ \A m \in callbacks : m.run = x => m.status # "waiting_input" /\ m.named

CalmInv == CalmPasses /\ CalmRequests /\ CalmLocks /\ CalmCallbacks

Unrecorded ==
    {"skip_duplicate", "reject_scope", "action_scope_violation", "reject_missing_metadata"}

\* What the row of its event says where a request has written it.
RecordOK(r) ==
    /\ At(r, "outcome_only") => req[r].decision \in Unrecorded
    /\ req[r].pc \in {"post", "sent", "outcome_dispatch"} =>
         processed_events[Ev(r)].decision = "dispatch"
    /\ At(r, "outcome_row") => processed_events[Ev(r)].decision = req[r].decision
    /\ At(r, "done") /\ req[r].decision \notin Unrecorded =>
         /\ Recorded(Ev(r)) /\ processed_events[Ev(r)].decision = req[r].decision
         /\ \A s \in Request : req[s].pc \in Writing => Ev(s) # Ev(r)

RecordInv == \A r \in Request : RecordOK(r)

-----------------------------------------------------------------------------
(* Helpers *)

LEMMA RunIds ==
    /\ \A x \in Run : N8n(x) \in NamedRun /\ N8n(x) \in RunId /\ N8n(x)[2] = x
    /\ \A x, y \in Run : N8n(x) = N8n(y) => x = y
    /\ \A e, x : Pending(e) # N8n(x)
    /\ \A e, f : Pending(e) = Pending(f) => e = f
    /\ \A id \in NamedRun : id[2] \in Run /\ id = N8n(id[2])
  BY DEF N8n, Pending, NamedRun, RunId

\* What the three ways to go on change in a request.
LEMMA MoveFields ==
    ASSUME Inv, NEW r \in Request
    PROVE  /\ \A pc : Goto(r, pc) =>
                /\ KeepsEvents(r) /\ req'[r].pc = pc /\ req'[r].run = req[r].run
                /\ req'[r].paused = req[r].paused /\ req'[r].decision = req[r].decision
           /\ \A pc, d : Decide(r, pc, d) =>
                /\ KeepsEvents(r) /\ req'[r].pc = pc /\ req'[r].run = req[r].run
                /\ req'[r].paused = req[r].paused /\ req'[r].decision = d
           /\ \A d : Reply(r, d) =>
                /\ KeepsEvents(r) /\ req'[r].pc = "done" /\ req'[r].decision = d
<1>1. req \in [Request -> RequestState]
  BY DEF Inv, TypeOK
<1>2. ASSUME NEW pc, Goto(r, pc)
      PROVE  /\ req'[r].pc = pc /\ req'[r].run = req[r].run
             /\ req'[r].paused = req[r].paused /\ req'[r].decision = req[r].decision
  BY <1>1, <1>2 DEF Goto, RequestState
<1>3. ASSUME NEW pc, NEW d, Decide(r, pc, d)
      PROVE  /\ req'[r].pc = pc /\ req'[r].run = req[r].run
             /\ req'[r].paused = req[r].paused /\ req'[r].decision = d
  BY <1>1, <1>3 DEF Decide, RequestState
<1>4. ASSUME NEW d, Reply(r, d) PROVE req'[r].pc = "done" /\ req'[r].decision = d
  BY <1>1, <1>4 DEF Reply, RequestState
<1> QED BY <1>2, <1>3, <1>4, HelpersKeepEvents

LEMMA CalmInit == Init => CalmInv
<1> SUFFICES ASSUME Init PROVE CalmInv
  OBVIOUS
<1>1. /\ \A r \in Request : req[r] = IdleRequest
      /\ \A x \in Run : n8n[x] = "none"
      /\ \A t \in Task : active_task_runs[t] = None /\ paused_task_runs[t] = None
      /\ callbacks = {} /\ acked = {}
      /\ \A p \in Request : recon[p] = NoPass
      /\ recon[Boot].step = "list"
  BY BootIsNoRun DEF Init, StoreInit, ReconInit, StartPass, NoPass, Reconciler, Request
<1>2. IdleRequest.pc = "idle" /\ IdleRequest.run = None
  BY DEF IdleRequest
<1>3. CalmPasses
  BY <1>1, <1>2 DEF CalmPasses, NoPass, Running
<1>4. CalmRequests
  BY <1>1, <1>2 DEF CalmRequests, Execution, PausedAs, Resuming, Cancelling, Before, At, Request
<1>5. CalmLocks
  <2>1. \A x \in Run : ~Owns(x)
    BY <1>1, <1>2 DEF Owns, Live, Request
  <2> QED BY <1>1, <1>2, <2>1 DEF CalmLocks
<1>6. CalmCallbacks
  BY <1>1 DEF CalmCallbacks
<1> QED BY <1>3, <1>4, <1>5, <1>6 DEF CalmInv

LEMMA CalmEnv ==
    ASSUME Calm
    PROVE  /\ "schema_drift" \notin Env /\ "lost_response" \notin Env
           /\ "early_response" \notin Env /\ "early_callback" \notin Env
           /\ "overlapping_callback" \notin Env /\ "late_resume" \notin Env
           /\ "crash" \notin Env
  BY DEF Calm

\* An owner has begun, and its task is locked.
LEMMA OwnerFacts ==
    ASSUME Inv, CalmInv, NEW x \in Run, Owns(x)
    PROVE  Tk(x) \in Task /\ Running(Tk(x)) /\ req[x].pc # "idle"
<1>1. req[x].pc # "idle"
  <2>1. CASE \E m \in callbacks : m.run = x /\ Frees(m)
    BY <2>1 DEF Inv, Attached, CallbackOK
  <2>2. CASE n8n[x] \in Live
    BY <2>2 DEF Inv, Attached, Live
  <2> QED BY <2>1, <2>2 DEF Owns
<1> QED BY <1>1, RequestFacts DEF CalmInv, CalmLocks, Request

\* What CalmInv says of a callback.
LEMMA CallbackFacts ==
    ASSUME Inv, CalmInv, NEW m \in callbacks
    PROVE  /\ m \in Callback /\ m.run \in Run /\ CallbackCalm(m)
           /\ Tk(m.run) \in Task /\ m.workflow \in Workflow
           /\ m.run \in acked => m.status # "waiting_input" /\ m.named
           /\ \A n \in callbacks : n.run = m.run => n = m
           /\ recon[Boot].step = "end"
<1>1. m \in Callback /\ m.run \in Run /\ m.run \in Request
  BY DEF Inv, TypeOK, Callback, Request
<1>2. req[m.run].pc # "idle"
  BY DEF Inv, Attached, CallbackOK
<1>3. Tk(m.run) \in Task
  BY <1>1, <1>2, RequestFacts
<1>4. recon[Boot].step = "end"
  BY <1>1, <1>2 DEF CalmInv, CalmPasses
<1> QED BY <1>1, <1>3, <1>4 DEF Callback, CalmInv, CalmCallbacks

-----------------------------------------------------------------------------
(* A step of a request.  What it does to n8n and to the paused rows, where it
   goes, and what becomes of the lock of its task. *)

LocksMove(r) ==
    \/ UNCHANGED active_task_runs
    \/ /\ ~Running(Tk(r)) /\ req[r].pc = "lock"
       /\ active_task_runs' = [active_task_runs EXCEPT ![Tk(r)] =
            [run_id |-> Pending(Ev(r)), event_id |-> Ev(r), state |-> "running"]]
    \/ \E row \in ActiveRow :
         /\ Owns(r) /\ req[r].pc \in {"outcome_gate", "sent", "qa", "settle", "resume_sent"}
         /\ \/ row.state # "running"
            \/ row.run_id = N8n(r) /\ req[r].pc \in {"sent", "resume_sent"}
         /\ active_task_runs' = [active_task_runs EXCEPT ![Tk(r)] = row]

\* The execution that r supersedes in this step.
Superseded(r, x) == x # r /\ n8n[x] = "waiting" /\ n8n'[x] = "finished" /\ Tk(x) = Tk(r)

CalmMove(r) ==
    /\ KeepsEvents(r)
    /\ req[r].pc # "idle"
    /\ UNCHANGED <<recon, callbacks, acked>>
    /\ \A t \in Task, x \in Run : PausedAs(t, N8n(x))' => PausedAs(t, N8n(x))
    /\ \A x \in Run \ {r} :
         n8n'[x] = n8n[x] \/ (n8n[x] = "waiting" /\ n8n'[x] \in {"running", "finished"})
    /\ n8n'[r] = n8n[r] \/ n8n[r] = "none"
    /\ req'[r].pc \in {"sent", "resume_sent"} => n8n[r] = "none"
    /\ req'[r].pc \in {"qa", "settle"} => req[r].pc \in {"sent", "qa"}
    /\ req'[r].pc \in Resuming =>
         \/ req[r].pc \in Resuming /\ req'[r].paused = req[r].paused
         \/ PausedAs(Tk(r), req'[r].paused.run_id)
    /\ Execution(r)'
    /\ LocksMove(r)
    /\ Owns(r)' => /\ Running(Tk(r))'
                   /\ \/ Owns(r) \/ (req[r].pc = "lock" /\ ~Running(Tk(r)))
                      \/ \E x \in Run : Superseded(r, x)
    /\ req'[r].pc \in {"outcome_gate", "post", "sent"} => RunningAs(Tk(r), Pending(Ev(r)))'
    /\ req'[r].pc \in {"qa", "settle"} => RunningAs(Tk(r), req[r].run)'

LEMMA CalmMoveRequests ==
    ASSUME Inv, CalmInv, NEW r \in Request, CalmMove(r)
    PROVE  CalmRequests'
<1>1. /\ \A s \in Request : Tk(s)' = Tk(s) /\ Ev(s)' = Ev(s)
      /\ \A s \in Request \ {r} : req'[s] = req[s]
  BY DEF CalmMove, KeepsEvents, Tk
<1>2. ASSUME NEW s \in Request \ {r} PROVE Execution(s)'
  <2>1. Execution(s) /\ req'[s] = req[s] /\ Pending(Ev(s))' = Pending(Ev(s))
    BY <1>1 DEF CalmInv, CalmRequests, Pending
  <2>2. n8n'[s] = n8n[s] \/ (n8n[s] = "waiting" /\ n8n'[s] \in {"running", "finished"})
    BY DEF CalmMove, Request
  <2> QED BY <2>1, <2>2 DEF Execution, At, N8n
<1>3. ASSUME NEW x \in Run, n8n[x] # "none" PROVE n8n'[x] # "none"
  BY <1>3 DEF CalmMove
<1>4. ASSUME NEW s \in Request, NEW x \in Run, req'[s].pc \in Resuming,
             req'[s].paused.run_id = N8n(x)
      PROVE  n8n[x] # "none" /\ Tk(x) = Tk(s)
  <2>1. CASE req[s].pc \in Resuming /\ req'[s].paused = req[s].paused
    BY <1>4, <2>1 DEF CalmInv, CalmRequests
  <2>2. CASE s = r /\ PausedAs(Tk(r), req'[r].paused.run_id)
    <3>1. Tk(r) \in Task
      BY RequestFacts DEF CalmMove
    <3> QED BY <1>4, <2>2, <3>1 DEF CalmInv, CalmRequests
  <2> QED BY <1>1, <1>4, <2>1, <2>2 DEF CalmMove
<1>5. \A s \in Request : Execution(s)'
  BY <1>2 DEF CalmMove
<1>6. \A t \in Task, x \in Run : PausedAs(t, N8n(x))' => n8n'[x] # "none" /\ Tk(x)' = t
  BY <1>1, <1>3 DEF CalmInv, CalmRequests, CalmMove, Request
<1>7. \A s \in Request, x \in Run :
        req'[s].pc \in Resuming /\ req'[s].paused.run_id = N8n(x) =>
           n8n'[x] # "none" /\ Tk(x)' = Tk(s)'
  BY <1>1, <1>3, <1>4 DEF Request
<1> QED BY <1>5, <1>6, <1>7 DEF CalmRequests

\* A request takes the lock of nobody else.
LEMMA OthersKeepLock ==
    ASSUME Inv, CalmInv, NEW r \in Request, LocksMove(r), NEW y \in Run \ {r}, Owns(y)
    PROVE  active_task_runs'[Tk(y)] = active_task_runs[Tk(y)]
<1>1. /\ active_task_runs \in [Task -> ActiveRow \cup {None}]
      /\ Tk(y) \in Task /\ Running(Tk(y))
  BY OwnerFacts DEF Inv, TypeOK, StoreTypeOK
<1>2. Owns(r) => Tk(r) # Tk(y)
  BY DEF CalmInv, CalmLocks, Request
<1> QED BY <1>1, <1>2 DEF LocksMove

\* Only its own request becomes an owner.
LEMMA OthersOwn ==
    ASSUME Inv, CalmInv, NEW r \in Request, CalmMove(r), NEW y \in Run \ {r}
    PROVE  /\ Owns(y)' => Owns(y)
           /\ Superseded(r, y) => ~Owns(y)'
<1>1. req'[y] = req[y] /\ callbacks' = callbacks
  BY DEF CalmMove, KeepsEvents, Request
<1>2. n8n'[y] \in Live => n8n[y] \in Live
  BY DEF CalmMove, Live
<1>3. ASSUME Superseded(r, y) PROVE ~Owns(y)'
  <2>1. n8n[y] = "waiting" /\ n8n'[y] = "finished" /\ Execution(y)
    BY <1>3 DEF Superseded, CalmInv, CalmRequests, Request
  <2>2. req[y].pc \notin {"outcome_gate", "post", "sent", "qa", "settle"}
    BY <2>1 DEF Execution, Before, At
  <2>3. \A m \in callbacks : m.run = y => m.status = "waiting_input"
    BY <2>1 DEF CalmInv, CalmCallbacks, CallbackCalm, Over
  <2> QED BY <1>1, <2>1, <2>2, <2>3 DEF Owns, Live, Frees
<1> QED BY <1>1, <1>2, <1>3 DEF Owns, Frees

LEMMA CalmMoveLocks ==
    ASSUME Inv, CalmInv, NEW r \in Request, CalmMove(r)
    PROVE  CalmLocks'
<1>1. /\ \A s \in Request : Tk(s)' = Tk(s) /\ Ev(s)' = Ev(s)
      /\ \A s \in Request \ {r} : req'[s] = req[s]
      /\ Request = Run
  BY DEF CalmMove, KeepsEvents, Tk, Request
<1>2. ASSUME NEW x \in Run, Owns(x)' PROVE Running(Tk(x))'
  <2>1. CASE x = r
    BY <1>2, <2>1 DEF CalmMove
  <2>2. CASE x # r
    <3>1. Owns(x)
      BY <1>2, <2>2, OthersOwn
    <3>2. active_task_runs'[Tk(x)] = active_task_runs[Tk(x)] /\ Running(Tk(x))
      BY <2>2, <3>1, OthersKeepLock, OwnerFacts DEF CalmMove
    <3> QED BY <1>1, <3>2 DEF Running
  <2> QED BY <2>1, <2>2
<1>3. ASSUME NEW x \in Run, NEW y \in Run, Owns(x)', Owns(y)', Tk(x) = Tk(y)
      PROVE  x = y
  <2>1. ASSUME NEW z \in Run \ {r}, Owns(z)', Owns(r)', Tk(z) = Tk(r) PROVE FALSE
    <3>1. Owns(z) /\ Running(Tk(r))
      BY <2>1, OthersOwn, OwnerFacts
    <3>2. ~Owns(r)
      BY <1>1, <2>1, <3>1 DEF CalmInv, CalmLocks
    <3>3. PICK w \in Run : Superseded(r, w)
      BY <2>1, <3>1, <3>2 DEF CalmMove
    <3>4. Owns(w) /\ Tk(w) = Tk(z) /\ w # r
      BY <2>1, <3>3 DEF Superseded, Owns, Live
    <3>5. w = z
      BY <3>1, <3>4 DEF CalmInv, CalmLocks
    <3> QED BY <2>1, <3>3, <3>5, OthersOwn
  <2>2. CASE x # r /\ y # r
    <3>1. Owns(x) /\ Owns(y)
      BY <1>3, <2>2, OthersOwn
    <3> QED BY <1>3, <3>1 DEF CalmInv, CalmLocks
  <2> QED BY <1>1, <1>3, <2>1, <2>2
<1>4. ASSUME NEW s \in Request, req'[s].pc \in {"outcome_gate", "post", "sent"}
      PROVE  RunningAs(Tk(s), Pending(Ev(s)))'
  <2>1. CASE s = r
    BY <1>4, <2>1 DEF CalmMove
  <2>2. CASE s # r
    <3>1. RunningAs(Tk(s), Pending(Ev(s))) /\ Owns(s)
      BY <1>1, <1>4, <2>2 DEF CalmInv, CalmLocks, Owns
    <3>2. active_task_runs'[Tk(s)] = active_task_runs[Tk(s)]
      BY <1>1, <2>2, <3>1, OthersKeepLock DEF CalmMove
    <3> QED BY <1>1, <3>1, <3>2 DEF RunningAs, Running, Pending
  <2> QED BY <2>1, <2>2
<1>5. ASSUME NEW s \in Request, req'[s].pc \in {"qa", "settle"}
      PROVE  RunningAs(Tk(s), req[s].run)'
  <2>1. CASE s = r
    BY <1>5, <2>1 DEF CalmMove
  <2>2. CASE s # r
    <3>1. RunningAs(Tk(s), req[s].run) /\ Owns(s) /\ req'[s].run = req[s].run
      BY <1>1, <1>5, <2>2 DEF CalmInv, CalmLocks, Owns
    <3>2. active_task_runs'[Tk(s)] = active_task_runs[Tk(s)]
      BY <1>1, <2>2, <3>1, OthersKeepLock DEF CalmMove
    <3> QED BY <1>1, <3>1, <3>2 DEF RunningAs, Running
  <2> QED BY <2>1, <2>2
<1>6. \A x, y \in Run : Owns(x)' /\ Owns(y)' /\ Tk(x)' = Tk(y)' => x = y
  BY <1>1, <1>3
<1>7. \A x \in Run : Owns(x)' => Running(Tk(x))'
  BY <1>2
<1> QED BY <1>4, <1>5, <1>6, <1>7 DEF CalmLocks

LEMMA OverStays ==
    ASSUME Inv, CalmInv, NEW r \in Request, CalmMove(r), NEW x \in Run, Over(x)
    PROVE  /\ Over(x)'
           /\ ~HasLock(x) => ~HasLock(x)'
<1>1. /\ \A s \in Request : Tk(s)' = Tk(s)
      /\ \A s \in Request \ {r} : req'[s] = req[s]
      /\ x \in Request
  BY DEF CalmMove, KeepsEvents, Tk, Request
<1>2. n8n'[x] = "finished"
  BY DEF CalmMove, Over
<1>3. req'[x].pc \notin {"sent", "qa", "settle", "resume_sent"}
  BY <1>1 DEF CalmMove, Over
<1>4. ASSUME ~HasLock(x), HasLock(x)' PROVE FALSE
  <2>1. /\ active_task_runs \in [Task -> ActiveRow \cup {None}] /\ Tk(x) \in Task
        /\ Tk(r) \in Task
    <3>1. req[x].pc # "idle"
      BY DEF Inv, Attached, Over
    <3> QED BY <1>1, <3>1, RequestFacts DEF CalmMove, Inv, TypeOK, StoreTypeOK
  <2>2. /\ active_task_runs'[Tk(x)] # None
        /\ active_task_runs'[Tk(x)].run_id = N8n(x)
        /\ active_task_runs'[Tk(x)].state = "running"
    BY <1>1, <1>4 DEF HasLock, RunningAs, Running, N8n
  <2>3. active_task_runs'[Tk(x)] # active_task_runs[Tk(x)]
    BY <1>4, <2>2 DEF HasLock, RunningAs, Running
  <2>4. CASE active_task_runs' = [active_task_runs EXCEPT ![Tk(r)] =
               [run_id |-> Pending(Ev(r)), event_id |-> Ev(r), state |-> "running"]]
    BY <2>1, <2>2, <2>3, <2>4, RunIds
  <2>5. CASE \E row \in ActiveRow :
               /\ req[r].pc \in {"outcome_gate", "sent", "qa", "settle", "resume_sent"}
               /\ \/ row.state # "running"
                  \/ row.run_id = N8n(r) /\ req[r].pc \in {"sent", "resume_sent"}
               /\ active_task_runs' = [active_task_runs EXCEPT ![Tk(r)] = row]
    <3>1. PICK row \in ActiveRow :
               /\ \/ row.state # "running"
                  \/ row.run_id = N8n(r) /\ req[r].pc \in {"sent", "resume_sent"}
               /\ active_task_runs' = [active_task_runs EXCEPT ![Tk(r)] = row]
      BY <2>5
    <3>2. active_task_runs'[Tk(x)] = row
      BY <2>1, <2>3, <3>1
    <3>3. N8n(x) = N8n(r) /\ req[r].pc \in {"sent", "resume_sent"}
      BY <2>2, <3>1, <3>2
    <3> QED BY <3>3, RunIds DEF Over, Request
  <2> QED BY <2>3, <2>4, <2>5 DEF CalmMove, LocksMove
<1> QED BY <1>2, <1>3, <1>4 DEF Over

LEMMA CalmMoveCallbacks ==
    ASSUME Inv, CalmInv, NEW r \in Request, CalmMove(r)
    PROVE  CalmCallbacks'
<1>1. /\ \A s \in Request : Tk(s)' = Tk(s)
      /\ \A s \in Request \ {r} : req'[s] = req[s]
      /\ callbacks' = callbacks /\ acked' = acked /\ Request = Run
      /\ acked \subseteq Run
  BY DEF CalmMove, KeepsEvents, Tk, Request, Inv, TypeOK
<1>2. ASSUME NEW m \in callbacks PROVE CallbackCalm(m)'
  <2>1. m.run \in Run /\ CallbackCalm(m) /\ Tk(m.run)' = Tk(m.run)
    BY <1>1, CallbackFacts
  <2>2. n8n'[m.run] # "none" /\ req'[m.run].pc \notin {"sent", "qa", "settle", "resume_sent"}
    BY <1>1, <2>1 DEF CalmMove, CallbackCalm
  <2>3. m.status # "waiting_input" => Over(m.run)'
    BY <2>1, OverStays DEF CallbackCalm
  <2>4. Proper(m)'
    BY <2>1 DEF CallbackCalm, Proper, N8n
  <2>5. m.named /\ m.pc = "clear" => ~HasLock(m.run)'
    BY <2>1, OverStays DEF CallbackCalm, Proper
  <2>6. ASSUME ~m.named, m.pc = "release" PROVE RunningAs(Tk(m.run), m.target)'
    <3>1. Owns(m.run) /\ RunningAs(Tk(m.run), m.target) /\ Over(m.run)
      BY <2>1, <2>6 DEF Owns, Frees, CallbackCalm, Proper
    <3>2. active_task_runs'[Tk(m.run)] = active_task_runs[Tk(m.run)]
      <4>1. CASE m.run # r
        BY <2>1, <3>1, <4>1, OthersKeepLock DEF CalmMove
      <4>2. CASE m.run = r
        <5>1. req[r].pc \notin Before /\ req[r].pc \notin {"sent", "qa", "settle", "resume_sent"}
          BY <3>1, <4>2 DEF Over, CalmInv, CalmRequests, Execution
        <5> QED BY <4>2, <5>1 DEF CalmMove, LocksMove, Before
      <4> QED BY <4>1, <4>2
    <3> QED BY <2>1, <3>1, <3>2 DEF RunningAs, Running
  <2>7. ASSUME m.named, m.status # "waiting_input", HasLock(m.run)', NEW y \in Run, Owns(y)',
               Tk(y) = Tk(m.run)
        PROVE  FALSE
    <3>1. HasLock(m.run)
      BY <2>1, <2>7, OverStays DEF CallbackCalm
    <3>2. Running(Tk(m.run)) /\ \A z \in Run : Owns(z) => Tk(z) # Tk(m.run)
      BY <2>1, <2>7, <3>1 DEF CallbackCalm, HasLock, RunningAs
    <3>3. y = r /\ ~Owns(r)
      BY <2>7, <3>2, OthersOwn
    <3>4. PICK w \in Run : Superseded(r, w)
      BY <2>7, <3>2, <3>3 DEF CalmMove
    <3> QED BY <2>7, <3>2, <3>3, <3>4 DEF Superseded, Owns, Live
  <2>8. m.named /\ m.status # "waiting_input" /\ HasLock(m.run)' =>
          \A y \in Run : Owns(y)' => Tk(y)' # Tk(m.run)'
    BY <1>1, <2>1, <2>7
  <2> QED BY <2>2, <2>3, <2>4, <2>5, <2>6, <2>8 DEF CallbackCalm
<1>3. ASSUME NEW x \in acked PROVE Over(x)' /\ ~HasLock(x)' /\ ~HasPause(x)'
  <2>1. Over(x) /\ ~HasLock(x) /\ ~HasPause(x) /\ x \in Run
    BY <1>1 DEF CalmInv, CalmCallbacks
  <2>2. Tk(x) \in Task /\ Tk(x)' = Tk(x)
    <3>1. req[x].pc # "idle"
      BY <2>1 DEF Inv, Attached, Over
    <3> QED BY <1>1, <2>1, <3>1, RequestFacts
  <2>3. ~HasPause(x)'
    BY <2>1, <2>2 DEF CalmMove, PausedAs, HasPause
  <2> QED BY <2>1, <2>3, OverStays
<1>4. \A m, n \in callbacks : m.run = n.run => m = n
  BY DEF CalmInv, CalmCallbacks
<1>5. \A x \in acked : \A m \in callbacks : m.run = x => m.status # "waiting_input" /\ m.named
  BY DEF CalmInv, CalmCallbacks
<1> QED BY <1>1, <1>2, <1>3, <1>4, <1>5 DEF CalmCallbacks

LEMMA CalmMoveInv ==
    ASSUME Inv, CalmInv, NEW r \in Request, CalmMove(r)
    PROVE  CalmInv'
<1>1. CalmPasses'
  <2>1. recon[Boot].step # "list"
    BY DEF CalmMove, CalmInv, CalmPasses
  <2> QED BY <2>1 DEF CalmMove, CalmInv, CalmPasses
<1> QED BY <1>1, CalmMoveRequests, CalmMoveLocks, CalmMoveCallbacks DEF CalmInv

-----------------------------------------------------------------------------
(* The steps of a request, one by one *)

\* Where the execution of a request is on its own.
FreePC == {"done", "outcome_row", "mark", "outcome_dispatch", "resume_clear"}

\* What the steps that say nothing to n8n leave as it is.
CalmQuiet(r) ==
    /\ KeepsEvents(r) /\ req[r].pc # "idle"
    /\ UNCHANGED <<recon, callbacks, acked, n8n>>
    /\ paused_task_runs' = paused_task_runs \/ clear_paused_run(Tk(r), req[r].paused.run_id)

LEMMA QuietPaused ==
    ASSUME Inv, NEW r \in Request, CalmQuiet(r)
    PROVE  \A t \in Task, x \in Run : PausedAs(t, N8n(x))' => PausedAs(t, N8n(x))
<1>1. paused_task_runs \in [Task -> PausedRow \cup {None}]
  BY DEF Inv, TypeOK, StoreTypeOK
<1> QED BY <1>1 DEF CalmQuiet, clear_paused_run, PausedAs, N8n

LEMMA QuietIsCalm ==
    ASSUME NEW r \in Request, req[r].pc # "idle", Quiet, KeepsEvents(r),
           paused_task_runs' = paused_task_runs \/ clear_paused_run(Tk(r), req[r].paused.run_id)
    PROVE  CalmQuiet(r)
  BY DEF CalmQuiet, Quiet, QuietButPost, reconVars

LEMMA ToFree ==
    ASSUME Inv, CalmInv, NEW r \in Request, CalmQuiet(r), req'[r].pc \in FreePC,
           req'[r].pc = "resume_clear" =>
             req[r].pc \in Resuming /\ req'[r].paused = req[r].paused,
           LocksMove(r),
           n8n[r] \in Live => Running(Tk(r))' \/ UNCHANGED active_task_runs
    PROVE  CalmMove(r)
<1>1. Tk(r)' = Tk(r) /\ r \in Run /\ req'[r].pc \notin {"sent", "resume_sent", "qa", "settle",
                                                         "outcome_gate", "post"}
  BY DEF CalmQuiet, KeepsEvents, Tk, FreePC, Request
<1>2. Execution(r)'
  BY DEF FreePC, Execution, Before, Cancelling, At
<1>3. ASSUME Owns(r)' PROVE Owns(r) /\ Running(Tk(r))'
  <2>1. n8n[r] \in Live \/ \E m \in callbacks : m.run = r /\ Frees(m)
    BY <1>1, <1>3 DEF Owns, CalmQuiet, Frees
  <2>2. Owns(r) /\ Running(Tk(r))
    BY <1>1, <2>1, OwnerFacts DEF Owns
  <2>3. UNCHANGED active_task_runs \/ Running(Tk(r))'
    <3>1. CASE \E m \in callbacks : m.run = r /\ Frees(m)
      <4>1. Over(r)
        BY <3>1, CallbackFacts DEF CallbackCalm, Frees
      <4>2. req[r].pc \notin Before \cup {"sent", "qa", "settle", "resume_sent"}
        BY <4>1 DEF Over, CalmInv, CalmRequests, Execution
      <4> QED BY <4>2 DEF LocksMove, Before
    <3> QED BY <2>1, <3>1
  <2> QED BY <1>1, <2>2, <2>3 DEF Running
<1>4. req'[r].pc \in Resuming => req'[r].pc = "resume_clear"
  BY DEF FreePC, Resuming
<1> QED BY <1>1, <1>2, <1>3, <1>4, QuietPaused DEF CalmMove, CalmQuiet

LEMMA ToBefore ==
    ASSUME Inv, CalmInv, NEW r \in Request, CalmQuiet(r),
           req[r].pc \in Before, req'[r].pc \in Before, req'[r].run = req[r].run,
           req'[r].pc \in Resuming =>
             \/ req[r].pc \in Resuming /\ req'[r].paused = req[r].paused
             \/ PausedAs(Tk(r), req'[r].paused.run_id),
           LocksMove(r),
           req'[r].pc \in {"outcome_gate", "post"} =>
             /\ RunningAs(Tk(r), Pending(Ev(r)))'
             /\ req[r].pc = "lock" /\ ~Running(Tk(r))
    PROVE  CalmMove(r)
<1>1. n8n[r] = "none" /\ req[r].run = None
  BY DEF CalmInv, CalmRequests, Execution
<1>2. req'[r].pc \notin Cancelling \cup
        {"sent", "resume_sent", "qa", "settle", "checkpoint", "dead"}
  BY DEF Before, Cancelling
<1>3. Execution(r)'
  BY <1>1, <1>2 DEF Execution, At, CalmQuiet
<1>4. Owns(r)' => req'[r].pc \in {"outcome_gate", "post"}
  <2>1. \A m \in callbacks : m.run # r
    BY <1>1, CallbackFacts DEF CallbackCalm
  <2> QED BY <1>1, <1>2, <2>1 DEF Owns, CalmQuiet, Live
<1>5. RunningAs(Tk(r), Pending(Ev(r)))' => Running(Tk(r))'
  BY DEF RunningAs
<1> QED BY <1>1, <1>2, <1>3, <1>4, <1>5, QuietPaused DEF CalmMove, CalmQuiet

\* The methods that free or rename the lock of a request.
LEMMA LockMoves ==
    ASSUME Inv, NEW r \in Request, Owns(r), NEW id,
           req[r].pc \in {"outcome_gate", "sent", "qa", "settle", "resume_sent"}
    PROVE  /\ \A d : persist_terminal_decision(Tk(r), Ev(r), d, id) =>
                 LocksMove(r) /\ paused_task_runs' = paused_task_runs
           /\ set_active_run_id(Tk(r), id, N8n(r)) /\ req[r].pc \in {"sent", "resume_sent"} =>
                 /\ LocksMove(r) /\ paused_task_runs' = paused_task_runs
                 /\ RunningAs(Tk(r), id) => /\ active_task_runs'[Tk(r)] # None
                                            /\ active_task_runs'[Tk(r)].state = "running"
                                            /\ active_task_runs'[Tk(r)].run_id = N8n(r)
<1>1. Tk(r) \in Task /\ N8n(r) \in RunId
  BY RequestFacts, RunIds DEF Request
<1>2. CASE ~RunningAs(Tk(r), id)
  BY <1>2 DEF persist_terminal_decision, set_active_run_id, LocksMove, storeVars
<1>3. CASE RunningAs(Tk(r), id)
  <2>1. /\ active_task_runs \in [Task -> ActiveRow \cup {None}]
        /\ active_task_runs[Tk(r)] \in ActiveRow
    BY <1>1, <1>3 DEF Inv, TypeOK, StoreTypeOK, RunningAs, Running
  <2> DEFINE freed == [active_task_runs[Tk(r)] EXCEPT !.state = "released"]
             named == [active_task_runs[Tk(r)] EXCEPT !.run_id = N8n(r)]
  <2>2. freed \in ActiveRow /\ freed.state = "released"
    BY <2>1 DEF ActiveRow
  <2>3. named \in ActiveRow /\ named.run_id = N8n(r) /\ named.state = "running"
    BY <1>1, <1>3, <2>1 DEF ActiveRow, RunningAs, Running
  <2>4. ASSUME NEW d, persist_terminal_decision(Tk(r), Ev(r), d, id)
        PROVE  /\ active_task_runs' = [active_task_runs EXCEPT ![Tk(r)] = freed]
               /\ paused_task_runs' = paused_task_runs
    BY <1>1, <1>3, <2>1, <2>4 DEF persist_terminal_decision
  <2>5. ASSUME set_active_run_id(Tk(r), id, N8n(r))
        PROVE  /\ active_task_runs' = [active_task_runs EXCEPT ![Tk(r)] = named]
               /\ paused_task_runs' = paused_task_runs
    BY <1>1, <1>3, <2>1, <2>5 DEF set_active_run_id
  <2>6. ASSUME set_active_run_id(Tk(r), id, N8n(r)) PROVE active_task_runs'[Tk(r)] = named
    BY <1>1, <2>1, <2>5, <2>6
  <2>7. named # None
    BY <2>3, NoneIsNoValue
  <2> HIDE DEF freed, named
  <2>8. ASSUME NEW d, persist_terminal_decision(Tk(r), Ev(r), d, id)
        PROVE  LocksMove(r)
    BY <2>2, <2>4, <2>8 DEF LocksMove
  <2>9. ASSUME set_active_run_id(Tk(r), id, N8n(r)), req[r].pc \in {"sent", "resume_sent"}
        PROVE  LocksMove(r)
    BY <2>3, <2>5, <2>9 DEF LocksMove
  <2> QED BY <2>3, <2>4, <2>5, <2>6, <2>7, <2>8, <2>9
<1> QED BY <1>2, <1>3

\* Steps that update the record, reply, or read.
LEMMA CalmPlain ==
    ASSUME Calm, Inv, CalmInv, NEW r \in Request,
           \/ outcome_only(r) \/ mark(r) \/ outcome_row(r) \/ outcome_dispatch(r)
           \/ resume_clear(r)
    PROVE  CalmMove(r)
<1>1. /\ Quiet
      /\ req[r].pc \in {"outcome_only", "mark", "outcome_row", "outcome_dispatch", "resume_clear"}
  BY DEF outcome_only, mark, outcome_row, outcome_dispatch, resume_clear, At
<1>2. UNCHANGED active_task_runs /\ LocksMove(r)
  BY CalmEnv DEF outcome_only, mark, outcome_row, outcome_dispatch, resume_clear, LocksMove,
     storeVars, update_processed_event_decision, clear_paused_run
<1>3. paused_task_runs' = paused_task_runs \/ clear_paused_run(Tk(r), req[r].paused.run_id)
  BY CalmEnv DEF outcome_only, mark, outcome_row, outcome_dispatch, resume_clear,
     storeVars, update_processed_event_decision
<1>4. KeepsEvents(r) /\ req'[r].pc \in {"done", "outcome_row", "mark"}
  BY CalmEnv, MoveFields DEF outcome_only, mark, outcome_row, outcome_dispatch, resume_clear
<1>5. CalmQuiet(r)
  BY <1>1, <1>3, <1>4, QuietIsCalm
<1> QED BY <1>1, <1>2, <1>4, <1>5, ToFree DEF FreePC

\* Steps that write a terminal decision and give the lock back.
LEMMA CalmEnds ==
    ASSUME Calm, Inv, CalmInv, NEW r \in Request,
           \/ outcome_gate(r) \/ dispatch_failed(r) \/ qa_invalid(r) \/ settle(r)
    PROVE  CalmMove(r)
<1>1. Quiet /\ req[r].pc \in {"outcome_gate", "sent", "qa", "settle"}
  BY DEF outcome_gate, dispatch_failed, qa_invalid, settle, At
<1>2. Execution(r) /\ Owns(r)
  BY <1>1 DEF CalmInv, CalmRequests, Owns
<1>3. n8n[r] \notin Live
  <2>1. req[r].pc = "sent" => req[r].run = None
    BY CalmEnv DEF outcome_gate, dispatch_failed, qa_invalid, settle, At
  <2>2. N8n(r) # None
    BY NoneIsNoValue, RunIds DEF Request
  <2> QED BY <1>1, <1>2, <2>1, <2>2 DEF Execution, At, Live, Before
<1>4. \E id, d : persist_terminal_decision(Tk(r), Ev(r), d, id)
  BY CalmEnv DEF outcome_gate, dispatch_failed, qa_invalid, settle
<1>5. LocksMove(r) /\ paused_task_runs' = paused_task_runs
  BY <1>1, <1>2, <1>4, LockMoves
<1>6. KeepsEvents(r) /\ req'[r].pc \in {"done", "outcome_row"}
  BY CalmEnv, MoveFields DEF outcome_gate, dispatch_failed, qa_invalid, settle
<1>7. CalmQuiet(r)
  BY <1>1, <1>5, <1>6, QuietIsCalm
<1> QED BY <1>3, <1>5, <1>6, <1>7, ToFree DEF FreePC

LEMMA CalmReads ==
    ASSUME Calm, Inv, CalmInv, NEW r \in Request,
           read_active_run(r) \/ read_paused_and_branch(r)
    PROVE  CalmMove(r)
<1>1. /\ req[r].pc \in {"get_active", "get_paused"} /\ req \in [Request -> RequestState]
      /\ UNCHANGED <<storeVars, task_status, clock, envVars, crashes, history>>
  BY DEF read_active_run, read_paused_and_branch, At, Inv, TypeOK, Quiet, QuietButPost,
     reconVars, envVars, history
<1>2. UNCHANGED recon
  BY DEF Calm, read_active_run, read_paused_and_branch, Quiet, QuietButPost, reconVars
<1>3. /\ KeepsEvents(r) /\ req'[r].run = req[r].run
      /\ req'[r].pc \in {"get_paused", "resume_record", "outcome_only", "lock"}
      /\ req'[r].pc = "resume_record" =>
           req'[r].paused = paused_task_runs[Tk(r)] /\ paused_task_runs[Tk(r)] # None
  <2>1. CASE read_active_run(r)
    BY <1>1, <2>1 DEF read_active_run, KeepsEvents, Ev, RequestState
  <2>2. CASE read_paused_and_branch(r)
    <3>1. ~WantsCancel(r, req[r].active)
      BY <1>1, RequestFacts DEF Calm, WantsCancel, Body
    <3>2. ~Checkpoint
      BY DEF Calm
    <3> DEFINE keep == [req EXCEPT ![r].paused = paused_task_runs[Tk(r)]]
               drop == [req EXCEPT ![r].active = None]
    <3>3. \/ /\ req' = [keep EXCEPT ![r].pc = "resume_record"]
             /\ paused_task_runs[Tk(r)] # None
          \/ \E d : req' = [drop EXCEPT ![r].pc = "outcome_only", ![r].decision = d]
          \/ req' = [drop EXCEPT ![r].pc = "lock"]
      BY <2>2, <3>1, <3>2 DEF read_paused_and_branch, WantsResume
    <3> QED BY <1>1, <3>3 DEF KeepsEvents, Ev, RequestState
  <2> QED BY <2>1, <2>2
<1>4. req'[r].pc \in Resuming => PausedAs(Tk(r), req'[r].paused.run_id)
  BY <1>3 DEF Resuming, PausedAs
<1>5. CalmQuiet(r) /\ LocksMove(r)
  BY <1>1, <1>2, <1>3 DEF CalmQuiet, LocksMove, storeVars, envVars, history
<1> QED BY <1>1, <1>3, <1>4, <1>5, ToBefore DEF Before

LEMMA CalmAcquires ==
    ASSUME Calm, Inv, CalmInv, NEW r \in Request, acquire_lock(r)
    PROVE  CalmMove(r)
<1> DEFINE d == LockDecision(Ev(r), req[r].at)
<1>1. req[r].pc = "lock" /\ Quiet
  BY DEF acquire_lock, At
<1>2. Ev(r) \in Event /\ Tk(r) \in Task /\ TaskOf[Ev(r)] = Tk(r)
  BY <1>1, RequestFacts
<1>3. /\ KeepsEvents(r) /\ req'[r].pc \in {"done", "outcome_row", "mark", "outcome_gate", "post"}
      /\ req'[r].pc \in {"outcome_gate", "post"} => d = "dispatch" /\ req'[r].run = req[r].run
  <2>1. d \in {"skip_duplicate", "stale_event", "reject_active_run", "dispatch"}
    BY DEF LockDecision
  <2>2. CASE d = "skip_duplicate"
    BY <2>2, MoveFields DEF acquire_lock
  <2>3. CASE d \in {"stale_event", "reject_active_run"}
    BY <2>3, MoveFields DEF acquire_lock
  <2>4. CASE d = "dispatch"
    BY <2>4, MoveFields DEF acquire_lock
  <2> QED BY <2>1, <2>2, <2>3, <2>4
<1>4. /\ paused_task_runs' = paused_task_runs /\ CalmQuiet(r)
  <2>1. paused_task_runs' = paused_task_runs
    BY DEF acquire_lock, record_event_and_acquire_lock
  <2> QED BY <1>1, <1>3, <2>1, QuietIsCalm
<1>5. CASE d = "dispatch"
  <2>1. /\ ~Running(Tk(r))
        /\ active_task_runs' = [active_task_runs EXCEPT ![Tk(r)] =
              [run_id |-> Pending(Ev(r)), event_id |-> Ev(r), state |-> "running"]]
    BY <1>2, <1>5 DEF acquire_lock, record_event_and_acquire_lock, LockDecision
  <2>2. LocksMove(r)
    BY <1>1, <2>1 DEF LocksMove
  <2> DEFINE row == [run_id |-> Pending(Ev(r)), event_id |-> Ev(r), state |-> "running"]
  <2>3. row # None /\ row.state = "running" /\ row.run_id = Pending(Ev(r))
    <3>1. row \in ActiveRow
      BY <1>2 DEF ActiveRow, RunId
    <3> QED BY <3>1, NoneIsNoValue
  <2>4. active_task_runs'[Tk(r)] = row
    BY <1>2, <2>1 DEF Inv, TypeOK, StoreTypeOK
  <2> HIDE DEF row
  <2>5. RunningAs(Tk(r), Pending(Ev(r)))'
    <3>1. Tk(r)' = Tk(r) /\ Ev(r)' = Ev(r)
      BY <1>3 DEF KeepsEvents, Tk
    <3> QED BY <2>3, <2>4, <3>1 DEF RunningAs, Running
  <2>6. n8n[r] = "none"
    BY <1>1 DEF CalmInv, CalmRequests, Execution, Before
  <2>7. CASE req'[r].pc \in {"done", "outcome_row", "mark"}
    BY <1>4, <2>2, <2>6, <2>7, ToFree DEF FreePC, Live
  <2>8. CASE req'[r].pc \in {"outcome_gate", "post"}
    BY <1>1, <1>3, <1>4, <2>1, <2>2, <2>5, <2>8, ToBefore DEF Before, Resuming
  <2> QED BY <1>3, <2>7, <2>8
<1>6. CASE d # "dispatch"
  <2>1. UNCHANGED active_task_runs
    BY <1>6 DEF acquire_lock, record_event_and_acquire_lock
  <2>2. LocksMove(r)
    BY <2>1 DEF LocksMove
  <2> QED BY <1>1, <1>3, <1>4, <1>6, <2>1, <2>2, ToFree DEF FreePC
<1> QED BY <1>5, <1>6

LEMMA CalmResumes ==
    ASSUME Calm, Inv, CalmInv, NEW r \in Request,
           resume_record(r) \/ resume_failed(r)
    PROVE  CalmMove(r)
<1>1. Quiet /\ req[r].pc \in {"resume_record", "resume_sent"}
  BY DEF resume_record, record_operator_event, resume_failed, At
<1>2. UNCHANGED <<active_task_runs, paused_task_runs>> /\ LocksMove(r)
  BY DEF resume_record, record_operator_event, record_processed_event, resume_failed,
     update_processed_event_decision, LocksMove
<1>3. /\ KeepsEvents(r) /\ req'[r].pc \in {"done", "outcome_row", "mark", "resume_post"}
      /\ req'[r].pc = "resume_post" => /\ req[r].pc = "resume_record"
                                       /\ req'[r].run = req[r].run
                                       /\ req'[r].paused = req[r].paused
  <2>1. CASE resume_record(r)
    BY <2>1, MoveFields DEF resume_record, record_operator_event, At
  <2>2. CASE resume_failed(r)
    BY <2>2, MoveFields DEF resume_failed
  <2> QED BY <2>1, <2>2
<1>4. CalmQuiet(r)
  BY <1>1, <1>2, <1>3, QuietIsCalm
<1>5. CASE req'[r].pc = "resume_post"
  BY <1>2, <1>3, <1>4, <1>5, ToBefore DEF Before, Resuming
<1>6. CASE req'[r].pc # "resume_post"
  <2>1. req[r].pc = "resume_sent" => n8n[r] \notin Live
    <3>1. req[r].pc = "resume_sent" => req[r].run = None
      BY CalmEnv DEF resume_record, resume_failed, At
    <3>2. Execution(r) /\ N8n(r) # None
      BY NoneIsNoValue, RunIds DEF CalmInv, CalmRequests, Request
    <3> QED BY <3>1, <3>2 DEF Execution, At, Live
  <2> QED BY <1>1, <1>2, <1>3, <1>4, <1>6, <2>1, ToFree DEF FreePC
<1> QED BY <1>5, <1>6

LEMMA CalmResumed ==
    ASSUME Calm, Inv, CalmInv, NEW r \in Request, resumed(r)
    PROVE  CalmMove(r)
<1>1. /\ Quiet /\ At(r, "resume_sent") /\ req[r].run # None /\ Goto(r, "resume_clear")
      /\ \/ set_active_run_id(Tk(r), req[r].paused.run_id, req[r].run)
         \/ UNCHANGED storeVars
  BY DEF resumed
<1>2. /\ KeepsEvents(r) /\ req'[r].pc = "resume_clear" /\ req'[r].paused = req[r].paused
      /\ Tk(r) \in Task /\ req[r].pc # "idle" /\ r \in Run
  BY <1>1, MoveFields, RequestFacts DEF At, Request
<1>3. Execution(r)
  BY DEF CalmInv, CalmRequests
<1>4. CalmQuiet(r)
  BY <1>1, <1>2, QuietIsCalm DEF set_active_run_id, storeVars
<1>5. CASE UNCHANGED active_task_runs
  BY <1>1, <1>2, <1>4, <1>5, ToFree DEF FreePC, Resuming, At, LocksMove
<1>6. CASE active_task_runs' # active_task_runs
  <2> DEFINE id == req[r].paused.run_id
  <2>1. /\ set_active_run_id(Tk(r), id, req[r].run) /\ RunningAs(Tk(r), id)
        /\ active_task_runs \in [Task -> ActiveRow \cup {None}]
    BY <1>1, <1>6 DEF set_active_run_id, storeVars, Inv, TypeOK, StoreTypeOK
  <2>2. req[r].run # id
    <3>1. active_task_runs[Tk(r)] \in ActiveRow
      BY <1>2, <2>1 DEF RunningAs, Running
    <3>2. active_task_runs' =
            [active_task_runs EXCEPT ![Tk(r)] =
               [active_task_runs[Tk(r)] EXCEPT !.run_id = req[r].run]]
      BY <1>2, <2>1, <3>1 DEF set_active_run_id
    <3>3. ASSUME req[r].run = id PROVE FALSE
      <4>1. [active_task_runs[Tk(r)] EXCEPT !.run_id = req[r].run] = active_task_runs[Tk(r)]
        BY <2>1, <3>1, <3>3 DEF RunningAs, ActiveRow
      <4> QED BY <1>2, <1>6, <2>1, <3>2, <4>1
    <3> QED BY <3>3
  <2>3. req[r].run = N8n(r) /\ n8n[r] = "running"
    BY <1>1, <1>3, <2>2 DEF Execution
  <2>4. Owns(r) /\ req[r].pc = "resume_sent"
    BY <1>1, <2>3 DEF Owns, Live, At
  <2>5. /\ LocksMove(r)
        /\ active_task_runs'[Tk(r)] # None
        /\ active_task_runs'[Tk(r)].state = "running"
    BY <2>1, <2>3, <2>4, LockMoves
  <2>6. Running(Tk(r))'
    <3>1. Tk(r)' = Tk(r)
      BY <1>2 DEF KeepsEvents, Tk
    <3> QED BY <2>5, <3>1 DEF Running
  <2> QED BY <1>1, <1>2, <1>4, <2>5, <2>6, ToFree DEF FreePC, Resuming, At
<1> QED BY <1>5, <1>6

LEMMA CalmPosts ==
    ASSUME Inv, CalmInv, NEW r \in Request, post_dispatch(r)
    PROVE  CalmMove(r)
<1>1. /\ req[r].pc = "post" /\ UNCHANGED <<storeVars, recon, callbacks, acked>>
      /\ req \in [Request -> RequestState]
      /\ n8n \in [Run -> {"none", "running", "waiting", "finished"}]
  BY DEF post_dispatch, QuietButPost, reconVars, At, Inv, TypeOK
<1>2. n8n[r] = "none" /\ req[r].run = None /\ RunningAs(Tk(r), Pending(Ev(r))) /\ Owns(r)
  BY <1>1 DEF CalmInv, CalmRequests, CalmLocks, Execution, Before, Owns
<1>3. /\ KeepsEvents(r) /\ req'[r].pc = "sent"
      /\ \/ req'[r].run = N8n(r) /\ n8n' = [n8n EXCEPT ![r] = "running"]
         \/ req'[r].run = None /\ n8n' = n8n
  <2>1. CASE req' = [req EXCEPT ![r].pc = "sent", ![r].run = N8n(r)]
             /\ n8n' = [n8n EXCEPT ![r] = "running"]
    BY <1>1, <2>1 DEF KeepsEvents, Ev, RequestState
  <2>2. CASE Goto(r, "sent") /\ UNCHANGED n8n
    BY <1>2, <2>2, MoveFields
  <2> QED BY <2>1, <2>2 DEF post_dispatch
<1>4. Tk(r)' = Tk(r) /\ Ev(r)' = Ev(r)
  BY <1>3 DEF KeepsEvents, Tk
<1>5. Execution(r)'
  BY <1>1, <1>2, <1>3 DEF Execution, At, Cancelling, Before, N8n, Request
<1>6. RunningAs(Tk(r), Pending(Ev(r)))' /\ Running(Tk(r))'
  BY <1>1, <1>2, <1>4 DEF RunningAs, Running, storeVars, Pending
<1>7. \A x \in Run \ {r} : n8n'[x] = n8n[x]
  BY <1>1, <1>3
<1>8. LocksMove(r) /\ \A t \in Task, x \in Run : PausedAs(t, N8n(x))' => PausedAs(t, N8n(x))
  BY <1>1 DEF LocksMove, storeVars, PausedAs, N8n
<1> QED BY <1>1, <1>2, <1>3, <1>5, <1>6, <1>7, <1>8 DEF CalmMove, Resuming

LEMMA CalmNamed ==
    ASSUME Calm, Inv, CalmInv, NEW r \in Request, dispatch_named(r) \/ dispatch_anonymous(r)
    PROVE  CalmMove(r)
<1>1. /\ Quiet /\ At(r, "sent") /\ req[r].run # None
      /\ Body(r).workflow = "qa_loop" => n8n[r] = "finished"
      /\ req[r].pc # "idle" /\ req[r].pc # "resume_sent" /\ r \in Run
  BY CalmEnv DEF dispatch_named, dispatch_anonymous, Answered, At, Request
<1>2. /\ req[r].run = N8n(r) /\ n8n[r] \in {"running", "finished"}
      /\ RunningAs(Tk(r), Pending(Ev(r))) /\ Owns(r) /\ req \in [Request -> RequestState]
  BY <1>1 DEF CalmInv, CalmRequests, CalmLocks, Execution, At, Owns, Inv, TypeOK
<1>3. AfterDispatch(r) \in {"qa", "outcome_dispatch"}
      /\ (AfterDispatch(r) = "qa" => n8n[r] = "finished")
  BY <1>1 DEF AfterDispatch
<1>4. /\ KeepsEvents(r) /\ req'[r].pc = AfterDispatch(r)
      /\ LocksMove(r) /\ paused_task_runs' = paused_task_runs
      /\ req'[r].run \in {N8n(r), Pending(Ev(r))}
      /\ active_task_runs'[Tk(r)] # None /\ active_task_runs'[Tk(r)].state = "running"
      /\ active_task_runs'[Tk(r)].run_id = req'[r].run
  <2>1. CASE dispatch_named(r)
    <3>1. Goto(r, AfterDispatch(r)) /\ set_active_run_id(Tk(r), Pending(Ev(r)), N8n(r))
      BY <1>2, <2>1 DEF dispatch_named
    <3>2. KeepsEvents(r) /\ req'[r].pc = AfterDispatch(r) /\ req'[r].run = N8n(r)
      BY <1>2, <3>1, MoveFields
    <3> QED BY <1>1, <1>2, <3>1, <3>2, LockMoves DEF At
  <2>2. CASE dispatch_anonymous(r)
    <3>1. req' = [req EXCEPT ![r].pc = AfterDispatch(r), ![r].run = Pending(Ev(r))]
          /\ UNCHANGED <<active_task_runs, paused_task_runs>>
      BY <2>2 DEF dispatch_anonymous, storeVars
    <3>2. KeepsEvents(r) /\ req'[r].pc = AfterDispatch(r) /\ req'[r].run = Pending(Ev(r))
      BY <1>2, <3>1 DEF KeepsEvents, Ev, RequestState
    <3> QED BY <1>2, <3>1, <3>2 DEF LocksMove, RunningAs, Running
  <2> QED BY <2>1, <2>2
<1>5. Tk(r)' = Tk(r) /\ Ev(r)' = Ev(r)
  BY <1>4 DEF KeepsEvents, Tk
<1>6. RunningAs(Tk(r), req[r].run)' /\ Running(Tk(r))'
  BY <1>4, <1>5 DEF RunningAs, Running
<1>7. CalmQuiet(r)
  BY <1>1, <1>4, QuietIsCalm
<1>8. CASE AfterDispatch(r) = "outcome_dispatch"
  BY <1>4, <1>6, <1>7, <1>8, ToFree DEF FreePC
<1>9. CASE AfterDispatch(r) = "qa"
  <2>1. Execution(r)'
    BY <1>3, <1>4, <1>5, <1>7, <1>9 DEF Execution, At, Cancelling, Before, N8n, Pending, CalmQuiet
  <2> QED BY <1>1, <1>2, <1>4, <1>6, <1>7, <1>9, <2>1, QuietPaused
          DEF CalmMove, CalmQuiet, Resuming, At
<1> QED BY <1>3, <1>8, <1>9

LEMMA CalmResult ==
    ASSUME Calm, Inv, CalmInv, NEW r \in Request, qa_result(r)
    PROVE  CalmMove(r)
<1>1. /\ req[r].pc = "qa" /\ UNCHANGED <<storeVars, recon, n8n, callbacks, acked>>
      /\ \E d : Decide(r, "settle", d)
  BY DEF qa_result, At, envVars, history
<1>2. /\ req[r].run \in {N8n(r), Pending(Ev(r))} /\ n8n[r] = "finished"
      /\ RunningAs(Tk(r), req[r].run) /\ Owns(r)
  BY <1>1 DEF CalmInv, CalmRequests, CalmLocks, Execution, Owns
<1>3. KeepsEvents(r) /\ req'[r].pc = "settle" /\ req'[r].run = req[r].run
  BY <1>1, MoveFields
<1>4. Tk(r)' = Tk(r) /\ Ev(r)' = Ev(r)
  BY <1>3 DEF KeepsEvents, Tk
<1>5. Execution(r)'
  BY <1>1, <1>2, <1>3, <1>4 DEF Execution, At, Cancelling, Before, N8n, Pending
<1>6. RunningAs(Tk(r), req[r].run)' /\ Running(Tk(r))'
  BY <1>1, <1>2, <1>3, <1>4 DEF RunningAs, Running, storeVars
<1>7. LocksMove(r) /\ \A t \in Task, x \in Run : PausedAs(t, N8n(x))' => PausedAs(t, N8n(x))
  BY <1>1 DEF LocksMove, storeVars, PausedAs, N8n
<1> QED BY <1>1, <1>2, <1>3, <1>5, <1>6, <1>7 DEF CalmMove, Resuming

LEMMA CalmPostsAnswer ==
    ASSUME Calm, Inv, CalmInv, NEW r \in Request, post_resume(r)
    PROVE  CalmMove(r)
<1>1. /\ req[r].pc = "resume_post" /\ UNCHANGED <<storeVars, recon, callbacks, acked>>
      /\ req \in [Request -> RequestState]
      /\ n8n \in [Run -> {"none", "running", "waiting", "finished"}]
  BY DEF post_resume, QuietButPost, reconVars, At, Inv, TypeOK
<1>2. n8n[r] = "none" /\ req[r].run = None /\ r \in Run
  BY <1>1 DEF CalmInv, CalmRequests, Execution, Before, Request
<1>3. PICK x \in Run : req[r].paused.run_id = N8n(x) /\ x = req[r].paused.run_id[2]
  <2>1. req[r].paused \in PausedRow
    BY <1>1 DEF Inv, Attached, RequestOK, Resuming
  <2> QED BY <2>1, RunIds DEF PausedRow
<1>4. n8n[x] # "none" /\ Tk(x) = Tk(r) /\ x # r
  BY <1>1, <1>2, <1>3 DEF CalmInv, CalmRequests, Resuming
<1>5. /\ KeepsEvents(r) /\ req'[r].pc = "resume_sent" /\ req'[r].paused = req[r].paused
      /\ \/ /\ n8n[x] = "waiting" /\ n8n' = [n8n EXCEPT ![x] = "running"]
            /\ req'[r].run = N8n(x)
         \/ /\ n8n[x] = "waiting" /\ n8n' = [n8n EXCEPT ![x] = "finished", ![r] = "running"]
            /\ req'[r].run = N8n(r)
         \/ n8n' = n8n /\ req'[r].run = None
  <2>1. CASE Goto(r, "resume_sent") /\ UNCHANGED n8n
    BY <1>2, <2>1, MoveFields
  <2>2. ASSUME NEW id, req' = [req EXCEPT ![r].pc = "resume_sent", ![r].run = id]
        PROVE  /\ KeepsEvents(r) /\ req'[r].pc = "resume_sent" /\ req'[r].run = id
               /\ req'[r].paused = req[r].paused
    BY <1>1, <2>2 DEF KeepsEvents, Ev, RequestState
  <2>3. \/ /\ n8n[x] = "waiting" /\ n8n' = [n8n EXCEPT ![x] = "running"]
           /\ req' = [req EXCEPT ![r].pc = "resume_sent", ![r].run = N8n(x)]
        \/ /\ n8n[x] = "waiting" /\ n8n' = [n8n EXCEPT ![x] = "finished", ![r] = "running"]
           /\ req' = [req EXCEPT ![r].pc = "resume_sent", ![r].run = N8n(r)]
        \/ Goto(r, "resume_sent") /\ UNCHANGED n8n
    BY <1>1, <1>3, CalmEnv DEF post_resume
  <2> QED BY <2>1, <2>2, <2>3
<1>6. Tk(r)' = Tk(r)
  BY <1>5 DEF KeepsEvents, Tk
<1>7. N8n(x) # N8n(r) /\ N8n(x) # None /\ N8n(r) # None
  BY <1>2, <1>3, <1>4, RunIds, NoneIsNoValue
<1>8. LocksMove(r) /\ \A t \in Task, y \in Run : PausedAs(t, N8n(y))' => PausedAs(t, N8n(y))
  BY <1>1 DEF LocksMove, storeVars, PausedAs, N8n
<1>9. CASE n8n[x] = "waiting" /\ req'[r].run = N8n(r)
  <2>1. n8n' = [n8n EXCEPT ![x] = "finished", ![r] = "running"]
    BY <1>5, <1>7, <1>9
  <2>2. n8n'[x] = "finished" /\ n8n'[r] = "running" /\ \A y \in Run \ {x, r} : n8n'[y] = n8n[y]
    BY <1>1, <1>2, <1>3, <1>4, <2>1
  <2>3. Execution(r)'
    BY <1>5, <1>9, <2>2 DEF Execution, At, Cancelling, Before, N8n
  <2>4. Superseded(r, x) /\ Owns(x)
    BY <1>3, <1>4, <1>9, <2>2 DEF Superseded, Owns, Live
  <2>5. Running(Tk(r))'
    <3>1. Running(Tk(r))
      BY <1>3, <1>4, <2>4, OwnerFacts
    <3> QED BY <1>1, <1>6, <3>1 DEF Running, storeVars
  <2> QED BY <1>1, <1>2, <1>3, <1>5, <1>8, <1>9, <2>2, <2>3, <2>4, <2>5
          DEF CalmMove, Resuming
<1>10. CASE req'[r].run # N8n(r)
  <2>1. n8n'[r] = "none" /\ \A y \in Run \ {r} : n8n'[y] = n8n[y]
                                \/ (n8n[y] = "waiting" /\ n8n'[y] \in {"running", "finished"})
    BY <1>1, <1>2, <1>3, <1>4, <1>5, <1>10
  <2>2. req'[r].run \in {None, req'[r].paused.run_id}
    BY <1>3, <1>5, <1>10
  <2>3. Execution(r)'
    BY <1>5, <2>1, <2>2 DEF Execution, At, Cancelling, Before, N8n
  <2>4. ~Owns(r)'
    <3>1. \A m \in callbacks : m.run # r
      BY <1>2, CallbackFacts DEF CallbackCalm
    <3> QED BY <1>1, <1>5, <2>1, <3>1 DEF Owns, Live
  <2> QED BY <1>1, <1>2, <1>5, <1>8, <2>1, <2>3, <2>4 DEF CalmMove, Resuming
<1> QED BY <1>5, <1>7, <1>9, <1>10

LEMMA CalmRequestStep ==
    ASSUME Calm, Inv, CalmInv, NEW r \in Request, RequestStep(r)
    PROVE  CalmMove(r)
<1>1. ~At(r, "checkpoint") /\ \A pc \in Cancelling : ~At(r, pc)
  BY DEF CalmInv, CalmRequests, Execution, At
<1>2. /\ ~leave_checkpoint(r) /\ ~cancel_record(r)
      /\ ~cancel_signal(r) /\ ~cancel_release(r) /\ ~cancel_clear(r)
  BY <1>1 DEF leave_checkpoint, cancel_record, cancel_signal, cancel_release, cancel_clear,
     Cancelling
<1> QED BY <1>2, CalmReads, CalmPlain, CalmAcquires, CalmEnds, CalmPosts, CalmNamed, CalmResult,
           CalmResumes, CalmPostsAnswer, CalmResumed DEF RequestStep

-----------------------------------------------------------------------------
(* The steps of the others *)

LEMMA Receives ==
    ASSUME Inv, NEW e \in Event, receive(e)
    PROVE  /\ \E r \in Request :
                /\ req[r].pc = "idle"
                /\ \E at : req' = [req EXCEPT ![r].pc = "get_active", ![r].event = e,
                                             ![r].at = at]
           /\ UNCHANGED <<storeVars, reconVars, envVars, history>> /\ Serving
<1> DEFINE r == CHOOSE s \in Unused : TRUE
           stamp == IF PayloadOf[e].occurred_at = 0 THEN clock + 1
                    ELSE PayloadOf[e].occurred_at
<1>1. r \in Unused /\ r \in Request
  BY DEF receive, Unused
<1>2. req' = [req EXCEPT ![r].pc = "get_active", ![r].event = e, ![r].at = stamp]
  BY DEF receive
<1>3. UNCHANGED <<storeVars, reconVars, envVars, history>> /\ Serving
  BY DEF receive
<1> HIDE DEF r, stamp
<1> QED BY <1>1, <1>2, <1>3 DEF Unused, At

LEMMA CalmReceive ==
    ASSUME Inv, CalmInv, NEW e \in Event, receive(e)
    PROVE  CalmInv'
<1>1. PICK r \in Request :
        /\ req[r].pc = "idle"
        /\ \E at : req' = [req EXCEPT ![r].pc = "get_active", ![r].event = e, ![r].at = at]
  BY Receives
<1>2. req \in [Request -> RequestState] /\ recon[Boot].step = "end"
      /\ UNCHANGED <<storeVars, recon, n8n, callbacks, acked>>
  <2>1. req \in [Request -> RequestState]
    BY DEF Inv, TypeOK
  <2>2. UNCHANGED <<storeVars, reconVars, envVars, history>> /\ Serving
    BY Receives
  <2> QED BY <2>1, <2>2 DEF Serving, reconVars, envVars, history
<1>3. /\ \A s \in Request \ {r} : req'[s] = req[s] /\ Tk(s)' = Tk(s) /\ Ev(s)' = Ev(s)
      /\ req'[r].pc = "get_active" /\ req'[r].run = req[r].run
  BY <1>1, <1>2 DEF RequestState, Tk, Ev
<1>4. n8n[r] = "none" /\ req[r].run = None
  BY <1>1 DEF CalmInv, CalmRequests, Execution, Before
<1>5. UNCHANGED <<active_task_runs, paused_task_runs>> /\ Request = Run
  BY <1>2 DEF storeVars, Request
<1>6. ASSUME NEW x \in Run, Owns(x)' PROVE Owns(x) /\ x # r
  <2>1. x # r
    <3>1. \A m \in callbacks : m.run # r
      BY <1>1 DEF Inv, Attached, CallbackOK
    <3> QED BY <1>2, <1>3, <1>4, <1>6, <3>1 DEF Owns, Live
  <2> QED BY <1>2, <1>3, <1>5, <1>6, <2>1 DEF Owns, Frees
<1>7. CalmPasses'
  BY <1>2 DEF CalmInv, CalmPasses
<1>8. CalmRequests'
  <2>1. ASSUME NEW s \in Request PROVE Execution(s)'
    <3>1. CASE s = r
      BY <1>2, <1>3, <1>4, <3>1 DEF Execution, At, Before, Cancelling
    <3>2. CASE s # r
      <4>1. /\ Execution(s) /\ req'[s] = req[s] /\ n8n' = n8n
            /\ Pending(Ev(s))' = Pending(Ev(s))
        BY <1>2, <1>3, <3>2 DEF CalmInv, CalmRequests, Pending
      <4> QED BY <4>1 DEF Execution, At, N8n
    <3> QED BY <3>1, <3>2
  <2>2. \A t \in Task, x \in Run : PausedAs(t, N8n(x))' <=> PausedAs(t, N8n(x))
    BY <1>5 DEF PausedAs, N8n
  <2>3. ASSUME NEW s \in Request, NEW x \in Run, req'[s].pc \in Resuming,
               req'[s].paused.run_id = N8n(x)
        PROVE  n8n'[x] # "none" /\ Tk(x)' = Tk(s)'
    BY <1>2, <1>3, <1>4, <1>5, <2>3 DEF CalmInv, CalmRequests, Resuming
  <2>4. \A t \in Task, x \in Run : PausedAs(t, N8n(x))' => n8n'[x] # "none" /\ Tk(x)' = t
    BY <1>2, <1>3, <1>4, <1>5, <2>2 DEF CalmInv, CalmRequests
  <2>5. \A s \in Request, x \in Run :
          req'[s].pc \in Resuming /\ req'[s].paused.run_id = N8n(x) =>
             n8n'[x] # "none" /\ Tk(x)' = Tk(s)'
    BY <2>3
  <2> QED BY <2>1, <2>4, <2>5 DEF CalmRequests
<1>9. CalmLocks'
  <2>1. ASSUME NEW x \in Run, Owns(x)' PROVE Running(Tk(x))'
    BY <1>3, <1>5, <1>6, <2>1 DEF CalmInv, CalmLocks, Running
  <2>2. ASSUME NEW x \in Run, NEW y \in Run, Owns(x)', Owns(y)', Tk(x)' = Tk(y)' PROVE x = y
    BY <1>3, <1>5, <1>6, <2>2 DEF CalmInv, CalmLocks
  <2>3. ASSUME NEW s \in Request, req'[s].pc \in {"outcome_gate", "post", "sent"}
        PROVE  RunningAs(Tk(s), Pending(Ev(s)))'
    <3>1. s # r
      BY <1>3, <2>3
    <3> QED BY <1>3, <1>5, <2>3, <3>1 DEF CalmInv, CalmLocks, RunningAs, Running, Pending
  <2>4. ASSUME NEW s \in Request, req'[s].pc \in {"qa", "settle"}
        PROVE  RunningAs(Tk(s), req[s].run)'
    <3>1. s # r
      BY <1>3, <2>4
    <3> QED BY <1>3, <1>5, <2>4, <3>1 DEF CalmInv, CalmLocks, RunningAs, Running
  <2>5. \A x, y \in Run : Owns(x)' /\ Owns(y)' /\ Tk(x)' = Tk(y)' => x = y
    BY <2>2
  <2> QED BY <2>1, <2>3, <2>4, <2>5 DEF CalmLocks
<1>10. CalmCallbacks'
  <2>1. callbacks \subseteq Callback /\ acked \subseteq Run
    BY DEF Inv, TypeOK
  <2>2. ASSUME NEW x \in Run, n8n[x] # "none"
        PROVE  /\ x # r /\ req'[x] = req[x] /\ Tk(x)' = Tk(x) /\ Over(x)' = Over(x)
               /\ HasLock(x)' = HasLock(x) /\ HasPause(x)' = HasPause(x)
    <3>1. x # r /\ req'[x] = req[x] /\ Tk(x)' = Tk(x)
      BY <1>3, <1>4, <1>5, <2>2
    <3> QED BY <1>2, <1>5, <3>1 DEF Over, HasLock, HasPause, RunningAs, Running, PausedAs, N8n
  <2>3. ASSUME NEW m \in callbacks PROVE CallbackCalm(m)'
    <3>1. m.run \in Run /\ CallbackCalm(m) /\ Proper(m)' /\ n8n[m.run] # "none"
      BY CallbackFacts DEF CallbackCalm, Proper, N8n
    <3>2. RunningAs(Tk(m.run), m.target)' = RunningAs(Tk(m.run), m.target)
      BY <1>5, <2>2, <3>1 DEF RunningAs, Running
    <3>3. ASSUME m.named, m.status # "waiting_input", HasLock(m.run)', NEW y \in Run, Owns(y)'
          PROVE  Tk(y)' # Tk(m.run)'
      BY <1>3, <1>5, <1>6, <2>2, <3>1, <3>3 DEF CallbackCalm
    <3> QED BY <1>2, <2>2, <3>1, <3>2, <3>3 DEF CallbackCalm
  <2>4. ASSUME NEW x \in acked PROVE Over(x)' /\ ~HasLock(x)' /\ ~HasPause(x)'
    <3>1. x \in Run /\ Over(x) /\ ~HasLock(x) /\ ~HasPause(x) /\ n8n[x] # "none"
      BY <2>1 DEF CalmInv, CalmCallbacks, Over
    <3> QED BY <2>2, <3>1
  <2>5. /\ \A m, n \in callbacks : m.run = n.run => m = n
        /\ \A x \in acked : \A m \in callbacks :
             m.run = x => m.status # "waiting_input" /\ m.named
    BY DEF CalmInv, CalmCallbacks
  <2> QED BY <1>2, <2>3, <2>4, <2>5 DEF CalmCallbacks
<1> QED BY <1>7, <1>8, <1>9, <1>10 DEF CalmInv

LEMMA CalmSame ==
    ASSUME CalmInv, CalmPasses', UNCHANGED <<active_task_runs, paused_task_runs, req, n8n>>,
           callbacks' = callbacks, acked' = acked
    PROVE  CalmInv'
<1>1. CalmRequests'
  BY DEF CalmInv, CalmRequests, Execution, PausedAs, At, Tk, Ev
<1>2. CalmLocks'
  BY DEF CalmInv, CalmLocks, Owns, Frees, RunningAs, Running, At, Tk, Ev
<1>3. \A m \in callbacks : CallbackCalm(m)' = CallbackCalm(m)
  BY DEF CallbackCalm, Proper, Over, HasLock, Owns, Frees, RunningAs, Running, N8n, Tk, Ev
<1>4. CalmCallbacks'
  BY <1>3 DEF CalmInv, CalmCallbacks, Over, HasLock, HasPause, RunningAs, Running, PausedAs, Tk, Ev
<1> QED BY <1>1, <1>2, <1>4 DEF CalmInv

LEMMA CalmPass ==
    ASSUME Inv, CalmInv, NEW p \in Reconciler, PassStep(p)
    PROVE  CalmInv'
<1>1. p = Boot /\ recon[Boot].step = "list"
  <2>1. recon[p].step \in {"list", "probe", "free"}
    <3>1. CASE list_running(p)
      BY <3>1 DEF list_running
    <3>2. CASE probe(p)
      BY <3>2 DEF probe
    <3>3. CASE release_stale(p)
      BY <3>3 DEF release_stale
    <3> QED BY <3>1, <3>2, <3>3 DEF PassStep, ReconcileStep
  <2> QED BY <2>1 DEF CalmInv, CalmPasses, Reconciler
<1>2. list_running(Boot) /\ UNCHANGED <<storeVars, req, n8n, callbacks, acked>>
  <2>1. list_running(Boot)
    BY <1>1 DEF PassStep, ReconcileStep, probe, release_stale
  <2> QED BY <2>1 DEF PassStep, list_running, envVars, history
<1>3. list_running_runs = {}
  BY <1>2 DEF list_running, CalmInv, CalmPasses, list_running_runs
<1>4. recon' = [recon EXCEPT ![Boot] = Left({}, FALSE)]
  BY <1>2, <1>3 DEF list_running
<1>5. recon'[Boot].step = "end" /\ \A r \in Request : recon'[r] = recon[r]
  <2>1. recon \in [Reconciler ->
          [step : {"off", "list", "probe", "free", "end"}, todo : SUBSET Item,
           item : Item \cup {None}, drift : BOOLEAN]]
    BY DEF Inv, TypeOK, ReconTypeOK
  <2> QED BY <1>4, <2>1, BootIsNoRun DEF Left, Reconciler, Request
<1>6. CalmPasses'
  BY <1>2, <1>5 DEF CalmInv, CalmPasses
<1> QED BY <1>2, <1>6, CalmSame DEF storeVars

LEMMA CalmOperator ==
    ASSUME CalmInv, NEW t \in Task, OperatorStep(t)
    PROVE  CalmInv'
<1>1. UNCHANGED <<storeVars, recon, req, n8n, callbacks, acked>>
  BY DEF OperatorStep, OperatorMovesCard, envVars, history
<1>2. CalmPasses'
  BY <1>1 DEF CalmInv, CalmPasses, storeVars, Running
<1> QED BY <1>1, <1>2, CalmSame DEF storeVars

\* n8n: an execution ends or waits, and tells of it in at most one way.
LEMMA CalmN8n ==
    ASSUME Calm, Inv, CalmInv, NEW x \in Run, N8nStep(x)
    PROVE  CalmInv'
<1>1. /\ UNCHANGED <<storeVars, recon, req, acked>>
      /\ n8n \in [Run -> {"none", "running", "waiting", "finished"}]
      /\ callbacks \subseteq Callback /\ acked \subseteq Run /\ Request = Run
  <2>1. OfN8n
    BY DEF N8nStep, run_finishes, run_returns, run_asks, run_times_out
  <2> QED BY <2>1 DEF OfN8n, reconVars, history, Inv, TypeOK, Request
<1>2. PICK v \in {"finished", "waiting"} :
        /\ n8n' = [n8n EXCEPT ![x] = v] /\ n8n[x] \in Live
        /\ \/ At(x, "sent") /\ callbacks' = callbacks /\ v = "finished"
           \/ /\ MayReport(x)
              /\ \E status \in {"final", "waiting_input", "timed_out"} :
                   /\ \E w : Report(x, status, w)
                   /\ v = "waiting" <=> status = "waiting_input"
  <2>1. CASE run_finishes(x)
    BY <2>1 DEF run_finishes, Live
  <2>2. CASE run_returns(x)
    BY <2>2 DEF run_returns, Live
  <2>3. CASE run_asks(x)
    BY <2>3 DEF run_asks, Live
  <2>4. CASE run_times_out(x)
    BY <2>4 DEF run_times_out, Live
  <2> QED BY <2>1, <2>2, <2>3, <2>4 DEF N8nStep
<1>3. \/ At(x, "sent") /\ callbacks' = callbacks /\ v = "finished"
      \/ /\ req[x].pc \notin {"sent", "resume_sent"} /\ \A m \in callbacks : m.run # x
         /\ \E m : /\ callbacks' = callbacks \cup {m}
                   /\ m.run = x /\ m.pc = "write" /\ (m.named \/ "duplicate_callback" \notin Env)
                   /\ m.status = "waiting_input" <=> v = "waiting"
  <2>1. CASE MayReport(x) /\ \E status \in {"final", "waiting_input", "timed_out"} :
                               /\ \E w : Report(x, status, w)
                               /\ v = "waiting" <=> status = "waiting_input"
    <3>1. PICK status \in {"final", "waiting_input", "timed_out"} :
            (\E w : Report(x, status, w)) /\ (v = "waiting" <=> status = "waiting_input")
      BY <2>1
    <3>2. PICK w : Report(x, status, w) /\ (v = "waiting" <=> status = "waiting_input")
      BY <3>1
    <3>3. PICK named \in Naming :
            callbacks' = callbacks \cup
              {[FinalCallback(x, named) EXCEPT !.status = status, !.workflow = w]}
      BY <3>2 DEF Report
    <3> DEFINE m == [FinalCallback(x, named) EXCEPT !.status = status, !.workflow = w]
    <3>4. m.run = x /\ m.named = named /\ m.pc = "write" /\ m.status = status
      BY DEF FinalCallback
    <3>5. named \/ "duplicate_callback" \notin Env
      BY <3>3 DEF Naming, Calm
    <3>6. req[x].pc \notin {"sent", "resume_sent"} /\ \A c \in callbacks : c.run # x
      BY <2>1, CalmEnv DEF MayReport
    <3>7. callbacks' = callbacks \cup {m}
      BY <3>3
    <3> HIDE DEF m
    <3> QED BY <3>2, <3>4, <3>5, <3>6, <3>7
  <2> QED BY <1>2, <2>1
<1>4. n8n'[x] = v /\ \A y \in Run \ {x} : n8n'[y] = n8n[y]
  BY <1>1, <1>2
<1>5. req[x].pc \notin {"outcome_gate", "post", "qa", "settle"} /\ Execution(x)
  BY <1>1, <1>2 DEF CalmInv, CalmRequests, Execution, Before, Live
<1>6. ASSUME NEW y \in Run, Owns(y)' PROVE Owns(y)
  <2>1. CASE y = x
    BY <1>2, <2>1 DEF Owns
  <2>2. CASE y # x
    BY <1>1, <1>3, <1>4, <1>6, <2>2 DEF Owns, Frees
  <2> QED BY <2>1, <2>2
<1>7. CalmPasses'
  BY <1>1 DEF CalmInv, CalmPasses, storeVars, Running
<1>8. CalmRequests'
  <2>1. ASSUME NEW s \in Request PROVE Execution(s)'
    <3>1. Execution(s) /\ req' = req
      BY <1>1 DEF CalmInv, CalmRequests
    <3>2. CASE s = x
      <4>1. n8n[s] \in Live /\ n8n'[s] \in {"finished", "waiting"}
        BY <1>2, <1>4, <3>2
      <4>2. n8n'[s] = "finished" \/ req[s].pc \notin {"sent", "resume_sent"}
        BY <1>3, <1>4, <3>2
      <4>3. req[s].pc \notin Before \cup {"qa", "settle"}
        BY <3>1, <4>1 DEF Execution, Live
      <4>4. /\ At(s, "sent") => req[s].run = N8n(s)
            /\ ~At(s, "resume_sent")
        BY <1>3, <3>1, <3>2, <4>1 DEF Execution, Live, At
      <4> QED BY <3>1, <4>1, <4>2, <4>3, <4>4 DEF Execution, At, N8n
    <3>3. CASE s # x
      BY <1>1, <1>4, <3>1, <3>3 DEF Execution, At, N8n, Pending, Ev
    <3> QED BY <3>2, <3>3
  <2>2. \A y \in Run : n8n[y] # "none" => n8n'[y] # "none"
    BY <1>4
  <2> QED BY <1>1, <2>1, <2>2 DEF CalmInv, CalmRequests, PausedAs, Tk, Ev, N8n, storeVars
<1>9. CalmLocks'
  BY <1>1, <1>6 DEF CalmInv, CalmLocks, RunningAs, Running, Tk, Ev, Pending, storeVars
<1>10. CalmCallbacks'
  <2>1. ASSUME NEW y \in Run
        PROVE  /\ Tk(y)' = Tk(y) /\ HasLock(y)' = HasLock(y) /\ HasPause(y)' = HasPause(y)
               /\ Over(y) => Over(y)' /\ y # x
    <3>1. Over(y) => y # x
      BY <1>2 DEF Over, Live
    <3> QED BY <1>1, <1>4, <3>1 DEF Over, HasLock, HasPause, RunningAs, Running, PausedAs, N8n,
                                    Tk, Ev, storeVars
  <2>2. ASSUME NEW m \in callbacks' PROVE CallbackCalm(m)'
    <3>1. CASE m \in callbacks
      <4>1. m.run \in Run /\ CallbackCalm(m) /\ Proper(m)' /\ n8n'[m.run] # "none"
        BY <1>4, <3>1, CallbackFacts DEF CallbackCalm, Proper, N8n
      <4>2. RunningAs(Tk(m.run), m.target)' = RunningAs(Tk(m.run), m.target)
        BY <1>1 DEF RunningAs, Running, Tk, Ev, storeVars
      <4> QED BY <1>1, <1>6, <2>1, <4>1, <4>2 DEF CallbackCalm
    <3>2. CASE m \notin callbacks
      <4>1. /\ req[x].pc \notin {"sent", "resume_sent"}
            /\ m.run = x /\ m.pc = "write" /\ (m.named \/ "duplicate_callback" \notin Env)
            /\ m.status = "waiting_input" <=> v = "waiting"
            /\ callbacks' = callbacks \cup {m} /\ \A c \in callbacks : c.run # x
        BY <1>3, <3>2
      <4>2. /\ n8n'[x] # "none" /\ req'[x].pc \notin {"sent", "qa", "settle", "resume_sent"}
            /\ m.status # "waiting_input" => Over(x)'
        BY <1>1, <1>4, <1>5, <4>1 DEF Over
      <4>3. Proper(m)'
        BY <4>1 DEF Proper
      <4>4. ASSUME m.named, m.status # "waiting_input", NEW y \in Run, Owns(y)', Tk(y) = Tk(x)
            PROVE  FALSE
        <5>1. y = x
          BY <1>2, <1>6, <4>4 DEF CalmInv, CalmLocks, Owns
        <5>2. n8n'[x] = "finished" /\ req' = req
          BY <1>1, <1>4, <4>1, <4>4
        <5>3. \A c \in callbacks' : c.run = x => c.named
          BY <4>1, <4>4
        <5> QED BY <1>5, <4>1, <4>4, <5>1, <5>2, <5>3 DEF Owns, Live, Frees
      <4> QED BY <2>1, <4>1, <4>2, <4>3, <4>4 DEF CallbackCalm
    <3> QED BY <3>1, <3>2
  <2>3. ASSUME NEW m \in callbacks', NEW n \in callbacks', m.run = n.run PROVE m = n
    BY <1>3, <2>3 DEF CalmInv, CalmCallbacks
  <2>4. ASSUME NEW y \in acked
        PROVE  /\ Over(y)' /\ ~HasLock(y)' /\ ~HasPause(y)'
               /\ \A m \in callbacks' : m.run = y => m.status # "waiting_input" /\ m.named
    <3>1. /\ Over(y) /\ ~HasLock(y) /\ ~HasPause(y) /\ y \in Run
          /\ \A m \in callbacks : m.run = y => m.status # "waiting_input" /\ m.named
      BY <1>1 DEF CalmInv, CalmCallbacks
    <3>2. \A m \in callbacks' : m.run = y => m.status # "waiting_input" /\ m.named
      BY <1>3, <2>1, <3>1
    <3> QED BY <2>1, <3>1, <3>2
  <2>5. \A m, n \in callbacks' : m.run = n.run => m = n
    BY <2>3
  <2> QED BY <1>1, <2>2, <2>4, <2>5 DEF CalmCallbacks
<1> QED BY <1>7, <1>8, <1>9, <1>10 DEF CalmInv

\* A step of the handler of callback m: the callback is answered, sent again or
\* goes on.  Only the lock it was sent to release can go, and only its run can
\* get or lose a paused row.
Told(m) ==
    /\ UNCHANGED <<recon, req, n8n>>
    /\ \/ callbacks' = callbacks \ {m}
       \/ \E n : /\ callbacks' = (callbacks \ {m}) \cup {n}
                 /\ n.run = m.run /\ n.status = m.status /\ n.named = m.named
                 /\ Proper(n) /\ (Frees(n) => Frees(m))
                 /\ n.named /\ n.pc = "clear" => ~HasLock(m.run)'
                 /\ ~n.named /\ n.pc = "release" => RunningAs(Tk(m.run), n.target)'
    /\ \/ UNCHANGED active_task_runs
       \/ /\ m.pc = "release" /\ RunningAs(Tk(m.run), m.target)
          /\ \A n \in callbacks' : n.run = m.run => n.pc = "clear"
          /\ \E row \in ActiveRow :
               /\ row.state # "running"
               /\ active_task_runs' = [active_task_runs EXCEPT ![Tk(m.run)] = row]
    /\ \A t \in Task, x \in Run :
         PausedAs(t, N8n(x))' =>
            \/ PausedAs(t, N8n(x))
            \/ m.status = "waiting_input" /\ x = m.run /\ t = Tk(m.run)
    /\ \/ acked' = acked
       \/ /\ acked' = acked \cup {m.run} /\ m.status # "waiting_input" /\ m.named
          /\ ~HasLock(m.run)' /\ ~HasPause(m.run)'

\* A callback takes the lock of no owner that is left.
LEMMA ToldKeepsOwners ==
    ASSUME Inv, CalmInv, NEW m \in callbacks, Told(m), NEW y \in Run, Owns(y)'
    PROVE  Owns(y) /\ active_task_runs'[Tk(y)] = active_task_runs[Tk(y)]
<1>1. /\ UNCHANGED <<req, n8n>>
      /\ active_task_runs \in [Task -> ActiveRow \cup {None}]
  BY DEF Told, Inv, TypeOK, StoreTypeOK
<1>2. Owns(y)
  <2>1. CASE \E n \in callbacks' : n.run = y /\ Frees(n)'
    <3>1. PICK n \in callbacks' : n.run = y /\ Frees(n)
      BY <2>1 DEF Frees
    <3>2. n \in callbacks \/ (n.run = m.run /\ Frees(m))
      BY <3>1 DEF Told
    <3> QED BY <3>1, <3>2 DEF Owns
  <2>2. CASE req[y].pc \in {"outcome_gate", "post", "sent", "qa", "settle"} \/ n8n[y] \in Live
    BY <2>2 DEF Owns
  <2> QED BY <1>1, <2>1, <2>2 DEF Owns
<1>3. ASSUME m.pc = "release", RunningAs(Tk(m.run), m.target),
             \A n \in callbacks' : n.run = m.run => n.pc = "clear",
             Tk(y) = Tk(m.run)
      PROVE  FALSE
  <2>1. m.run \in Run /\ CallbackCalm(m) /\ m.status # "waiting_input" /\ Over(m.run)
    BY <1>3, CallbackFacts DEF CallbackCalm, Proper
  <2>2. CASE m.named
    BY <1>2, <1>3, <2>1, <2>2 DEF CallbackCalm, Proper, HasLock
  <2>3. CASE ~m.named
    <3>1. Owns(m.run)
      BY <1>3, <2>1, <2>3 DEF Owns, Frees
    <3>2. y = m.run
      BY <1>2, <1>3, <2>1, <3>1 DEF CalmInv, CalmLocks
    <3>3. req[y].pc \notin {"outcome_gate", "post", "sent", "qa", "settle"} /\ n8n[y] \notin Live
      BY <2>1, <3>2 DEF Over, Live, CalmInv, CalmRequests, Execution, Before, Request
    <3>4. \A n \in callbacks' : n.run = y => ~Frees(n)'
      BY <1>3, <3>2 DEF Frees
    <3> QED BY <1>1, <3>3, <3>4 DEF Owns
  <2> QED BY <2>2, <2>3
<1>4. Tk(y) \in Task
  BY <1>2, OwnerFacts
<1> QED BY <1>1, <1>2, <1>3, <1>4 DEF Told

LEMMA CalmTold ==
    ASSUME Inv, CalmInv, NEW m \in callbacks, Told(m)
    PROVE  CalmInv'
<1>1. /\ UNCHANGED <<recon, req, n8n>> /\ Request = Run
      /\ callbacks \subseteq Callback /\ acked \subseteq Run
      /\ active_task_runs \in [Task -> ActiveRow \cup {None}]
  BY DEF Told, Inv, TypeOK, StoreTypeOK, Request
<1>2. /\ m.run \in Run /\ n8n[m.run] # "none" /\ CallbackCalm(m)
      /\ Tk(m.run) \in Task
      /\ m.run \in acked => m.status # "waiting_input" /\ m.named
      /\ \A n \in callbacks : n.run = m.run => n = m
      /\ recon[Boot].step = "end"
  BY CallbackFacts DEF CallbackCalm
<1>3. \A s \in Run : Tk(s)' = Tk(s) /\ Ev(s)' = Ev(s) /\ Pending(Ev(s))' = Pending(Ev(s))
  BY <1>1 DEF Tk, Ev, Pending
<1>4. ASSUME NEW x \in Run, NEW id, req[x].pc # "idle", RunningAs(Tk(x), id)'
      PROVE  RunningAs(Tk(x), id)
  <2>1. Tk(x) \in Task /\ Tk(x)' = Tk(x)
    BY <1>1, <1>3, <1>4, RequestFacts
  <2>2. /\ active_task_runs'[Tk(x)] # None /\ active_task_runs'[Tk(x)].state = "running"
        /\ active_task_runs'[Tk(x)].run_id = id
    BY <1>4, <2>1 DEF RunningAs, Running
  <2> QED BY <1>1, <1>2, <2>1, <2>2 DEF Told, RunningAs, Running
<1>5. CalmPasses'
  BY <1>1, <1>2 DEF CalmInv, CalmPasses
<1>6. CalmRequests'
  <2>1. ASSUME NEW t \in Task, NEW x \in Run, PausedAs(t, N8n(x))'
        PROVE  n8n'[x] # "none" /\ Tk(x)' = t
    <3>1. PausedAs(t, N8n(x)) \/ (x = m.run /\ t = Tk(m.run))
      BY <2>1 DEF Told
    <3>2. n8n[x] # "none" /\ Tk(x) = t
      BY <1>2, <3>1 DEF CalmInv, CalmRequests
    <3> QED BY <1>1, <1>3, <3>2
  <2>2. \A t \in Task, x \in Run : PausedAs(t, N8n(x))' => n8n'[x] # "none" /\ Tk(x)' = t
    BY <2>1
  <2>3. \A s \in Request : Execution(s)' = Execution(s)
    BY <1>1 DEF Execution, At, Ev
  <2> QED BY <1>1, <1>3, <2>2, <2>3 DEF CalmInv, CalmRequests
<1>7. CalmLocks'
  <2>1. ASSUME NEW x \in Run, Owns(x)' PROVE Running(Tk(x))'
    <3>1. active_task_runs'[Tk(x)] = active_task_runs[Tk(x)] /\ Running(Tk(x))
      BY <2>1, ToldKeepsOwners DEF CalmInv, CalmLocks
    <3> QED BY <1>3, <3>1 DEF Running
  <2>2. ASSUME NEW x \in Run, NEW y \in Run, Owns(x)', Owns(y)', Tk(x)' = Tk(y)' PROVE x = y
    BY <1>3, <2>2, ToldKeepsOwners DEF CalmInv, CalmLocks
  <2>3. ASSUME NEW s \in Request, req'[s].pc \in {"outcome_gate", "post", "sent"}
        PROVE  RunningAs(Tk(s), Pending(Ev(s)))'
    <3>1. Owns(s)'
      BY <2>3 DEF Owns
    <3>2. /\ active_task_runs'[Tk(s)] = active_task_runs[Tk(s)]
          /\ RunningAs(Tk(s), Pending(Ev(s)))
      BY <1>1, <2>3, <3>1, ToldKeepsOwners DEF CalmInv, CalmLocks
    <3> QED BY <1>1, <1>3, <3>2 DEF RunningAs, Running
  <2>4. ASSUME NEW s \in Request, req'[s].pc \in {"qa", "settle"}
        PROVE  RunningAs(Tk(s), req[s].run)'
    <3>1. Owns(s)'
      BY <2>4 DEF Owns
    <3>2. active_task_runs'[Tk(s)] = active_task_runs[Tk(s)] /\ RunningAs(Tk(s), req[s].run)
      BY <1>1, <2>4, <3>1, ToldKeepsOwners DEF CalmInv, CalmLocks
    <3> QED BY <1>1, <1>3, <3>2 DEF RunningAs, Running
  <2>5. \A x, y \in Run : Owns(x)' /\ Owns(y)' /\ Tk(x)' = Tk(y)' => x = y
    BY <2>2
  <2> QED BY <2>1, <2>3, <2>4, <2>5 DEF CalmLocks
<1>8. CalmCallbacks'
  <2>1. ASSUME NEW x \in Run, n8n[x] # "none"
        PROVE  /\ Over(x)' = Over(x) /\ req[x].pc # "idle"
               /\ HasLock(x)' => HasLock(x)
    <3>1. Over(x)' = Over(x)
      BY <1>1 DEF Over
    <3>2. req[x].pc # "idle"
      BY <2>1 DEF Inv, Attached
    <3>3. HasLock(x)' = RunningAs(Tk(x), N8n(x))'
      BY DEF HasLock
    <3> QED BY <1>4, <3>1, <3>2, <3>3 DEF HasLock
  <2>2. ASSUME NEW n \in callbacks' PROVE CallbackCalm(n)'
    <3>1. CASE n \in callbacks /\ n # m
      <4>1. n.run \in Run /\ CallbackCalm(n) /\ Proper(n)' /\ n8n[n.run] # "none"
        BY <3>1, CallbackFacts DEF CallbackCalm, Proper, N8n
      <4>2. ASSUME ~n.named, n.pc = "release" PROVE RunningAs(Tk(n.run), n.target)'
        <5>1. RunningAs(Tk(n.run), n.target) /\ n.status # "waiting_input"
          BY <4>1, <4>2 DEF CallbackCalm, Proper
        <5>2. Owns(n.run)'
          BY <4>2, <5>1 DEF Owns, Frees
        <5>3. active_task_runs'[Tk(n.run)] = active_task_runs[Tk(n.run)]
          BY <4>1, <5>2, ToldKeepsOwners
        <5> QED BY <1>3, <4>1, <5>1, <5>3 DEF RunningAs, Running
      <4>3. ASSUME n.named, n.status # "waiting_input", HasLock(n.run)', NEW y \in Run, Owns(y)'
            PROVE  Tk(y)' # Tk(n.run)'
        BY <1>3, <2>1, <4>1, <4>3, ToldKeepsOwners DEF CallbackCalm
      <4> QED BY <1>1, <2>1, <4>1, <4>2, <4>3 DEF CallbackCalm
    <3>2. CASE n \notin callbacks \/ n = m
      <4>1. CASE callbacks' = callbacks \ {m}
        BY <3>2, <4>1
      <4>2. CASE \E o : /\ callbacks' = (callbacks \ {m}) \cup {o}
                        /\ o.run = m.run /\ o.status = m.status /\ o.named = m.named
                        /\ Proper(o) /\ (Frees(o) => Frees(m))
                        /\ o.named /\ o.pc = "clear" => ~HasLock(m.run)'
                        /\ ~o.named /\ o.pc = "release" => RunningAs(Tk(m.run), o.target)'
        <5>1. /\ n.run = m.run /\ n.status = m.status /\ n.named = m.named /\ Proper(n)
              /\ n.named /\ n.pc = "clear" => ~HasLock(m.run)'
              /\ ~n.named /\ n.pc = "release" => RunningAs(Tk(m.run), n.target)'
          BY <3>2, <4>2
        <5>2. ASSUME n.named, n.status # "waiting_input", HasLock(m.run)', NEW y \in Run, Owns(y)'
              PROVE  Tk(y)' # Tk(m.run)'
          BY <1>2, <1>3, <2>1, <5>1, <5>2, ToldKeepsOwners DEF CallbackCalm
        <5>3. Proper(n)'
          BY <5>1 DEF Proper, N8n
        <5>4. HasLock(n.run)' = HasLock(m.run)'
          BY <5>1
        <5>5. RunningAs(Tk(n.run), n.target)' = RunningAs(Tk(m.run), n.target)'
          BY <5>1
        <5> QED BY <1>1, <1>2, <2>1, <5>1, <5>2, <5>3, <5>4, <5>5 DEF CallbackCalm
      <4> QED BY <4>1, <4>2 DEF Told
    <3> QED BY <3>1, <3>2
  <2>3. ASSUME NEW n \in callbacks', NEW o \in callbacks', n.run = o.run PROVE n = o
    BY <1>2, <2>3 DEF Told, CalmInv, CalmCallbacks
  <2>4. ASSUME NEW x \in acked'
        PROVE  /\ Over(x)' /\ ~HasLock(x)' /\ ~HasPause(x)'
               /\ \A n \in callbacks' : n.run = x => n.status # "waiting_input" /\ n.named
    <3>1. CASE x \in acked
      <4>1. /\ Over(x) /\ x \in Run /\ n8n[x] # "none"
            /\ \A n \in callbacks : n.run = x => n.status # "waiting_input" /\ n.named
            /\ ~HasLock(x) /\ ~HasPause(x)
        BY <1>1, <3>1 DEF CalmInv, CalmCallbacks, Over
      <4>2. \A n \in callbacks' : n.run = x => n.status # "waiting_input" /\ n.named
        BY <1>2, <3>1, <4>1 DEF Told
      <4>3. Tk(x) \in Task /\ Tk(x)' = Tk(x)
        BY <1>1, <1>3, <2>1, <4>1, RequestFacts
      <4>4. ~HasPause(x)'
        <5>1. HasPause(x)' = (/\ paused_task_runs'[Tk(x)] # None
                              /\ paused_task_runs'[Tk(x)].run_id = N8n(x))
          BY <4>3 DEF HasPause, PausedAs, N8n
        <5>2. PausedAs(Tk(x), N8n(x)) \/ (m.status = "waiting_input" /\ x = m.run)
              \/ ~(/\ paused_task_runs'[Tk(x)] # None
                   /\ paused_task_runs'[Tk(x)].run_id = N8n(x))
          <6>1. \A t \in Task : PausedAs(t, N8n(x))' =
                  (/\ paused_task_runs'[t] # None /\ paused_task_runs'[t].run_id = N8n(x))
            BY DEF PausedAs, N8n
          <6>2. \A t \in Task : PausedAs(t, N8n(x))' =>
                  PausedAs(t, N8n(x)) \/ (m.status = "waiting_input" /\ x = m.run)
            BY <4>1 DEF Told
          <6> QED BY <4>3, <6>1, <6>2
        <5> QED BY <1>2, <3>1, <4>1, <5>1, <5>2 DEF HasPause
      <4> QED BY <2>1, <4>1, <4>2, <4>4
    <3>2. CASE x \notin acked
      <4>1. /\ x = m.run /\ m.status # "waiting_input" /\ m.named
            /\ ~HasLock(x)' /\ ~HasPause(x)'
        BY <3>2 DEF Told
      <4>2. \A n \in callbacks' : n.run = x => n.status # "waiting_input" /\ n.named
        BY <1>2, <4>1 DEF Told
      <4>3. Over(x)'
        BY <1>2, <2>1, <4>1 DEF CallbackCalm
      <4> QED BY <4>1, <4>2, <4>3
    <3> QED BY <3>1, <3>2
  <2>5. \A n, o \in callbacks' : n.run = o.run => n = o
    BY <2>3
  <2> QED BY <2>2, <2>4, <2>5 DEF CalmCallbacks
<1> QED BY <1>5, <1>6, <1>7, <1>8 DEF CalmInv

LEMMA CallbackTold ==
    ASSUME Calm, Inv, CalmInv, NEW m \in callbacks, CallbackStep(m) \/ callback_lost(m)
    PROVE  Told(m)
<1>1. /\ m.run \in Run /\ Proper(m) /\ Tk(m.run) \in Task /\ m.workflow \in Workflow
      /\ m.status # "waiting_input" => Over(m.run)
      /\ m.named /\ m.pc = "clear" => ~HasLock(m.run)
      /\ ~m.named /\ m.pc = "release" => RunningAs(Tk(m.run), m.target)
  BY CallbackFacts DEF CallbackCalm
<1>2. /\ m \in Callback
      /\ active_task_runs \in [Task -> ActiveRow \cup {None}]
      /\ paused_task_runs \in [Task -> PausedRow \cup {None}]
  BY DEF Inv, TypeOK, StoreTypeOK
<1>3. OfCallback
  BY DEF CallbackStep, callback_write, callback_lost, callback_pause, callback_lookup,
         callback_release, callback_clear
<1>4. UNCHANGED <<recon, req, n8n>> /\ Tk(m.run)' = Tk(m.run)
  BY <1>3 DEF OfCallback, Tk, Ev
<1>5. ASSUME NEW c \in Callback, NEW pc, NEW id
      PROVE  /\ [c EXCEPT !.pc = pc].run = c.run /\ [c EXCEPT !.pc = pc].status = c.status
             /\ [c EXCEPT !.pc = pc].named = c.named /\ [c EXCEPT !.pc = pc].pc = pc
             /\ [c EXCEPT !.pc = pc].target = c.target
             /\ [c EXCEPT !.pc = pc, !.target = id].run = c.run
             /\ [c EXCEPT !.pc = pc, !.target = id].status = c.status
             /\ [c EXCEPT !.pc = pc, !.target = id].named = c.named
             /\ [c EXCEPT !.pc = pc, !.target = id].pc = pc
             /\ [c EXCEPT !.pc = pc, !.target = id].target = id
  BY DEF Callback
<1>6. ASSUME NEW t \in Task, NEW id, UNCHANGED active_task_runs
      PROVE  RunningAs(t, id)' <=> RunningAs(t, id)
  BY <1>6 DEF RunningAs, Running
<1> DEFINE again == [m EXCEPT !.pc = "write", !.target = None]
<1>7. ASSUME Ends(m)
      PROVE  \/ callbacks' = callbacks \ {m}
             \/ \E n : /\ callbacks' = (callbacks \ {m}) \cup {n}
                       /\ n.run = m.run /\ n.status = m.status /\ n.named = m.named
                       /\ Proper(n) /\ (Frees(n) => Frees(m))
                       /\ n.pc = "write"
  <2>1. again.run = m.run /\ again.status = m.status /\ again.named = m.named
        /\ again.pc = "write"
    BY <1>2, <1>5
  <2>2. callbacks' = callbacks \ {m}
        \/ (callbacks' = (callbacks \ {m}) \cup {again} /\ "duplicate_callback" \in Env)
    BY <1>7 DEF Ends, Moves
  <2> HIDE DEF again
  <2>3. "duplicate_callback" \in Env => m.named
    BY <1>1 DEF Proper
  <2>4. "duplicate_callback" \in Env => Proper(again) /\ ~Frees(again)
    BY <2>1, <2>3 DEF Proper, Frees
  <2> QED BY <2>1, <2>2, <2>4
<1> HIDE DEF again
<1>8. CASE callback_write(m)
  <2>1. UNCHANGED <<active_task_runs, paused_task_runs, acked>>
    BY <1>8 DEF callback_write, storeVars
  <2>2. \A t \in Task, x \in Run : PausedAs(t, N8n(x))' => PausedAs(t, N8n(x))
    BY <2>1 DEF PausedAs, N8n
  <2>3. CASE m.status = "waiting_input" /\ ~m.named
    <3>1. Ends(m)
      BY <1>8, <2>3 DEF callback_write
    <3> QED BY <1>4, <1>7, <2>1, <2>2, <3>1 DEF Told
  <2>4. CASE ~(m.status = "waiting_input" /\ ~m.named)
    <3> DEFINE n == IF m.status = "waiting_input" THEN [m EXCEPT !.pc = "pause"]
                    ELSE IF m.named THEN [m EXCEPT !.pc = "release", !.target = N8n(m.run)]
                    ELSE [m EXCEPT !.pc = "lookup"]
    <3>1. callbacks' = (callbacks \ {m}) \cup {n}
      BY <1>8, <2>4 DEF callback_write, Moves
    <3>2. /\ n.run = m.run /\ n.status = m.status /\ n.named = m.named
          /\ n.pc = IF m.status = "waiting_input" THEN "pause"
                    ELSE IF m.named THEN "release" ELSE "lookup"
          /\ n.pc = "release" => n.target = N8n(m.run)
      BY <1>2, <1>5
    <3> HIDE DEF n
    <3>3. m.pc = "write"
      BY <1>8 DEF callback_write
    <3>4. Proper(n) /\ (Frees(n) => Frees(m))
      BY <1>1, <2>4, <3>2, <3>3 DEF Proper, Frees
    <3>5. n.pc # "clear" /\ (n.pc = "release" => n.named)
      BY <3>2
    <3> QED BY <1>4, <2>1, <2>2, <3>1, <3>2, <3>4, <3>5 DEF Told
  <2> QED BY <2>3, <2>4
<1>9. CASE callback_lost(m)
  BY <1>4, <1>9 DEF callback_lost, Told, storeVars, PausedAs, N8n
<1>10. CASE callback_pause(m)
  <2> DEFINE row == [run_id |-> N8n(m.run), workflow |-> m.workflow]
  <2>1. /\ Ends(m) /\ UNCHANGED <<active_task_runs, acked>>
        /\ paused_task_runs' = [paused_task_runs EXCEPT ![Tk(m.run)] = row]
        /\ m.status = "waiting_input"
    BY <1>1, <1>10 DEF callback_pause, upsert_paused_run, Proper
  <2>2. row.run_id = N8n(m.run)
    OBVIOUS
  <2> HIDE DEF row
  <2>3. ASSUME NEW t \in Task, NEW x \in Run, PausedAs(t, N8n(x))'
        PROVE  PausedAs(t, N8n(x)) \/ (x = m.run /\ t = Tk(m.run))
    <3>1. paused_task_runs'[t] # None /\ paused_task_runs'[t].run_id = N8n(x)
      BY <2>3 DEF PausedAs, N8n
    <3>2. CASE t = Tk(m.run)
      BY <1>1, <1>2, <2>1, <2>2, <3>1, <3>2, RunIds
    <3>3. CASE t # Tk(m.run)
      BY <1>2, <2>1, <3>1, <3>3 DEF PausedAs
    <3> QED BY <3>2, <3>3
  <2> QED BY <1>4, <1>7, <2>1, <2>3 DEF Told
<1>11. CASE callback_lookup(m)
  <2> DEFINE active == get_active_run(Tk(m.run))
             n == [m EXCEPT !.pc = "release", !.target = active.run_id]
  <2>1. /\ IF active = None THEN Ends(m) ELSE callbacks' = (callbacks \ {m}) \cup {n}
        /\ UNCHANGED <<active_task_runs, paused_task_runs, acked>>
        /\ m.pc = "lookup"
    BY <1>11 DEF callback_lookup, Moves, storeVars
  <2>2. m.status # "waiting_input" /\ ~m.named
    BY <1>1, <2>1 DEF Proper
  <2>3. \A t \in Task, x \in Run : PausedAs(t, N8n(x))' => PausedAs(t, N8n(x))
    BY <2>1 DEF PausedAs, N8n
  <2>4. CASE active = None
    BY <1>4, <1>7, <2>1, <2>3, <2>4 DEF Told
  <2>5. CASE active # None
    <3>1. PICK id : id = active.run_id /\ RunningAs(Tk(m.run), id)
      BY <1>1, <2>5 DEF get_active_run, RunningAs
    <3>2. RunningAs(Tk(m.run), id)'
      BY <1>1, <1>4, <1>6, <2>1, <3>1 DEF RunningAs, Running
    <3>3. /\ n.run = m.run /\ n.status = m.status /\ n.named = m.named
          /\ n.pc = "release" /\ n.target = id
      BY <1>2, <1>5, <3>1
    <3>4. callbacks' = (callbacks \ {m}) \cup {n}
      BY <2>1, <2>5
    <3> HIDE DEF n, active
    <3>5. PICK o : /\ callbacks' = (callbacks \ {m}) \cup {o}
                   /\ o.run = m.run /\ o.status = m.status /\ o.named = m.named
                   /\ o.pc = "release" /\ o.target = id
      BY <3>3, <3>4
    <3>6. Proper(o) /\ Frees(m)
      BY <1>1, <2>1, <2>2, <3>5 DEF Proper, Frees
    <3>7. RunningAs(Tk(m.run), o.target)'
      BY <3>2, <3>5
    <3> QED BY <1>4, <2>1, <2>2, <2>3, <3>5, <3>6, <3>7 DEF Told
  <2> QED BY <2>4, <2>5
<1>12. CASE callback_release(m)
  <2> DEFINE n == [m EXCEPT !.pc = "clear"]
  <2>1. /\ callbacks' = (callbacks \ {m}) \cup {n} /\ UNCHANGED <<paused_task_runs, acked>>
        /\ release_active_run(Tk(m.run), m.target, "released")
        /\ m.pc = "release"
    BY <1>12 DEF callback_release, Moves, release_active_run
  <2>2. n.run = m.run /\ n.status = m.status /\ n.named = m.named /\ n.pc = "clear"
        /\ n.target = m.target
    BY <1>2, <1>5
  <2> HIDE DEF n
  <2>3. Proper(n) /\ ~Frees(n) /\ (m.named => m.target = N8n(m.run))
    BY <1>1, <2>1, <2>2 DEF Proper, Frees
  <2>4. \A t \in Task, x \in Run : PausedAs(t, N8n(x))' => PausedAs(t, N8n(x))
    BY <2>1 DEF PausedAs, N8n
  <2>5. CASE RunningAs(Tk(m.run), m.target)
    <3> DEFINE row == [active_task_runs[Tk(m.run)] EXCEPT !.state = "released"]
    <3>1. active_task_runs[Tk(m.run)] \in ActiveRow
      BY <1>1, <1>2, <2>5 DEF RunningAs, Running
    <3>2. row \in ActiveRow /\ row.state = "released"
      BY <3>1 DEF ActiveRow
    <3>3. active_task_runs' = [active_task_runs EXCEPT ![Tk(m.run)] = row]
      BY <1>1, <1>2, <2>1, <2>5 DEF release_active_run
    <3> HIDE DEF row
    <3>4. active_task_runs'[Tk(m.run)].state # "running"
      BY <1>1, <1>2, <3>2, <3>3
    <3>5. ~HasLock(m.run)'
      BY <1>4, <3>4 DEF HasLock, RunningAs, Running
    <3>6. ASSUME NEW o \in callbacks', o.run = m.run PROVE o.pc = "clear"
      BY <2>1, <2>2, <3>6, CallbackFacts
    <3> QED BY <1>4, <2>1, <2>2, <2>3, <2>4, <2>5, <3>2, <3>3, <3>5, <3>6 DEF Told
  <2>6. CASE ~RunningAs(Tk(m.run), m.target)
    <3>1. active_task_runs' = active_task_runs
      BY <2>1, <2>6 DEF release_active_run
    <3>2. m.named => ~HasLock(m.run)'
      BY <1>4, <2>3, <2>6, <3>1 DEF HasLock, RunningAs, Running, N8n
    <3> QED BY <1>4, <2>1, <2>2, <2>3, <2>4, <3>1, <3>2 DEF Told
  <2> QED BY <2>5, <2>6
<1>13. CASE callback_clear(m)
  <2>1. /\ Ends(m) /\ acked' = IF m.named THEN acked \cup {m.run} ELSE acked
        /\ clear_paused_run(Tk(m.run), m.target) /\ UNCHANGED active_task_runs
        /\ m.pc = "clear"
    BY <1>13 DEF callback_clear, clear_paused_run
  <2>2. m.status # "waiting_input"
    BY <1>1, <2>1 DEF Proper
  <2>3. \A t \in Task, x \in Run : PausedAs(t, N8n(x))' => PausedAs(t, N8n(x))
    BY <1>1, <1>2, <2>1 DEF clear_paused_run, PausedAs, N8n
  <2>4. ASSUME m.named PROVE ~HasLock(m.run)' /\ ~HasPause(m.run)'
    <3>1. m.target = N8n(m.run) /\ ~HasLock(m.run)
      BY <1>1, <2>1, <2>4 DEF Proper
    <3>2. ~HasLock(m.run)'
      BY <1>4, <2>1, <3>1 DEF HasLock, RunningAs, Running, N8n
    <3>3. ~(/\ paused_task_runs'[Tk(m.run)] # None
            /\ paused_task_runs'[Tk(m.run)].run_id = N8n(m.run))
      BY <1>1, <1>2, <2>1, <3>1 DEF clear_paused_run, PausedAs
    <3> QED BY <1>4, <3>2, <3>3 DEF HasPause, PausedAs, N8n
  <2> QED BY <1>4, <1>7, <2>1, <2>2, <2>3, <2>4 DEF Told
<1> QED BY <1>8, <1>9, <1>10, <1>11, <1>12, <1>13 DEF CallbackStep

-----------------------------------------------------------------------------
(* All steps *)

LEMMA CalmStep ==
    Calm /\ Inv /\ CalmInv /\ [Next]_vars => CalmInv'
<1> SUFFICES ASSUME Calm, Inv, CalmInv, [Next]_vars PROVE CalmInv'
  OBVIOUS
<1>1. CASE \E e \in Event : receive(e)
  BY <1>1, CalmReceive
<1>2. CASE \E r \in Request : RequestStep(r)
  BY <1>2, CalmRequestStep, CalmMoveInv
<1>3. CASE \E p \in Reconciler : PassStep(p)
  BY <1>3, CalmPass
<1>4. CASE \E x \in Run : N8nStep(x)
  BY <1>4, CalmN8n
<1>5. CASE \E m \in callbacks : CallbackStep(m) \/ callback_lost(m)
  BY <1>5, CallbackTold, CalmTold
<1>6. CASE \E t \in Task : OperatorStep(t)
  BY <1>6, CalmOperator
<1>7. ~crash
  BY CalmEnv DEF crash
<1>8. CASE UNCHANGED vars
  <2>1. UNCHANGED <<storeVars, recon, req, n8n, callbacks, acked>>
    BY <1>8 DEF vars, reconVars
  <2>2. CalmPasses'
    BY <2>1 DEF CalmInv, CalmPasses, storeVars, Running
  <2> QED BY <2>1, <2>2, CalmSame DEF storeVars
<1> QED BY <1>1, <1>2, <1>3, <1>4, <1>5, <1>6, <1>7, <1>8 DEF Next

\* A live run owns the lock of its task, and a task has one owner.
LEMMA CalmIsOne == CalmInv => OneLiveRun /\ CompletionReleases
<1> SUFFICES ASSUME CalmInv PROVE OneLiveRun /\ CompletionReleases
  OBVIOUS
<1>1. OneLiveRun
  BY DEF CalmInv, CalmLocks, Owns, OneLiveRun
<1>2. CompletionReleases
  BY DEF CalmInv, CalmCallbacks, HasLock, HasPause, CompletionReleases
<1> QED BY <1>1, <1>2

-----------------------------------------------------------------------------
(* What a request answered is on record. *)

\* The row of the event of r says d after the step.
Says(r, d) == processed_events'[Ev(r)] # None /\ processed_events'[Ev(r)].decision = d

LEMMA MethodsSay ==
    ASSUME Inv, NEW r \in Request, req[r].pc # "idle", Recorded(Ev(r)), NEW d \in Decision
    PROVE  /\ update_processed_event_decision(Ev(r), d) => Says(r, d)
           /\ \A id : RunningAs(Tk(r), id) /\ persist_terminal_decision(Tk(r), Ev(r), d, id)
                       => Says(r, d)
<1>1. Ev(r) \in Event /\ processed_events \in [Event -> ProcessedRow \cup {None}]
  BY RequestFacts DEF Inv, TypeOK, StoreTypeOK
<1>2. processed_events[Ev(r)] \in ProcessedRow
  BY <1>1 DEF Recorded
<1> DEFINE row == [processed_events[Ev(r)] EXCEPT !.decision = d]
<1>3. row.decision = d /\ row # None
  BY <1>2, NoneIsNoValue DEF ProcessedRow
<1>4. ASSUME processed_events' = [processed_events EXCEPT ![Ev(r)].decision = d]
      PROVE  Says(r, d)
  <2>1. processed_events'[Ev(r)] = row
    BY <1>1, <1>4
  <2> HIDE DEF row
  <2> QED BY <1>3, <2>1 DEF Says
<1> QED BY <1>4 DEF update_processed_event_decision, persist_terminal_decision

\* The steps that leave a request with a decision on record.
LEMMA WritesRecord ==
    ASSUME Calm, Inv, OwnInv, CalmInv, RecordInv, NEW r \in Request,
           \/ mark(r) \/ outcome_row(r) \/ outcome_gate(r) \/ dispatch_failed(r)
           \/ outcome_dispatch(r) \/ qa_invalid(r) \/ settle(r) \/ resume_failed(r)
    PROVE  Says(r, req'[r].decision) /\ req'[r].pc \in {"done", "outcome_row"}
<1>1. req[r].pc \in {"mark", "outcome_row", "outcome_gate", "sent", "outcome_dispatch", "qa",
                     "settle", "resume_sent"}
  BY DEF mark, outcome_row, outcome_gate, dispatch_failed, outcome_dispatch, qa_invalid,
         settle, resume_failed, At
<1>2. /\ Recorded(Ev(r)) /\ req[r].pc # "idle"
      /\ req[r].pc \in {"mark", "outcome_gate", "settle"} => req[r].decision \in Decision
  BY <1>1 DEF OwnInv, Writing, Owning, Operating, Inv, Attached, RequestOK, Deciding
<1>3. "dispatch_failed" \in Decision
  BY DEF Decision
<1>4. CASE mark(r)
  BY <1>1, <1>2, <1>4, MethodsSay, MoveFields DEF mark, At
<1>5. CASE resume_failed(r)
  BY <1>2, <1>3, <1>5, MethodsSay, MoveFields DEF resume_failed
<1>6. CASE outcome_row(r)
  <2>1. At(r, "outcome_row") /\ Reply(r, req[r].decision) /\ UNCHANGED storeVars
    BY <1>6, CalmEnv DEF outcome_row
  <2> QED BY <1>2, <2>1, MoveFields DEF Says, Recorded, storeVars, RecordInv, RecordOK
<1>7. CASE outcome_dispatch(r)
  <2>1. At(r, "outcome_dispatch") /\ Reply(r, "dispatch") /\ UNCHANGED storeVars
    BY <1>7, CalmEnv DEF outcome_dispatch
  <2> QED BY <1>2, <2>1, MoveFields DEF Says, Recorded, storeVars, RecordInv, RecordOK, At
<1>8. CASE outcome_gate(r)
  <2>1. /\ At(r, "outcome_gate") /\ Reply(r, req[r].decision)
        /\ persist_terminal_decision(Tk(r), Ev(r), req[r].decision, Pending(Ev(r)))
    BY <1>8, CalmEnv DEF outcome_gate
  <2>2. RunningAs(Tk(r), Pending(Ev(r)))
    BY <2>1 DEF CalmInv, CalmLocks, At
  <2> QED BY <1>2, <2>1, <2>2, MethodsSay, MoveFields DEF At
<1>9. CASE dispatch_failed(r)
  <2>1. /\ At(r, "sent") /\ Decide(r, "outcome_row", "dispatch_failed")
        /\ persist_terminal_decision(Tk(r), Ev(r), "dispatch_failed", Pending(Ev(r)))
    BY <1>9 DEF dispatch_failed
  <2>2. RunningAs(Tk(r), Pending(Ev(r)))
    BY <2>1 DEF CalmInv, CalmLocks, At
  <2> QED BY <1>2, <1>3, <2>1, <2>2, MethodsSay, MoveFields
<1>10. CASE qa_invalid(r) \/ settle(r)
  <2>1. /\ req[r].pc \in {"qa", "settle"}
        /\ \E d \in Decision : /\ Reply(r, d)
                               /\ persist_terminal_decision(Tk(r), Ev(r), d, req[r].run)
    BY <1>2, <1>3, <1>10 DEF qa_invalid, settle, At
  <2>2. RunningAs(Tk(r), req[r].run)
    BY <2>1 DEF CalmInv, CalmLocks
  <2>3. PICK d \in Decision : Reply(r, d) /\ persist_terminal_decision(Tk(r), Ev(r), d, req[r].run)
    BY <2>1
  <2>4. Says(r, d)
    BY <1>2, <2>2, <2>3, MethodsSay
  <2> QED BY <2>3, <2>4, MoveFields
<1> QED BY <1>4, <1>5, <1>6, <1>7, <1>8, <1>9, <1>10

\* Where a request goes that has nothing on record yet, or nothing new.
LEMMA OwnRecord ==
    ASSUME Calm, Inv, OwnInv, LeakInv, CalmInv, RecordInv, NEW r \in Request, RequestStep(r)
    PROVE  RecordOK(r)'
<1>1. KeepsEvents(r) /\ req[r].pc # "idle" /\ CalmMove(r) /\ Effect(r)
  BY CalmRequestStep, RequestEffect DEF CalmMove
<1>2. /\ Ev(r)' = Ev(r) /\ Ev(r) \in Event
      /\ processed_events \in [Event -> ProcessedRow \cup {None}]
      /\ req \in [Request -> RequestState]
  BY <1>1, RequestFacts DEF KeepsEvents, Inv, TypeOK, StoreTypeOK
<1>3. CASE \/ mark(r) \/ outcome_row(r) \/ outcome_gate(r) \/ dispatch_failed(r)
           \/ outcome_dispatch(r) \/ qa_invalid(r) \/ settle(r) \/ resume_failed(r)
  <2>1. Says(r, req'[r].decision) /\ req'[r].pc \in {"done", "outcome_row"}
    BY <1>3, WritesRecord
  <2>2. req[r].pc \in Writing
    BY <1>3 DEF mark, outcome_row, outcome_gate, dispatch_failed, outcome_dispatch, qa_invalid,
                settle, resume_failed, At, Writing, Owning, Operating
  <2>3. ASSUME NEW s \in Request, req'[s].pc \in Writing, req'[r].pc = "done"
        PROVE  Ev(s)' # Ev(r)'
    <3>1. s # r
      BY <2>3 DEF Writing, Owning, Operating
    <3> QED BY <1>1, <2>2, <2>3, <3>1 DEF KeepsEvents, OwnInv
  <2> QED BY <1>2, <2>1, <2>3 DEF RecordOK, Says, Recorded, At
<1>4. CASE acquire_lock(r)
  <2> DEFINE d == LockDecision(Ev(r), req[r].at)
  <2>1. /\ d \in {"skip_duplicate", "stale_event", "reject_active_run", "dispatch"}
        /\ req[r].at \in Nat
    BY <1>2 DEF LockDecision, RequestState
  <2>2. CASE d = "skip_duplicate"
    <3>1. Reply(r, d)
      BY <1>4, <2>2 DEF acquire_lock
    <3>2. req'[r].pc = "done" /\ req'[r].decision = "skip_duplicate"
      BY <2>2, <3>1, MoveFields
    <3> QED BY <3>2 DEF RecordOK, At, Unrecorded
  <2>3. ASSUME d # "skip_duplicate" PROVE processed_events'[Ev(r)].decision = d
    <3>1. processed_events' = [processed_events EXCEPT ![Ev(r)] =
                                 [decision |-> d, at |-> req[r].at]]
      BY <1>4, <2>3 DEF acquire_lock, record_event_and_acquire_lock
    <3> HIDE DEF d
    <3> QED BY <1>2, <3>1
  <2>4. CASE d \in {"stale_event", "reject_active_run"}
    <3>1. Decide(r, "outcome_row", d)
      BY <1>4, <2>4 DEF acquire_lock
    <3> HIDE DEF d
    <3>2. req'[r].pc = "outcome_row" /\ req'[r].decision = d
      BY <3>1, MoveFields
    <3> QED BY <1>2, <2>3, <2>4, <3>2 DEF RecordOK, At
  <2>5. CASE d = "dispatch"
    <3>1. \/ Decide(r, "mark", "reject_missing_metadata")
          \/ Decide(r, "outcome_gate", Body(r).gate)
          \/ Goto(r, "post")
      BY <1>4, <2>5 DEF acquire_lock
    <3>2. req'[r].pc \in {"mark", "outcome_gate", "post"}
      BY <3>1, MoveFields
    <3> QED BY <1>2, <2>3, <2>5, <3>2 DEF RecordOK, At
  <2> QED BY <2>1, <2>2, <2>4, <2>5
<1>5. CASE outcome_only(r)
  <2>1. req'[r].pc = "done" /\ req'[r].decision \in Unrecorded
    BY <1>5, CalmEnv, MoveFields DEF outcome_only, RecordInv, RecordOK
  <2> QED BY <2>1 DEF RecordOK, At
<1>6. CASE read_paused_and_branch(r)
  <2>1. /\ Body(r).policy # "dispatch" => Body(r).policy \in Unrecorded
        /\ ~WantsCancel(r, req[r].active) /\ ~Checkpoint
    BY <1>2, PayloadType DEF Body, Payload, Unrecorded, Calm, WantsCancel
  <2> DEFINE keep == [req EXCEPT ![r].paused = paused_task_runs[Tk(r)]]
             drop == [req EXCEPT ![r].active = None]
  <2>2. \/ req' = [keep EXCEPT ![r].pc = "resume_record"]
        \/ /\ req' = [drop EXCEPT ![r].pc = "outcome_only", ![r].decision = Body(r).policy]
           /\ Body(r).policy # "dispatch"
        \/ req' = [drop EXCEPT ![r].pc = "lock"]
    BY <1>6, <2>1 DEF read_paused_and_branch
  <2>3. \/ req'[r].pc \in {"resume_record", "lock"}
        \/ req'[r].pc = "outcome_only" /\ req'[r].decision \in Unrecorded
    BY <1>2, <2>1, <2>2 DEF RequestState
  <2> QED BY <2>3 DEF RecordOK, At
<1>7. CASE resume_record(r)
  <2>1. \/ Reply(r, "skip_duplicate")
        \/ \E d : Decide(r, "resume_post", d) \/ Decide(r, "mark", d)
    BY <1>7 DEF resume_record, record_operator_event
  <2>2. \/ req'[r].pc = "done" /\ req'[r].decision = "skip_duplicate"
        \/ req'[r].pc \in {"resume_post", "mark"}
    BY <2>1, MoveFields
  <2> QED BY <2>2 DEF RecordOK, At, Unrecorded
<1>8. CASE post_dispatch(r) \/ dispatch_named(r) \/ dispatch_anonymous(r)
  <2>1. /\ req[r].pc \in {"post", "sent"} /\ processed_events' = processed_events
        /\ req'[r].pc \in {"sent", "qa", "outcome_dispatch"}
    <3>1. CASE post_dispatch(r)
      BY <1>2, <3>1, MoveFields DEF post_dispatch, At, storeVars, RequestState
    <3>2. CASE dispatch_named(r)
      BY <3>2, MoveFields DEF dispatch_named, Answered, AfterDispatch, At, set_active_run_id
    <3>3. CASE dispatch_anonymous(r)
      BY <1>2, <3>3 DEF dispatch_anonymous, Answered, AfterDispatch, At, storeVars, RequestState
    <3> QED BY <1>8, <3>1, <3>2, <3>3
  <2>2. processed_events[Ev(r)].decision = "dispatch"
    BY <2>1 DEF RecordInv, RecordOK
  <2> QED BY <1>2, <2>1, <2>2 DEF RecordOK, At
<1>9. CASE \/ read_active_run(r) \/ qa_result(r) \/ post_resume(r) \/ resumed(r)
           \/ resume_clear(r)
  <2>1. req'[r].pc \in {"get_paused", "settle", "resume_sent", "resume_clear", "mark"}
    <3>1. CASE read_active_run(r) \/ post_resume(r)
      BY <1>2, <3>1, MoveFields DEF read_active_run, post_resume, RequestState
    <3>2. CASE qa_result(r) \/ resumed(r) \/ resume_clear(r)
      BY <3>2, MoveFields DEF qa_result, resumed, resume_clear
    <3> QED BY <1>9, <3>1, <3>2
  <2> QED BY <2>1 DEF RecordOK, At
<1>10. /\ ~leave_checkpoint(r) /\ ~cancel_record(r) /\ ~cancel_signal(r)
       /\ ~cancel_release(r) /\ ~cancel_clear(r)
  <2>1. ~At(r, "checkpoint") /\ \A pc \in Cancelling : ~At(r, pc)
    BY DEF CalmInv, CalmRequests, Execution, At
  <2> QED BY <2>1, CalmEnv DEF leave_checkpoint, cancel_record, cancel_signal, cancel_release,
        cancel_clear, Cancelling
<1> QED BY <1>3, <1>4, <1>5, <1>6, <1>7, <1>8, <1>9, <1>10 DEF RequestStep

\* The rows of the others' events stay, and no one starts to write them.
LEMMA OthersRecord ==
    ASSUME Inv, OwnInv, RecordInv, NEW r \in Request, Effect(r),
           NEW s \in Request, s # r
    PROVE  RecordOK(s)'
<1>1. /\ KeepsEvents(r) /\ (Reads(r) \/ Inserts(r) \/ Settles(r))
      /\ processed_events \in [Event -> ProcessedRow \cup {None}]
  BY DEF Effect, Inv, TypeOK, StoreTypeOK
<1>2. req'[s] = req[s] /\ Ev(s)' = Ev(s) /\ RecordOK(s)
  BY <1>1 DEF KeepsEvents, RecordInv
<1>3. ASSUME Recorded(Ev(s)), Ev(s) \in Event, req[r].pc \in Writing => Ev(r) # Ev(s)
      PROVE  processed_events'[Ev(s)] = processed_events[Ev(s)]
  BY <1>1, <1>3 DEF Reads, Inserts, Settles, Recorded
<1>4. ASSUME Recorded(Ev(s)), req[r].pc \in Writing => Ev(r) # Ev(s), req'[r].pc \in Writing
      PROVE  Ev(r) # Ev(s)
  BY <1>1, <1>4 DEF Reads, Inserts, Settles
<1>5. CASE req[s].pc \in Writing
  <2>1. /\ Recorded(Ev(s)) /\ Ev(s) \in Event
        /\ req[r].pc \in Writing => Ev(r) # Ev(s)
    BY <1>5, RequestFacts DEF OwnInv, Writing, Owning, Operating
  <2>2. processed_events'[Ev(s)] = processed_events[Ev(s)]
    BY <1>3, <2>1
  <2> QED BY <1>2, <1>5, <2>2 DEF RecordOK, At, Writing, Owning, Operating
<1>6. CASE At(s, "done") /\ req[s].decision \notin Unrecorded
  <2>1. /\ Recorded(Ev(s)) /\ Ev(s) \in Event
        /\ \A q \in Request : req[q].pc \in Writing => Ev(q) # Ev(s)
    BY <1>2, <1>6, RequestFacts DEF RecordOK, At
  <2>2. processed_events'[Ev(s)] = processed_events[Ev(s)]
    BY <1>3, <2>1
  <2>3. \A q \in Request : req'[q].pc \in Writing => Ev(q)' # Ev(s)'
    BY <1>1, <1>2, <1>4, <2>1 DEF KeepsEvents
  <2> QED BY <1>2, <1>6, <2>1, <2>2, <2>3 DEF RecordOK, At, Recorded
<1>7. CASE req[s].pc \notin Writing /\ ~(At(s, "done") /\ req[s].decision \notin Unrecorded)
  BY <1>2, <1>7 DEF RecordOK, At, Writing, Owning
<1> QED BY <1>5, <1>6, <1>7

LEMMA RecordStep ==
    Calm /\ Inv /\ OwnInv /\ LeakInv /\ CalmInv /\ RecordInv /\ [Next]_vars => RecordInv'
<1> SUFFICES ASSUME Calm, Inv, OwnInv, LeakInv, CalmInv, RecordInv, [Next]_vars
             PROVE  RecordInv'
  OBVIOUS
<1>1. CASE \E r \in Request : RequestStep(r)
  <2>1. PICK r \in Request : RequestStep(r)
    BY <1>1
  <2>2. Effect(r) /\ RecordOK(r)'
    BY <2>1, RequestEffect, OwnRecord
  <2>3. \A s \in Request \ {r} : RecordOK(s)'
    BY <2>2, OthersRecord
  <2> QED BY <2>2, <2>3 DEF RecordInv
<1>2. CASE \A r \in Request : ~RequestStep(r)
  <2>1. /\ UNCHANGED processed_events
        /\ \A r \in Request :
             \/ req'[r] = req[r]
             \/ req[r].pc = "idle" /\ req'[r].pc = "get_active"
             \/ req'[r].pc = "dead" /\ req'[r].event = req[r].event
    BY <1>2, OtherEffect
  <2>2. ASSUME NEW r \in Request PROVE RecordOK(r)'
    <3>1. CASE req'[r] = req[r]
      <4>1. ASSUME NEW s \in Request, req'[s].pc \in Writing
            PROVE  req[s].pc \in Writing /\ Ev(s)' = Ev(s)
        BY <2>1, <4>1 DEF Ev, Writing, Owning, Operating
      <4> QED BY <2>1, <3>1, <4>1 DEF RecordInv, RecordOK, At, Recorded, Ev
    <3>2. CASE req'[r].pc \in {"get_active", "dead"}
      BY <3>2 DEF RecordOK, At
    <3> QED BY <2>1, <3>1, <3>2
  <2> QED BY <2>2 DEF RecordInv
<1> QED BY <1>1, <1>2

LEMMA CalmInits == Init => OwnInv /\ LeakInv /\ CalmInv /\ RecordInv
<1>1. Init => RecordInv
  BY DEF Init, IdleRequest, RecordInv, RecordOK, At
<1> QED BY <1>1, InitOwnLeak, CalmInit

\* While the surroundings are calm a task never has two executions alive in
\* n8n: whatever requests, callbacks, resumes and pauses interleave, and whether
\* or not runs are named, the lock has one owner from the POST to the end of the
\* execution, or to the callback that frees it.
THEOREM CalmHasOneLiveRun == ASSUME Calm PROVE Spec => []OneLiveRun
<1>1. Calm
  OBVIOUS
<1> QED BY <1>1, CalmIsOne, CalmInits, InitInv, NextInv, CalmStep, PTL DEF Spec

\* While the surroundings are calm an answered terminal callback leaves its run
\* neither the lock nor a paused row, then and ever after.
THEOREM CalmCompletionReleases == ASSUME Calm PROVE Spec => []CompletionReleases
<1>1. Calm
  OBVIOUS
<1> QED BY <1>1, CalmIsOne, CalmInits, InitInv, NextInv, CalmStep, PTL DEF Spec

\* While the surroundings are calm the decision a request answered with is on
\* record: the rollback of persist_terminal_decision never has to happen.
THEOREM CalmRepliesAreOnRecord == ASSUME Calm PROVE Spec => []RepliesAreOnRecord
<1>1. Calm
  OBVIOUS
<1>2. RecordInv => RepliesAreOnRecord
  BY DEF RecordInv, RecordOK, RepliesAreOnRecord, Unrecorded
<1> QED BY <1>1, <1>2, CalmInits, InitInv, NextInv, OwnStep, LeakStep, CalmStep, RecordStep, PTL
        DEF Spec

-----------------------------------------------------------------------------
(* What a cancellation leaves.  CancelMissesRenamed is not inductive: a run id
   that a request has read must never become the lock's again, neither by a
   rename (a response names a run once) nor by a new lock (an event takes the
   lock once). *)

Unsent ==
    {"idle", "get_active", "get_paused", "checkpoint", "lock", "post", "resume_record",
     "resume_post"}
Waiting == {"sent", "resume_sent"}

\* The id of a row: provisional, or of a run whose response was handled.
Named(x) == x \in posted /\ req[x].pc \notin Waiting
Tied(row) ==
    \/ row.run_id = Pending(row.event_id)
    \/ \E x \in Request : Named(x) /\ row.run_id = N8n(x)

\* The cancellation has released what it had to.
Past(q) ==
    \/ q.pc = "cancel_clear"
    \/ q.pc = "mark" /\ q.decision = "cancelled_by_operator"

\* A lock does not go back to the provisional id after it was read under another one.
NotBefore(row, saw) ==
    row # None /\ row.event_id = saw.event_id /\ row.run_id = Pending(saw.event_id) =>
        saw.run_id = Pending(saw.event_id)

Seen(r) ==
    req[r].active # None =>
        /\ req[r].active \in ActiveRow /\ Tied(req[r].active)
        /\ Recorded(req[r].active.event_id)
        /\ NotBefore(active_task_runs[Tk(r)], req[r].active)

SawInv ==
    /\ \A r \in Request : req[r].pc = "idle" => req[r].active = None
    /\ \A r \in Request : req[r].pc \in Unsent => r \notin posted /\ req[r].run = None
    /\ \A r \in Request : req[r].pc \in Waiting =>
         /\ r \in posted
         /\ \/ req[r].run \in {None, N8n(r)}
            \/ req[r].pc = "resume_sent" /\ req[r].run = req[r].paused.run_id
    /\ \A t \in Task : active_task_runs[t] # None => Tied(active_task_runs[t])
    /\ \A r \in Request : Seen(r)
    /\ \A r \in Request : Past(req[r]) =>
         req[r].active # None /\ ~RunningAs(Tk(r), req[r].active.run_id)

-----------------------------------------------------------------------------
(* What a step does to the locks *)

LocksEnd ==
    \A t \in Task :
        \/ active_task_runs'[t] = active_task_runs[t]
        \/ /\ active_task_runs[t] # None
           /\ active_task_runs'[t].event_id = active_task_runs[t].event_id
           /\ active_task_runs'[t].run_id = active_task_runs[t].run_id
           /\ active_task_runs'[t].state # "running"

Renames(r) ==
    /\ req[r].pc \in Waiting
    /\ active_task_runs[Tk(r)] # None
    /\ active_task_runs' = [active_task_runs EXCEPT ![Tk(r)].run_id = N8n(r)]

Takes(r) ==
    /\ ~Recorded(Ev(r))
    /\ active_task_runs' =
         [active_task_runs EXCEPT ![Tk(r)] =
            [run_id |-> Pending(Ev(r)), event_id |-> Ev(r), state |-> "running"]]

\* ... to the request that makes it ...
Sends(r) ==
    /\ posted' = posted \cup {r}
    /\ req[r].pc \in Unsent /\ req'[r].pc \in Waiting
    /\ \/ req'[r].run \in {None, N8n(r)}
       \/ req'[r].pc = "resume_sent" /\ req'[r].run = req'[r].paused.run_id
    /\ req'[r].active = req[r].active

Goes(r) ==
    /\ posted' = posted
    /\ req'[r].pc \notin Waiting \cup {"idle"}
    /\ req'[r].pc \in Unsent => req[r].pc \in Unsent /\ req'[r].run = req[r].run
    /\ \/ req'[r].active \in {None, req[r].active}
       \/ req'[r].active = get_active_run(Tk(r))

\* ... and to a cancellation that has released.
StaysPast(r) ==
    Past(req'[r]) =>
        /\ req'[r].active = req[r].active /\ req[r].active \in ActiveRow
        /\ \/ Past(req[r]) /\ active_task_runs' = active_task_runs
           \/ Tk(r) \in Task /\ release_active_run(Tk(r), req[r].active.run_id, "released")

Trace(r) ==
    /\ KeepsEvents(r)
    /\ Sends(r) \/ Goes(r)
    /\ LocksEnd \/ (Renames(r) /\ Goes(r)) \/ (Takes(r) /\ Goes(r))
    /\ StaysPast(r)

LEMMA HelpersKeepLocals ==
    ASSUME Inv, NEW r \in Request
    PROVE  /\ \A pc : Goto(r, pc) =>
                /\ req'[r].active = req[r].active /\ req'[r].run = req[r].run
                /\ req'[r].decision = req[r].decision /\ req'[r].paused = req[r].paused
           /\ \A pc, d : Decide(r, pc, d) =>
                /\ req'[r].active = req[r].active /\ req'[r].run = req[r].run
                /\ req'[r].decision = d
           /\ \A d : Reply(r, d) => req'[r].active = None
<1>1. req \in [Request -> RequestState]
  BY DEF Inv, TypeOK
<1>2. ASSUME NEW pc, Goto(r, pc)
      PROVE  /\ req'[r].active = req[r].active /\ req'[r].run = req[r].run
             /\ req'[r].decision = req[r].decision /\ req'[r].paused = req[r].paused
  BY <1>1, <1>2 DEF Goto, RequestState
<1>3. ASSUME NEW pc, NEW d, Decide(r, pc, d)
      PROVE  /\ req'[r].active = req[r].active /\ req'[r].run = req[r].run
             /\ req'[r].decision = d
  BY <1>1, <1>3 DEF Decide, RequestState
<1>4. ASSUME NEW d, Reply(r, d) PROVE req'[r].active = None
  BY <1>1, <1>4 DEF Reply, RequestState
<1> QED BY <1>2, <1>3, <1>4

LEMMA MethodsEnd ==
    ASSUME Inv, NEW t \in Task
    PROVE  /\ active_task_runs' = active_task_runs => LocksEnd
           /\ \A run : \A final \in {"released", "stale"} :
                release_active_run(t, run, final) => LocksEnd
           /\ \A e, d, run : persist_terminal_decision(t, e, d, run) => LocksEnd
<1> USE DEF LocksEnd, Inv, TypeOK, StoreTypeOK, Running, RunningAs, ActiveRow
<1>1. active_task_runs' = active_task_runs => LocksEnd
  OBVIOUS
<1>2. ASSUME NEW run, NEW final \in {"released", "stale"}, release_active_run(t, run, final)
      PROVE  LocksEnd
  BY <1>2 DEF release_active_run
<1>3. ASSUME NEW e, NEW d, NEW run, persist_terminal_decision(t, e, d, run)
      PROVE  LocksEnd
  BY <1>3 DEF persist_terminal_decision, storeVars
<1> QED BY <1>1, <1>2, <1>3

\* A handler that answers, or only goes on to write what it has decided.
LEMMA PlainTrace ==
    ASSUME Inv, NEW r \in Request, KeepsEvents(r), posted' = posted, LocksEnd,
           req'[r].pc \notin Unsent \cup Waiting, ~Past(req'[r]),
           req'[r].active \in {None, req[r].active}
    PROVE  Trace(r)
  BY DEF Trace, Goes, StaysPast, Unsent

LEMMA Recorders ==
    ASSUME Inv, NEW r \in Request, NEW next, NEW d, record_operator_event(r, next, d),
           next \notin Waiting \cup {"idle"}, next \in Unsent => req[r].pc \in Unsent,
           next # "cancel_clear", next = "mark" => d # "cancelled_by_operator"
    PROVE  Trace(r)
<1>1. active_task_runs' = active_task_runs /\ posted' = posted
  BY DEF record_operator_event, record_processed_event, Quiet
<1>2. LocksEnd
  BY <1>1 DEF LocksEnd
<1>3. CASE Reply(r, "skip_duplicate")
  <2>1. KeepsEvents(r) /\ req'[r].pc = "done" /\ req'[r].active = None
    BY <1>3, HelpersKeepEvents, HelpersKeepLocals
  <2> QED BY <1>1, <1>2, <2>1, PlainTrace DEF Unsent, Waiting, Past
<1>4. CASE Decide(r, next, d)
  <2>1. /\ KeepsEvents(r) /\ req'[r].pc = next /\ req'[r].active = req[r].active
        /\ req'[r].run = req[r].run /\ req'[r].decision = d
    BY <1>4, HelpersKeepEvents, HelpersKeepLocals
  <2>2. Goes(r)
    BY <1>1, <2>1 DEF Goes
  <2>3. StaysPast(r)
    BY <2>1 DEF StaysPast, Past
  <2> QED BY <1>2, <2>1, <2>2, <2>3 DEF Trace
<1> QED BY <1>3, <1>4 DEF record_operator_event

\* Before the lock.
LEMMA ReadingTrace ==
    ASSUME Inv, NEW r \in Request,
           \/ read_active_run(r) \/ read_paused_and_branch(r) \/ leave_checkpoint(r)
           \/ outcome_only(r) \/ acquire_lock(r) \/ resume_record(r) \/ cancel_record(r)
    PROVE  Trace(r)
<1>0. req \in [Request -> RequestState] /\ Ev(r) \in Event /\ Tk(r) \in Task
      /\ TaskOf[Ev(r)] = Tk(r)
  BY StepperHasBegun, RequestFacts DEF Inv, TypeOK, RequestStep
<1> USE DEF At
<1>1. CASE read_active_run(r)
  <2>1. /\ KeepsEvents(r) /\ req'[r].pc = "get_paused" /\ req'[r].run = req[r].run
        /\ req'[r].active = get_active_run(Tk(r)) /\ posted' = posted
    BY <1>0, <1>1 DEF read_active_run, KeepsEvents, Ev, RequestState, Quiet
  <2>2. Goes(r)
    BY <1>1, <2>1 DEF Goes, read_active_run, Unsent, Waiting
  <2>3. LocksEnd
    BY <1>1 DEF read_active_run, storeVars, LocksEnd
  <2> QED BY <2>1, <2>2, <2>3 DEF Trace, StaysPast, Past
<1>2. CASE read_paused_and_branch(r)
  <2>1. /\ KeepsEvents(r) /\ req'[r].run = req[r].run /\ posted' = posted
        /\ req'[r].pc \in {"outcome_only", "checkpoint", "lock", "resume_record",
                           "cancel_record"}
        /\ req'[r].active \in {None, req[r].active}
    BY <1>0, <1>2 DEF read_paused_and_branch, KeepsEvents, Ev, RequestState, history
  <2>2. Goes(r)
    BY <1>2, <2>1 DEF Goes, read_paused_and_branch, Unsent, Waiting
  <2>3. LocksEnd
    BY <1>2 DEF read_paused_and_branch, storeVars, LocksEnd
  <2> QED BY <2>1, <2>2, <2>3 DEF Trace, StaysPast, Past
<1>3. CASE leave_checkpoint(r)
  <2>1. /\ KeepsEvents(r) /\ req'[r].run = req[r].run /\ posted' = posted
        /\ req'[r].pc \in {"outcome_only", "lock"} /\ req'[r].active = req[r].active
    BY <1>3, HelpersKeepEvents, HelpersKeepLocals DEF leave_checkpoint, history
  <2>2. Goes(r)
    BY <1>3, <2>1 DEF Goes, leave_checkpoint, Unsent, Waiting
  <2>3. LocksEnd
    BY <1>3 DEF leave_checkpoint, storeVars, LocksEnd
  <2> QED BY <2>1, <2>2, <2>3 DEF Trace, StaysPast, Past
<1>4. CASE outcome_only(r)
  <2>1. /\ KeepsEvents(r) /\ req'[r].pc = "done" /\ req'[r].active = None /\ posted' = posted
    BY <1>4, HelpersKeepEvents, HelpersKeepLocals DEF outcome_only, Quiet
  <2>2. LocksEnd
    BY <1>4 DEF outcome_only, storeVars, LocksEnd
  <2> QED BY <2>1, <2>2, PlainTrace DEF Unsent, Waiting, Past
<1>5. CASE acquire_lock(r)
  <2> DEFINE d == LockDecision(Ev(r), req[r].at)
  <2>1. posted' = posted /\ record_event_and_acquire_lock(Ev(r), Pending(Ev(r)), req[r].at)
    BY <1>5 DEF acquire_lock, Quiet
  <2>2. LocksEnd \/ Takes(r)
    BY <1>0, <2>1 DEF record_event_and_acquire_lock, LockDecision, LocksEnd, Takes
  <2>3. /\ KeepsEvents(r) /\ req'[r].active \in {None, req[r].active}
        /\ req'[r].pc \in {"done", "outcome_row", "mark", "outcome_gate", "post"}
        /\ req'[r].pc = "post" => req'[r].run = req[r].run
        /\ req'[r].pc = "mark" => req'[r].decision = "reject_missing_metadata"
    <3>1. CASE Reply(r, d)
      BY <3>1, HelpersKeepEvents, HelpersKeepLocals
    <3>2. CASE Decide(r, "outcome_row", d)
      BY <3>2, HelpersKeepEvents, HelpersKeepLocals
    <3>3. CASE Decide(r, "mark", "reject_missing_metadata")
      BY <3>3, HelpersKeepEvents, HelpersKeepLocals
    <3>4. CASE Decide(r, "outcome_gate", Body(r).gate)
      BY <3>4, HelpersKeepEvents, HelpersKeepLocals
    <3>5. CASE Goto(r, "post")
      BY <3>5, HelpersKeepEvents, HelpersKeepLocals
    <3>6. \/ Reply(r, d) \/ Decide(r, "outcome_row", d)
          \/ Decide(r, "mark", "reject_missing_metadata")
          \/ Decide(r, "outcome_gate", Body(r).gate) \/ Goto(r, "post")
      BY <1>5 DEF acquire_lock, LockDecision
    <3> QED BY <3>1, <3>2, <3>3, <3>4, <3>5, <3>6
  <2>4. Goes(r)
    BY <1>5, <2>1, <2>3 DEF Goes, acquire_lock, Unsent, Waiting
  <2> QED BY <2>2, <2>3, <2>4 DEF Trace, StaysPast, Past
<1>6. ASSUME NEW next \in {"resume_post", "cancel_post", "mark"},
             NEW d \in {None, "reject_missing_metadata"}, record_operator_event(r, next, d),
             next = "resume_post" => req[r].pc = "resume_record",
             next = "mark" => d = "reject_missing_metadata"
      PROVE  Trace(r)
  <2>2. /\ next \notin Waiting \cup {"idle"} /\ next # "cancel_clear"
        /\ next \in Unsent => req[r].pc \in Unsent
    BY <1>6 DEF Unsent, Waiting
  <2> QED BY <1>6, <2>2, Recorders
<1>7. CASE resume_record(r)
  BY <1>6, <1>7 DEF resume_record
<1>8. CASE cancel_record(r)
  BY <1>6, <1>8 DEF cancel_record
<1> QED BY <1>1, <1>2, <1>3, <1>4, <1>5, <1>7, <1>8

\* Steps that write a decision, or release the lock with one.
LEMMA WritingTrace ==
    ASSUME Inv, NEW r \in Request,
           \/ mark(r) \/ outcome_row(r) \/ outcome_gate(r) \/ dispatch_failed(r)
           \/ outcome_dispatch(r) \/ qa_invalid(r) \/ qa_result(r) \/ settle(r)
           \/ resume_failed(r) \/ resume_clear(r) \/ dispatch_anonymous(r)
    PROVE  Trace(r)
<1>0. req \in [Request -> RequestState] /\ Ev(r) \in Event /\ Tk(r) \in Task
  BY StepperHasBegun, RequestFacts DEF Inv, TypeOK, RequestStep
<1>1. posted' = posted
  BY DEF mark, outcome_row, outcome_gate, dispatch_failed, outcome_dispatch, qa_invalid,
         qa_result, settle, resume_failed, resume_clear, dispatch_anonymous, Quiet, history
<1>2. LocksEnd
  <2>1. CASE \/ outcome_gate(r) \/ dispatch_failed(r) \/ outcome_dispatch(r) \/ qa_invalid(r)
             \/ settle(r)
    <3>1. \/ \E d, run : persist_terminal_decision(Tk(r), Ev(r), d, run)
          \/ active_task_runs' = active_task_runs
      BY <2>1 DEF outcome_gate, dispatch_failed, outcome_dispatch, qa_invalid, settle,
         update_processed_event_decision, storeVars
    <3> QED BY <1>0, <3>1, MethodsEnd
  <2>2. CASE \/ mark(r) \/ outcome_row(r) \/ qa_result(r) \/ resume_failed(r)
             \/ resume_clear(r) \/ dispatch_anonymous(r)
    <3>1. active_task_runs' = active_task_runs
      BY <2>2 DEF mark, outcome_row, qa_result, resume_failed, resume_clear,
         dispatch_anonymous, update_processed_event_decision, clear_paused_run, storeVars
    <3> QED BY <3>1 DEF LocksEnd
  <2> QED BY <2>1, <2>2
<1>3. /\ KeepsEvents(r) /\ req'[r].active \in {None, req[r].active}
      /\ req'[r].pc \in {"done", "outcome_row", "outcome_dispatch", "qa", "settle", "mark"}
      /\ req'[r].pc = "mark" => req'[r].decision = "input_resumed"
  <2>1. CASE \E d : Reply(r, d)
    BY <2>1, HelpersKeepEvents, HelpersKeepLocals
  <2>2. CASE Goto(r, "outcome_row")
    BY <2>2, HelpersKeepEvents, HelpersKeepLocals
  <2>3. CASE \E d : Decide(r, "outcome_row", d) \/ Decide(r, "settle", d)
    BY <2>3, HelpersKeepEvents, HelpersKeepLocals
  <2>4. CASE Decide(r, "mark", "input_resumed")
    BY <2>4, HelpersKeepEvents, HelpersKeepLocals
  <2>5. CASE dispatch_anonymous(r)
    BY <1>0, <2>5 DEF dispatch_anonymous, AfterDispatch, KeepsEvents, Ev, RequestState
  <2>6. \/ \E d : Reply(r, d)
        \/ Goto(r, "outcome_row")
        \/ \E d : Decide(r, "outcome_row", d) \/ Decide(r, "settle", d)
        \/ Decide(r, "mark", "input_resumed")
        \/ dispatch_anonymous(r)
    BY DEF mark, outcome_row, outcome_gate, dispatch_failed, outcome_dispatch, qa_invalid,
           qa_result, settle, resume_failed, resume_clear
  <2> QED BY <2>1, <2>2, <2>3, <2>4, <2>5, <2>6
<1> QED BY <1>1, <1>2, <1>3, PlainTrace DEF Unsent, Waiting, Past

\* The POSTs and their responses.
LEMMA PostingTrace ==
    ASSUME Inv, SawInv, NEW r \in Request,
           post_dispatch(r) \/ dispatch_named(r) \/ post_resume(r) \/ resumed(r)
    PROVE  Trace(r)
<1>0. req \in [Request -> RequestState] /\ Ev(r) \in Event /\ Tk(r) \in Task
  BY StepperHasBegun, RequestFacts DEF Inv, TypeOK, RequestStep
<1> USE DEF At
<1>1. CASE post_dispatch(r)
  <2>1. req[r].pc = "post" /\ req[r].run = None /\ posted' = posted \cup {r} /\ LocksEnd
    BY <1>1 DEF post_dispatch, SawInv, Unsent, storeVars, LocksEnd
  <2>2. /\ KeepsEvents(r) /\ req'[r].pc = "sent" /\ req'[r].active = req[r].active
        /\ req'[r].run \in {None, N8n(r)}
    <3>1. CASE req' = [req EXCEPT ![r].pc = "sent", ![r].run = N8n(r)]
      BY <1>0, <3>1 DEF KeepsEvents, Ev, RequestState
    <3>2. CASE Goto(r, "sent")
      BY <2>1, <3>2, HelpersKeepEvents, HelpersKeepLocals
    <3> QED BY <1>1, <3>1, <3>2 DEF post_dispatch
  <2>3. Sends(r)
    BY <2>1, <2>2 DEF Sends, Unsent, Waiting
  <2> QED BY <2>1, <2>2, <2>3 DEF Trace, StaysPast, Past
<1>2. CASE post_resume(r)
  <2> DEFINE x == req[r].paused.run_id[2]
  <2>1. req[r].pc = "resume_post" /\ req[r].run = None /\ posted' = posted \cup {r} /\ LocksEnd
    BY <1>2 DEF post_resume, SawInv, Unsent, storeVars, LocksEnd
  <2>2. req[r].paused.run_id = N8n(x)
    <3>1. req[r].paused \in PausedRow
      BY <2>1 DEF Inv, Attached, RequestOK, Resuming
    <3>2. PICK y \in Run : req[r].paused.run_id = N8n(y)
      BY <3>1 DEF PausedRow, NamedRun
    <3> QED BY <3>2 DEF N8n
  <2>3. /\ KeepsEvents(r) /\ req'[r].pc = "resume_sent" /\ req'[r].active = req[r].active
        /\ req'[r].run \in {None, N8n(r)} \/ req'[r].run = req'[r].paused.run_id
    <3>1. CASE Goto(r, "resume_sent")
      BY <2>1, <3>1, HelpersKeepEvents, HelpersKeepLocals
    <3>2. CASE req' = [req EXCEPT ![r].pc = "resume_sent", ![r].run = N8n(x)]
      <4> HIDE DEF x
      <4> QED BY <1>0, <2>2, <3>2 DEF KeepsEvents, Ev, RequestState
    <3>3. CASE req' = [req EXCEPT ![r].pc = "resume_sent", ![r].run = N8n(r)]
      BY <1>0, <3>3 DEF KeepsEvents, Ev, RequestState
    <3> QED BY <1>2, <3>1, <3>2, <3>3 DEF post_resume
  <2>4. Sends(r)
    BY <2>1, <2>3 DEF Sends, Unsent, Waiting
  <2> QED BY <2>1, <2>3, <2>4 DEF Trace, StaysPast, Past
<1>3. ASSUME NEW c, NEW next, set_active_run_id(Tk(r), c, req[r].run), Goto(r, next),
             posted' = posted, req[r].pc \in Waiting, req[r].run \in {N8n(r), c},
             next \in {"qa", "outcome_dispatch", "resume_clear"}
      PROVE  Trace(r)
  <2>1. KeepsEvents(r) /\ req'[r].pc = next /\ req'[r].active = req[r].active
    BY <1>3, HelpersKeepEvents, HelpersKeepLocals
  <2>2. Goes(r) /\ StaysPast(r)
    BY <1>3, <2>1 DEF Goes, Unsent, Waiting, StaysPast, Past
  <2>3. LocksEnd \/ Renames(r)
    <3>1. CASE ~RunningAs(Tk(r), c)
      BY <1>3, <3>1 DEF set_active_run_id, LocksEnd
    <3>2. CASE RunningAs(Tk(r), c) /\ req[r].run = c
      BY <1>3, <3>2 DEF set_active_run_id, LocksEnd, RunningAs, Running, Inv, TypeOK,
         StoreTypeOK, ActiveRow
    <3>3. CASE RunningAs(Tk(r), c) /\ req[r].run = N8n(r)
      BY <1>3, <3>3 DEF set_active_run_id, Renames, RunningAs, Running
    <3> QED BY <1>3, <3>1, <3>2, <3>3
  <2> QED BY <2>1, <2>2, <2>3 DEF Trace
<1>4. CASE dispatch_named(r)
  <2>1. req[r].pc = "sent" /\ req[r].run = N8n(r)
    BY <1>4 DEF dispatch_named, Answered, SawInv, Waiting
  <2>2. /\ set_active_run_id(Tk(r), Pending(Ev(r)), req[r].run)
        /\ Goto(r, AfterDispatch(r)) /\ posted' = posted
    BY <1>4 DEF dispatch_named, Quiet
  <2>3. AfterDispatch(r) \in {"qa", "outcome_dispatch"}
    BY DEF AfterDispatch
  <2> QED BY <1>3, <2>1, <2>2, <2>3 DEF Waiting
<1>5. CASE resumed(r)
  <2>1. /\ req[r].pc = "resume_sent"
        /\ req[r].run = N8n(r) \/ req[r].run = req[r].paused.run_id
    BY <1>5 DEF resumed, SawInv, Waiting
  <2>2. Goto(r, "resume_clear") /\ posted' = posted
    BY <1>5 DEF resumed, Quiet
  <2>3. CASE set_active_run_id(Tk(r), req[r].paused.run_id, req[r].run)
    BY <1>3, <2>1, <2>2, <2>3 DEF Waiting
  <2>4. CASE UNCHANGED storeVars
    <3>1. KeepsEvents(r) /\ req'[r].pc = "resume_clear" /\ req'[r].active = req[r].active
      BY <2>2, HelpersKeepEvents, HelpersKeepLocals
    <3>2. LocksEnd
      BY <2>4 DEF storeVars, LocksEnd
    <3> QED BY <2>2, <3>1, <3>2, PlainTrace DEF Unsent, Waiting, Past
  <2> QED BY <1>5, <2>3, <2>4 DEF resumed
<1> QED BY <1>1, <1>2, <1>4, <1>5

\* The cancellation itself.
LEMMA CancellingTrace ==
    ASSUME Inv, NEW r \in Request, cancel_signal(r) \/ cancel_release(r) \/ cancel_clear(r)
    PROVE  Trace(r)
<1>0. Ev(r) \in Event /\ Tk(r) \in Task /\ req[r].active \in ActiveRow
  <2>1. RequestStep(r) /\ req[r].pc \in Cancelling
    BY DEF cancel_signal, cancel_release, cancel_clear, At, Cancelling, RequestStep
  <2> QED BY <2>1, StepperHasBegun, RequestFacts DEF Inv, Attached, RequestOK
<1> USE DEF At
<1>1. CASE cancel_signal(r)
  <2>1. KeepsEvents(r) /\ req'[r].pc = "cancel_release" /\ req'[r].active = req[r].active
    BY <1>1, HelpersKeepEvents, HelpersKeepLocals DEF cancel_signal
  <2>2. LocksEnd /\ posted' = posted
    BY <1>1 DEF cancel_signal, storeVars, LocksEnd, history
  <2> QED BY <2>1, <2>2, PlainTrace DEF Unsent, Waiting, Past
<1>2. CASE cancel_release(r)
  <2>1. /\ KeepsEvents(r) /\ req'[r].active = req[r].active
        /\ req'[r].pc \in {"cancel_clear", "mark"}
    BY <1>2, HelpersKeepEvents, HelpersKeepLocals DEF cancel_release
  <2>2. /\ release_active_run(Tk(r), req[r].active.run_id, "released") /\ posted' = posted
    BY <1>2 DEF cancel_release, Quiet
  <2>3. LocksEnd
    <3>1. \A run : release_active_run(Tk(r), run, "released") => LocksEnd
      BY <1>0, MethodsEnd
    <3> QED BY <2>2, <3>1
  <2>4. Goes(r)
    BY <2>1, <2>2 DEF Goes, Unsent, Waiting
  <2>5. StaysPast(r)
    BY <1>0, <2>1, <2>2 DEF StaysPast
  <2> QED BY <2>1, <2>3, <2>4, <2>5 DEF Trace
<1>3. CASE cancel_clear(r)
  <2>1. KeepsEvents(r) /\ req'[r].active = req[r].active /\ req'[r].pc = "mark"
    BY <1>3, HelpersKeepEvents, HelpersKeepLocals DEF cancel_clear
  <2>2. active_task_runs' = active_task_runs /\ posted' = posted
    BY <1>3 DEF cancel_clear, clear_paused_run, Quiet
  <2>3. LocksEnd /\ Goes(r)
    BY <2>1, <2>2 DEF LocksEnd, Goes, Unsent, Waiting
  <2>4. StaysPast(r)
    BY <1>0, <1>3, <2>1, <2>2 DEF StaysPast, Past, cancel_clear
  <2> QED BY <2>1, <2>3, <2>4 DEF Trace
<1> QED BY <1>1, <1>2, <1>3

LEMMA RequestTrace ==
    ASSUME Inv, SawInv, NEW r \in Request, RequestStep(r)
    PROVE  Trace(r)
  BY ReadingTrace, WritingTrace, PostingTrace, CancellingTrace DEF RequestStep

-----------------------------------------------------------------------------
(* ... and everybody else's step *)

LEMMA OthersEnd ==
    ASSUME Inv, [Next]_vars, \A r \in Request : ~RequestStep(r)
    PROVE  LocksEnd
<1>1. ASSUME active_task_runs' = active_task_runs PROVE LocksEnd
  BY <1>1 DEF LocksEnd
<1>2. ASSUME NEW t \in Task, NEW run, NEW final \in {"released", "stale"},
             release_active_run(t, run, final)
      PROVE  LocksEnd
  BY <1>2, MethodsEnd
<1>3. ASSUME NEW e \in Event, receive(e) PROVE LocksEnd
  BY <1>1, <1>3 DEF receive, storeVars
<1>4. CASE crash
  BY <1>1, <1>4 DEF crash, storeVars
<1>5. ASSUME NEW p \in Reconciler, PassStep(p) PROVE LocksEnd
  <2>1. CASE list_running(p) \/ probe(p)
    BY <1>1, <2>1 DEF list_running, probe, storeVars
  <2>2. CASE release_stale(p)
    <3>1. recon[p].item \in Item
      BY <2>2 DEF release_stale, Inv, Attached, PassOK
    <3> QED BY <1>2, <2>2, <3>1 DEF release_stale, Item
  <2> QED BY <1>5, <2>1, <2>2 DEF PassStep, ReconcileStep
<1>6. ASSUME NEW x \in Run, N8nStep(x) PROVE LocksEnd
  BY <1>1, <1>6 DEF N8nStep, run_finishes, run_returns, run_asks, run_times_out, OfN8n,
     storeVars
<1>7. ASSUME NEW m \in callbacks, CallbackStep(m) \/ callback_lost(m) PROVE LocksEnd
  <2>1. CASE callback_release(m)
    <3>1. m.run \in Request /\ req[m.run].pc # "idle"
      BY <2>1 DEF Inv, TypeOK, Attached, Callback, CallbackOK, Request
    <3>2. Tk(m.run) \in Task
      BY <3>1, RequestFacts
    <3> QED BY <1>2, <2>1, <3>2 DEF callback_release
  <2>2. CASE ~callback_release(m)
    <3>1. active_task_runs' = active_task_runs
      BY <1>7, <2>2 DEF CallbackStep, callback_write, callback_lookup, callback_lost,
         callback_pause, callback_clear, upsert_paused_run, clear_paused_run, storeVars
    <3> QED BY <1>1, <3>1
  <2> QED BY <2>1, <2>2
<1>8. ASSUME NEW t \in Task, OperatorStep(t) PROVE LocksEnd
  BY <1>1, <1>8 DEF OperatorStep, OperatorMovesCard, storeVars
<1>9. CASE UNCHANGED vars
  BY <1>1, <1>9 DEF vars, storeVars
<1> QED BY <1>3, <1>4, <1>5, <1>6, <1>7, <1>8, <1>9 DEF Next

LEMMA OthersReceiveOrCrash ==
    ASSUME Inv, [Next]_vars, \A r \in Request : ~RequestStep(r), NEW r \in Request
    PROVE  \/ req'[r] = req[r]
           \/ /\ req[r].pc = "idle" /\ req'[r].pc = "get_active"
              /\ req'[r].run = req[r].run /\ req'[r].active = req[r].active
           \/ req'[r].pc = "dead" /\ req'[r].active = None
<1>0. req \in [Request -> RequestState]
  BY DEF Inv, TypeOK
<1>1. ASSUME NEW e \in Event, receive(e)
      PROVE  \/ req'[r] = req[r]
             \/ /\ req[r].pc = "idle" /\ req'[r].pc = "get_active"
                /\ req'[r].run = req[r].run /\ req'[r].active = req[r].active
  <2>1. PICK s \in Request : /\ req[s].pc = "idle"
                             /\ \E at : req' = [req EXCEPT ![s].pc = "get_active",
                                                    ![s].event = e, ![s].at = at]
    BY <1>1, Receives
  <2> QED BY <1>0, <2>1 DEF RequestState
<1>2. CASE crash
  BY <1>2 DEF crash, IdleRequest
<1>3. CASE UNCHANGED vars
  BY <1>3 DEF vars
<1>4. ASSUME NEW p \in Reconciler, PassStep(p) PROVE UNCHANGED req
  BY <1>4 DEF PassStep
<1>5. ASSUME NEW x \in Run, N8nStep(x) PROVE UNCHANGED req
  BY <1>5 DEF N8nStep, run_finishes, run_returns, run_asks, run_times_out, OfN8n
<1>6. ASSUME NEW m \in callbacks, CallbackStep(m) \/ callback_lost(m) PROVE UNCHANGED req
  BY <1>6 DEF CallbackStep, callback_write, callback_lookup, callback_lost, callback_pause,
              callback_release, callback_clear, OfCallback
<1>7. ASSUME NEW t \in Task, OperatorStep(t) PROVE UNCHANGED req
  BY <1>7 DEF OperatorStep
<1> QED BY <1>1, <1>2, <1>3, <1>4, <1>5, <1>6, <1>7 DEF Next

-----------------------------------------------------------------------------
(* An id once read never names the lock again. *)

Begins(q) == Tied(q) /\ Recorded(q.event_id)

\* A request's step.
LEMMA NamedStays ==
    ASSUME Inv, SawInv, NEW r \in Request, Trace(r), NEW x \in Request, Named(x)
    PROVE  Named(x)'
<1>1. CASE x # r
  BY <1>1 DEF Named, Trace, Sends, Goes, KeepsEvents
<1>2. CASE x = r
  <2>1. req[r].pc \notin Unsent
    BY <1>2 DEF Named, SawInv
  <2> QED BY <1>2, <2>1 DEF Named, Trace, Sends, Goes
<1> QED BY <1>1, <1>2

LEMMA TiedStays ==
    ASSUME Inv, SawInv, NEW r \in Request, Trace(r), NEW row, Tied(row)
    PROVE  /\ row.run_id = Pending(row.event_id)
              \/ \E x \in Request : Named(x)' /\ row.run_id = N8n(x)
<1>1. CASE row.run_id = Pending(row.event_id)
  BY <1>1
<1>2. ASSUME NEW x \in Request, Named(x), row.run_id = N8n(x)
      PROVE  \E y \in Request : Named(y)' /\ row.run_id = N8n(y)
  BY <1>2, NamedStays
<1> QED BY <1>1, <1>2 DEF Tied

\* What a step of r makes of a row that was read.
LEMMA ReadRow ==
    ASSUME Inv, SawInv, NEW r \in Request, RequestStep(r), Trace(r), NEW t \in Task,
           NEW saw \in ActiveRow, Tied(saw), Recorded(saw.event_id)
    PROVE  /\ NotBefore(active_task_runs[t], saw) => NotBefore(active_task_runs'[t], saw)
           /\ ~RunningAs(t, saw.run_id) => ~RunningAs(t, saw.run_id)'
<1> USE NoneIsNoValue
<1>0. Tk(r) \in Task /\ active_task_runs \in [Task -> ActiveRow \cup {None}] /\ r \in Run
  BY StepperHasBegun, RequestFacts DEF Inv, TypeOK, StoreTypeOK, Request
<1>1. CASE LocksEnd
  BY <1>0, <1>1 DEF LocksEnd, NotBefore, RunningAs, Running
<1>2. CASE Renames(r)
  <2>1. N8n(r) # Pending(saw.event_id)
    BY DEF N8n, Pending
  <2>2. N8n(r) # saw.run_id
    BY <1>2, <2>1 DEF Tied, Named, Renames, N8n
  <2>3. \/ active_task_runs'[t] = active_task_runs[t]
        \/ /\ active_task_runs'[t].run_id = N8n(r)
    BY <1>0, <1>2 DEF Renames, ActiveRow
  <2> QED BY <2>1, <2>2, <2>3 DEF NotBefore, RunningAs, Running
<1>3. CASE Takes(r)
  <2>1. Ev(r) # saw.event_id
    BY <1>3 DEF Takes
  <2>2. Pending(Ev(r)) # saw.run_id
    BY <2>1 DEF Tied, Pending, N8n
  <2>3. \/ active_task_runs'[t] = active_task_runs[t]
        \/ /\ active_task_runs'[t].run_id = Pending(Ev(r))
           /\ active_task_runs'[t].event_id = Ev(r)
    BY <1>0, <1>3 DEF Takes
  <2> QED BY <2>1, <2>2, <2>3 DEF NotBefore, RunningAs, Running
<1> QED BY <1>1, <1>2, <1>3 DEF Trace

LEMMA RequestSawStep ==
    ASSUME Inv, SawInv, [Next]_vars, NEW r \in Request, RequestStep(r)
    PROVE  SawInv'
<1>0. /\ req[r].pc # "idle" /\ Tk(r) \in Task /\ Trace(r)
      /\ active_task_runs \in [Task -> ActiveRow \cup {None}] /\ Inv'
  BY StepperHasBegun, RequestFacts, RequestTrace, NextInv DEF Inv, TypeOK, StoreTypeOK
<1>1. /\ \A s \in Request \ {r} : req'[s] = req[s]
      /\ \A s \in Request : Tk(s)' = Tk(s)
      /\ Sends(r) \/ Goes(r)
  BY <1>0 DEF Trace, KeepsEvents, Tk
<1>2. \A e \in Event : Recorded(e) => Recorded(e)'
  BY NextInv, RecordedStays DEF Inv, TypeOK, StoreInv
<1>3. \A s \in Request : req'[s].pc = "idle" => req'[s].active = None
  BY <1>0, <1>1 DEF Sends, Goes, Waiting, SawInv
<1>4. \A s \in Request : req'[s].pc \in Unsent => s \notin posted' /\ req'[s].run = None
  <2>1. req'[r].pc \in Unsent => r \notin posted' /\ req'[r].run = None
    BY <1>1 DEF Sends, Goes, SawInv, Waiting, Unsent
  <2>2. posted' \subseteq posted \cup {r}
    BY <1>1 DEF Sends, Goes
  <2> QED BY <1>1, <2>1, <2>2 DEF SawInv
<1>5. \A s \in Request : req'[s].pc \in Waiting =>
         /\ s \in posted'
         /\ \/ req'[s].run \in {None, N8n(s)}
            \/ req'[s].pc = "resume_sent" /\ req'[s].run = req'[s].paused.run_id
  <2>1. posted \subseteq posted'
    BY <1>1 DEF Sends, Goes
  <2>2. CASE Sends(r)
    BY <1>1, <2>1, <2>2 DEF Sends, SawInv
  <2>3. CASE Goes(r)
    BY <1>1, <2>1, <2>3 DEF Goes, SawInv
  <2> QED BY <1>1, <2>2, <2>3
<1>6. \A row : Tied(row) => Tied(row)'
  BY <1>0, TiedStays DEF Tied
<1>7. ASSUME NEW t \in Task, active_task_runs'[t] # None PROVE Tied(active_task_runs[t])'
  <2>1. CASE LocksEnd
    <3>1. /\ active_task_runs[t] # None
          /\ active_task_runs'[t].event_id = active_task_runs[t].event_id
          /\ active_task_runs'[t].run_id = active_task_runs[t].run_id
      BY <1>7, <2>1 DEF LocksEnd
    <3>2. Tied(active_task_runs[t])
      BY <3>1 DEF SawInv
    <3> QED BY <3>1, <3>2, <1>6 DEF Tied
  <2>2. CASE Renames(r) /\ Goes(r)
    <3>1. CASE t = Tk(r)
      <4>1. active_task_runs'[t].run_id = N8n(r)
        BY <1>0, <2>2, <3>1 DEF Renames, ActiveRow
      <4>2. Named(r)'
        BY <2>2 DEF Renames, Goes, SawInv, Named
      <4> QED BY <4>1, <4>2 DEF Tied
    <3>2. CASE t # Tk(r)
      <4>1. active_task_runs'[t] = active_task_runs[t]
        BY <1>0, <2>2, <3>2 DEF Renames
      <4> QED BY <1>6, <1>7, <4>1 DEF SawInv, Tied
    <3> QED BY <3>1, <3>2
  <2>3. CASE Takes(r)
    <3>1. \/ active_task_runs'[t] = active_task_runs[t]
          \/ /\ active_task_runs'[t].run_id = Pending(Ev(r))
             /\ active_task_runs'[t].event_id = Ev(r)
      BY <1>0, <2>3 DEF Takes
    <3> QED BY <1>6, <1>7, <3>1 DEF SawInv, Tied
  <2> QED BY <1>0, <2>1, <2>2, <2>3 DEF Trace
<1>8. ASSUME NEW s \in Request PROVE Seen(s)'
  <2>1. ASSUME NEW saw \in ActiveRow, Tied(saw), Recorded(saw.event_id),
               NotBefore(active_task_runs[Tk(s)], saw), req'[s].active = saw, Tk(s) \in Task
        PROVE  Seen(s)'
    <3>1. Tied(saw)' /\ Recorded(saw.event_id)'
      BY <1>2, <1>6, <2>1 DEF ActiveRow
    <3>2. NotBefore(active_task_runs'[Tk(s)], saw)
      BY <1>0, <2>1, ReadRow
    <3> QED BY <1>1, <2>1, <3>1, <3>2 DEF Seen, NotBefore
  <2>2. CASE req'[s].active = None
    BY <2>2 DEF Seen
  <2>3. CASE req'[s].active = req[s].active /\ req'[s].active # None
    <3>1. Seen(s) /\ req[s].pc # "idle"
      BY <2>3 DEF SawInv
    <3>2. Tk(s) \in Task
      BY <3>1, RequestFacts
    <3> QED BY <2>1, <2>3, <3>1, <3>2 DEF Seen
  <2>4. CASE s = r /\ req'[s].active = get_active_run(Tk(s)) /\ req'[s].active # None
    <3>1. active_task_runs[Tk(s)] # None /\ req'[s].active = active_task_runs[Tk(s)]
      BY <2>4 DEF get_active_run, Running
    <3>2. Tied(active_task_runs[Tk(s)]) /\ Recorded(active_task_runs[Tk(s)].event_id)
      BY <1>0, <2>4, <3>1 DEF SawInv, Inv, LockTracesToEvent
    <3>3. active_task_runs[Tk(s)] \in ActiveRow
      BY <1>0, <2>4, <3>1
    <3>4. NotBefore(active_task_runs[Tk(s)], active_task_runs[Tk(s)])
      BY DEF NotBefore
    <3> QED BY <1>0, <2>1, <2>4, <3>1, <3>2, <3>3, <3>4
  <2>5. CASE s = r
    <3>1. \/ req'[s].active \in {None, req[s].active}
          \/ req'[s].active = get_active_run(Tk(s))
      BY <1>1, <2>5 DEF Sends, Goes
    <3> QED BY <2>2, <2>3, <2>4, <2>5, <3>1
  <2>6. CASE s # r
    BY <1>1, <2>2, <2>3, <2>6
  <2> QED BY <2>5, <2>6
<1>9. ASSUME NEW s \in Request, Past(req'[s])
      PROVE  req'[s].active # None /\ (~RunningAs(Tk(s), req[s].active.run_id))'
  <2>1. CASE Past(req[s]) /\ req'[s].active = req[s].active
    <3>1. req[s].pc # "idle"
      BY <2>1 DEF Past
    <3>2. Tk(s) \in Task
      BY <3>1, RequestFacts
    <3>3. /\ req[s].active # None /\ ~RunningAs(Tk(s), req[s].active.run_id) /\ Seen(s)
      BY <2>1 DEF SawInv
    <3>4. PICK saw \in ActiveRow : saw = req[s].active
      BY <3>3 DEF Seen
    <3>5. PICK t \in Task : t = Tk(s)
      BY <3>2
    <3>6. ~RunningAs(t, saw.run_id)'
      BY <1>0, <3>3, <3>4, <3>5, ReadRow DEF Seen
    <3> QED BY <1>1, <2>1, <3>3, <3>4, <3>5, <3>6 DEF RunningAs, Running
  <2>2. CASE s = r /\ ~Past(req[r])
    <3>1. /\ req'[r].active = req[r].active /\ req[r].active \in ActiveRow
          /\ release_active_run(Tk(r), req[r].active.run_id, "released")
      BY <1>0, <1>9, <2>2 DEF Trace, StaysPast
    <3>2. (~RunningAs(Tk(r), req[r].active.run_id))'
      BY <1>0, <1>1, <3>1 DEF release_active_run, RunningAs, Running, ActiveRow
    <3> QED BY <2>2, <3>1, <3>2, NoneIsNoValue
  <2>3. CASE s = r /\ Past(req[r])
    BY <1>0, <1>9, <2>1, <2>3 DEF Trace, StaysPast
  <2>4. CASE s # r
    BY <1>1, <1>9, <2>1, <2>4
  <2> QED BY <2>2, <2>3, <2>4
<1> QED BY <1>3, <1>4, <1>5, <1>7, <1>8, <1>9 DEF SawInv

LEMMA OthersSawStep ==
    ASSUME Inv, SawInv, [Next]_vars, \A r \in Request : ~RequestStep(r)
    PROVE  SawInv'
<1>0. LocksEnd /\ active_task_runs \in [Task -> ActiveRow \cup {None}]
  BY OthersEnd DEF Inv, TypeOK, StoreTypeOK
<1>1. posted' = posted /\ \A s \in Request : req[s].pc # "idle" => Tk(s)' = Tk(s)
  BY OthersSendNothing DEF Tk
<1>2. \A e \in Event : Recorded(e) => Recorded(e)'
  BY NextInv, RecordedStays DEF Inv, TypeOK, StoreInv
<1>3. \A s \in Request :
        \/ req'[s] = req[s]
        \/ /\ req[s].pc = "idle" /\ req'[s].pc = "get_active"
           /\ req'[s].run = req[s].run /\ req'[s].active = req[s].active
        \/ req'[s].pc = "dead" /\ req'[s].active = None
  BY OthersReceiveOrCrash
<1>4. \A s \in Request : Named(s) => Named(s)'
  BY <1>1, <1>3 DEF Named, Waiting
<1>5. \A row : Tied(row) => Tied(row)'
  BY <1>4 DEF Tied
<1>6. \A s \in Request : req'[s].pc = "idle" => req'[s].active = None
  BY <1>3 DEF SawInv
<1>7. \A s \in Request : req'[s].pc \in Unsent => s \notin posted' /\ req'[s].run = None
  BY <1>1, <1>3 DEF SawInv, Unsent
<1>8. \A s \in Request : req'[s].pc \in Waiting =>
         /\ s \in posted'
         /\ \/ req'[s].run \in {None, N8n(s)}
            \/ req'[s].pc = "resume_sent" /\ req'[s].run = req'[s].paused.run_id
  BY <1>1, <1>3 DEF SawInv, Waiting
<1>9. ASSUME NEW t \in Task, active_task_runs'[t] # None PROVE Tied(active_task_runs[t])'
  <2>1. /\ active_task_runs[t] # None
        /\ active_task_runs'[t].event_id = active_task_runs[t].event_id
        /\ active_task_runs'[t].run_id = active_task_runs[t].run_id
    BY <1>0, <1>9 DEF LocksEnd
  <2> QED BY <1>5, <2>1 DEF SawInv, Tied
<1>10. ASSUME NEW s \in Request, req'[s].active # None
       PROVE  /\ req[s].pc # "idle" /\ req'[s] = req[s] /\ Tk(s) \in Task /\ Tk(s)' = Tk(s)
              /\ Seen(s)
  <2>1. req[s].pc # "idle" /\ req'[s] = req[s] /\ Seen(s)
    BY <1>3, <1>10 DEF SawInv
  <2> QED BY <1>1, <2>1, RequestFacts
<1>11. ASSUME NEW s \in Request PROVE Seen(s)'
  <2>1. CASE req'[s].active = None
    BY <2>1 DEF Seen
  <2>2. CASE req'[s].active # None
    <3>1. /\ req'[s] = req[s] /\ Tk(s) \in Task /\ Tk(s)' = Tk(s)
          /\ req[s].active # None /\ Seen(s)
      BY <1>10, <2>2
    <3>2. PICK saw \in ActiveRow : saw = req[s].active
      BY <3>1 DEF Seen
    <3>3. Tied(saw)' /\ Recorded(saw.event_id)'
      BY <1>2, <1>5, <3>1, <3>2 DEF Seen, ActiveRow
    <3>4. NotBefore(active_task_runs'[Tk(s)], saw)
      BY <1>0, <3>1, <3>2 DEF Seen, NotBefore, LocksEnd
    <3> QED BY <3>1, <3>2, <3>3, <3>4 DEF Seen, NotBefore
  <2> QED BY <2>1, <2>2
<1>12. ASSUME NEW s \in Request, Past(req'[s])
       PROVE  req'[s].active # None /\ (~RunningAs(Tk(s), req[s].active.run_id))'
  <2>1. req'[s] = req[s] /\ Past(req[s])
    BY <1>3, <1>12 DEF Past
  <2>2. Tk(s) \in Task /\ Tk(s)' = Tk(s) /\ req[s].active # None
        /\ ~RunningAs(Tk(s), req[s].active.run_id)
    BY <1>10, <2>1 DEF SawInv
  <2>3. \/ active_task_runs'[Tk(s)] = active_task_runs[Tk(s)]
        \/ active_task_runs'[Tk(s)].state # "running"
    BY <1>0, <2>2 DEF LocksEnd
  <2> QED BY <2>1, <2>2, <2>3 DEF RunningAs, Running
<1> QED BY <1>6, <1>7, <1>8, <1>9, <1>11, <1>12 DEF SawInv

LEMMA SawStep == Inv /\ SawInv /\ [Next]_vars => SawInv'
  BY RequestSawStep, OthersSawStep

LEMMA SawInit == Init => SawInv
  BY DEF Init, StoreInit, SawInv, IdleRequest, Unsent, Waiting, Seen, Past

\* A cancellation leaves the run it saw its lock only where the response to a POST
\* named the run between the read and the release: no other interleaving, crash or
\* misbehaviour of n8n or ClickUp makes it miss.
THEOREM CancellationsMissRenamedOnly == Spec => []CancelMissesRenamed
<1>1. Inv /\ SawInv => CancelMissesRenamed
  <2> SUFFICES ASSUME Inv, SawInv, NEW r \in Request, Cancelled(r), StillHeld(r)
               PROVE  \E x \in posted :
                         /\ active_task_runs[Tk(r)].run_id = N8n(x)
                         /\ req[r].active.run_id # N8n(x)
    BY DEF CancelMissesRenamed
  <2>1. Past(req[r]) /\ req[r].pc # "idle"
    BY DEF Cancelled, At, Past
  <2>2. req[r].active # None /\ ~RunningAs(Tk(r), req[r].active.run_id) /\ Seen(r)
        /\ Tk(r) \in Task
    BY <2>1, RequestFacts DEF SawInv
  <2>3. active_task_runs[Tk(r)] # None /\ Tied(active_task_runs[Tk(r)])
        /\ active_task_runs[Tk(r)].run_id # req[r].active.run_id
    BY <2>2 DEF StillHeld, RunningAs, Running, SawInv
  <2>4. active_task_runs[Tk(r)].run_id # Pending(active_task_runs[Tk(r)].event_id)
    BY <2>2, <2>3 DEF StillHeld, Seen, NotBefore
  <2> QED BY <2>3, <2>4 DEF Tied, Named
<1> QED BY <1>1, InitInv, NextInv, SawInit, SawStep, PTL DEF Spec
===============================================================================
