------------------------------ MODULE Implement ------------------------------
(***************************************************************************)
(* The implement step (scripts/speckit_implement_step.py) over the task    *)
(* ledger: workers of one feature in one work tree.  A worker picks a      *)
(* task, has an agent do it, commits, has the commit judged by offline QA  *)
(* (speckit_offline_qa_handoff), closes the task out in the task ledger    *)
(* and in tasks.md (speckit_closeout_task), and goes on until no task is   *)
(* open; then the task gate (speckit_implement_gate) puts the completion   *)
(* in the pipeline ledger.  Shells run the tools on their own: append,     *)
(* register, trigger, closeout.                                            *)
(***************************************************************************)
EXTENDS TaskLedger

CONSTANTS
    Worker,        \* processes of the implement step
    Shell,         \* processes that call one tool at a time
    ActorOf,       \* the actor name each worker runs under
    ToolOf,        \* the tools each shell calls
    CliEvent,      \* CliEvent[t]: the events the shells append for task t
    CliVerdict,    \* and the verdicts they report
    MaxAttempt,    \* bound: no fix is started beyond this attempt
    QaRetries      \* MAX_QA_RETRIES

Proc == Worker \cup Shell

ASSUME ProcAssumption ==
    /\ Worker \cap Shell = {}
    /\ ActorOf \in [Worker -> Actor]
    /\ ToolOf \in [Shell -> SUBSET {"register", "append", "trigger", "closeout"}]
    /\ CliEvent \in [Task -> SUBSET TaskEvent]
    /\ CliVerdict \subseteq Verdict
    /\ QaRetries \in Nat \ {0} /\ MaxAttempt \in Nat \ {0}

VARIABLES
    job,           \* job[p]: what process p is doing
    mark,          \* the tasks ticked in tasks.md
    branch,        \* what the work tree is on: "main", "feature", "other"
    dirty, staged, \* uncommitted work, and the part of it in git's index
    head,          \* what the latest commit holds
    payload,       \* the <<task, attempt>> pairs that have a QA payload
    plog, torn     \* the feature's history in the pipeline ledger

\* A file of the work tree is known by the task it was changed for; Books are
\* the files the tools themselves write: the ledger, tasks.md, QA payloads.
Books == "books"
Work == Task \cup {Books}

Pipeline == INSTANCE PipelineLedger WITH
    Feature <- {"feature"}, MaxLog <- 6,
    StartLogs <- { << [event |-> "backlog_registered", phase |-> "specify"],
                      [event |-> "plan_approved", phase |-> "plan"],
                      [event |-> "solution_approved", phase |-> "solution"],
                      [event |-> "analysis_completed", phase |-> None] >> }

gitVars == <<branch, dirty, staged, head, payload>>
vars == <<ts, active, bad, attempt, ungated, job, mark, gitVars, plog, torn>>

\* "call" is the tool whose lines a process appends ("start", "append", "register",
\* "closeout", or "none"), "todo" what is left: events of a closeout, tasks of a registration.
Idle == [pc |-> "idle", actor |-> None, task |-> None, attempt |-> 0, round |-> 0,
         call |-> "none", todo |-> {}, event |-> None, verdict |-> None, lines |-> {},
         commit |-> {}, listed |-> {}, alone |-> FALSE, built |-> FALSE,
         reply |-> None]

At(p, pc) == job[p].pc = pc
Busy(p) == job[p].pc \notin {"idle", "done"}
Me(p) == job[p].actor

\* A step of p that leaves the files alone, and one that changes them: no
\* other process has had the work tree to itself then.
Set(p, new) == job' = [job EXCEPT ![p] = new]
SetFiles(p, new) ==
    job' = [q \in Proc |-> IF q = p THEN new ELSE [job[q] EXCEPT !.alone = FALSE]]

\* The answers: "ok", "blocked" (an envelope with a reason), and "exit", the
\* SystemExit of a tool that nobody caught.
Done(r) == [Idle EXCEPT !.pc = "done", !.reply = r]
Reply(p, r) == Set(p, Done(r))
To(p, pc) == Set(p, [job[p] EXCEPT !.pc = pc])

onlyJob == <<taskVars, mark, gitVars, plog, torn>>

(***************************************************************************)
(* Calls of the tools; a shell may name any actor.                         *)
(***************************************************************************)
StepCall(p) ==
    /\ p \in Worker /\ At(p, "idle")
    /\ Set(p, [Idle EXCEPT !.pc = "branch", !.actor = ActorOf[p]])
    /\ UNCHANGED onlyJob

\* No such feature, or the gate of the documents is not open.
StepRefused(p) ==
    /\ p \in Worker /\ At(p, "idle")
    /\ Reply(p, "blocked")
    /\ UNCHANGED onlyJob

\* _ensure_implement_branch: made from main, else only switched to.
EnsureBranch(p) ==
    /\ At(p, "branch")
    /\ \/ branch = "other" /\ Reply(p, "blocked") /\ UNCHANGED branch
       \/ branch # "other" /\ To(p, "select") /\ branch' = "feature"
    /\ UNCHANGED <<taskVars, mark, dirty, staged, head, payload, plog, torn>>

(***************************************************************************)
(* register_tasks: the tasks of tasks.md without a registration, in order; *)
(* the ledger is read again after every line, and a task that has been     *)
(* started since is skipped, one that has been registered since is not.    *)
(***************************************************************************)
Register(p, a, tasks) ==
    LET left == { t \in tasks : ~IsStarted(t) } IN
    IF bad THEN Reply(p, "exit")
    ELSE \/ left = {} /\ Reply(p, "ok")
         \/ \E t \in left :
               /\ \A u \in left : Position(t) <= Position(u)
               /\ Set(p, [Idle EXCEPT !.pc = "validate", !.call = "register", !.actor = a,
                             !.task = t, !.event = "task_registered", !.todo = left \ {t}])

RegisterCall(p, a) ==
    /\ p \in Shell /\ At(p, "idle") /\ "register" \in ToolOf[p]
    /\ Register(p, a, { t \in Task : ~IsRegistered(t) })
    /\ UNCHANGED onlyJob

RegisterNext(p) ==
    /\ At(p, "register")
    /\ Register(p, Me(p), job[p].todo)
    /\ UNCHANGED onlyJob

\* The events that carry a verdict or a status; a shell may forget it.
Reported(e) == {None} \cup (IF e \in {"qa_verdict", "ci_completed"} THEN CliVerdict ELSE {})

\* validate_event_shape, of the fields that matter later.
WellFormed(e, v) == e \in {"qa_verdict", "ci_completed"} => v \in Verdict

\* cmd_append, up to the write; a fix raises the attempt.
AppendCall(p, a, t, e, v) ==
    /\ p \in Shell /\ At(p, "idle") /\ "append" \in ToolOf[p]
    /\ e = "fix_started" => attempt[t] < MaxAttempt
    /\ IF WellFormed(e, v) /\ MayAppend(t, e, a)
       THEN Set(p, [Idle EXCEPT !.pc = "write", !.call = "append", !.actor = a, !.task = t,
                                !.event = e, !.verdict = v,
                                !.attempt = IF e = "fix_started" THEN attempt[t] + 1
                                            ELSE attempt[t]])
       ELSE Reply(p, "exit")
    /\ UNCHANGED onlyJob

\* explicit_task_start_or_resume.
StartOrResume(p, a, t) ==
    IF bad \/ ~IsRegistered(t) THEN Reply(p, "exit")
    ELSE IF IsOpen(t) THEN Reply(p, IF ts[t].owner = a THEN "ok" ELSE "exit")
    ELSE Set(p, [Idle EXCEPT !.pc = "assert", !.actor = a, !.task = t])

(***************************************************************************)
(* The trigger (speckit_clickup_trigger): a change of a card's status to   *)
(* ready or done asks for a task, by its name or through the manifest;     *)
(* which task a card means is Sync!Resolved.                               *)
(***************************************************************************)
Request == [named : BOOLEAN, dry : BOOLEAN, status : {"ready", "done"}]

\* A change to any other status is ignored (_status_needs_repo_gate); one of a
\* card that is not in the manifest exactly once is turned down.
TriggerRefused(p) ==
    /\ p \in Shell /\ At(p, "idle") /\ "trigger" \in ToolOf[p]
    /\ Reply(p, "ok") \/ Reply(p, "blocked")
    /\ UNCHANGED onlyJob

\* Only a request that names its task is asked whether it means a start.
Executes(r) == ~r.dry /\ (r.named => r.status = "ready")

\* explicit_task_start_gate: a summary, which changes nothing.
StartGate(t, a) == [closed |-> IsClosed(t), free |-> MayStart(t, a)]

\* render_response: "done" is right of a closed task, "ready" of one that may start.
GateAnswer(r, gate) ==
    IF (r.status = "done" /\ gate.closed) \/ (r.status = "ready" /\ gate.free)
    THEN "ok" ELSE "blocked"

TriggerCall(p, a, t, r) ==
    /\ p \in Shell /\ At(p, "idle") /\ "trigger" \in ToolOf[p]
    /\ IF Executes(r) THEN StartOrResume(p, a, t)
       ELSE Reply(p, IF bad THEN "exit" ELSE GateAnswer(r, StartGate(t, a)))
    /\ UNCHANGED onlyJob

CloseoutCall(p, a, t, v, commit) ==
    /\ p \in Shell /\ At(p, "idle") /\ "closeout" \in ToolOf[p]
    /\ Set(p, [Idle EXCEPT !.pc = "closeout", !.actor = a, !.task = t, !.verdict = v,
                           !.commit = commit])
    /\ UNCHANGED onlyJob

(***************************************************************************)
(* _select_next_registered_task: the first task in the order of tasks.md   *)
(* that is registered, not closed, and either open under this actor's name *)
(* or free to start.                                                       *)
(***************************************************************************)
Pickable(t, a) ==
    /\ IsRegistered(t) /\ ~IsClosed(t)
    /\ IF IsStarted(t) THEN ts[t].owner = a ELSE MayStart(t, a)

Picks(p) == { t \in Task : Pickable(t, Me(p)) }

SelectTask(p) ==
    /\ At(p, "select") /\ ~bad
    /\ \E t \in Picks(p) :
          /\ \A u \in Picks(p) : Position(t) <= Position(u)
          /\ Set(p, [job[p] EXCEPT !.task = t, !.round = 0,
                        !.pc = IF IsStarted(t) THEN "attempt" ELSE "assert"])
    /\ UNCHANGED onlyJob

\* The ledger is invalid, or no task is free: task_queue_failed.
NothingToPick(p) ==
    /\ At(p, "select") /\ (bad \/ Picks(p) = {})
    /\ Reply(p, "blocked")
    /\ UNCHANGED onlyJob

\* Where a refusal of the ledger (SystemExit) leaves a process: the task
\* selection catches it, the closeout does not.
Exit(p) == IF p \in Shell THEN "exit" ELSE "blocked"

\* assert_can_start_task, on a fresh reading of the ledger.
AssertStart(p) ==
    /\ At(p, "assert")
    /\ IF ~bad /\ MayStart(job[p].task, Me(p))
       THEN Set(p, [job[p] EXCEPT !.pc = "validate", !.call = "start",
                                   !.event = "task_started"])
       ELSE Reply(p, Exit(p))
    /\ UNCHANGED onlyJob

\* Mutant: the ledger is not read again after the start.
ReadAgain_Trusting(p) ==
    /\ At(p, "reread")
    /\ IF p \in Shell THEN Reply(p, "ok") ELSE To(p, "attempt")
    /\ UNCHANGED onlyJob

\* feature_state_for after the start: the start may have crossed another.
ReadAgain(p) ==
    /\ At(p, "reread")
    /\ IF bad THEN Reply(p, Exit(p))
       ELSE IF p \in Shell THEN Reply(p, "ok")
       ELSE To(p, "attempt")
    /\ UNCHANGED onlyJob

\* read_events and latest_attempt, at the end of the selection.
TakeAttempt(p) ==
    /\ At(p, "attempt")
    /\ Set(p, [job[p] EXCEPT !.pc = "agent", !.attempt = attempt[job[p].task]])
    /\ UNCHANGED onlyJob

(***************************************************************************)
(* One append: validated against the file as it is read (append_event_     *)
(* record), then written to the file as it is by then.  A closeout goes    *)
(* through its events in their canonical order.                            *)
(***************************************************************************)
Rank == [tests_passed |-> 1, offline_qa_started |-> 2, offline_qa_failed |-> 3,
         offline_qa_passed |-> 4, commit_created |-> 5, task_closed |-> 6]

NextEvent(p) ==
    /\ At(p, "next")
    /\ \/ job[p].todo = {} /\ To(p, "stamp")
       \/ \E e \in job[p].todo :
             /\ \A later \in job[p].todo : Rank[e] <= Rank[later]
             /\ Set(p, [job[p] EXCEPT !.pc = "validate", !.event = e, !.todo = @ \ {e}])
    /\ UNCHANGED onlyJob

Validate(p) ==
    /\ At(p, "validate")
    /\ IF MayAppend(job[p].task, job[p].event, Me(p))
       THEN To(p, "write")
       ELSE Reply(p, IF job[p].call = "start" THEN Exit(p) ELSE "exit")
    /\ UNCHANGED onlyJob

\* What each tool does after its line.
Follow == [start |-> "reread", register |-> "register", append |-> "hook", closeout |-> "hook"]

Write(p) ==
    /\ At(p, "write")
    /\ AppendLine(job[p].task, job[p].event, Me(p), job[p].verdict, job[p].attempt)
    /\ ungated' = IF job[p].call = "append" /\ job[p].event = "task_started"
                  THEN ungated \cup {job[p].task} ELSE ungated
    /\ SetFiles(p, [job[p] EXCEPT !.pc = Follow[job[p].call]])
    /\ dirty' = dirty \cup {Books}
    /\ UNCHANGED <<mark, branch, staged, head, payload, plog, torn>>

(***************************************************************************)
(* The hook of an append (maybe_auto_index_codegraph) indexes the Python   *)
(* files of the closed task's commit.  A strict hook that finds no commit, *)
(* cannot list it or fails at a file fails the append; the line stays.  A  *)
(* closeout appends by the same command and ends with its failure.         *)
(***************************************************************************)
\* latest_commit_for_attempt; the attempt is left out.
CommitIsKnown(t) == "commit_created" \in ts[t].seen

\* changed_paths_for_commit and index_targets_for_codegraph.
HookTargets(t) == IF CommitIsKnown(t) THEN {"git_failed", "no_python", "python"} ELSE {"no_commit"}

HookFails(found, indexed) == found \in {"no_commit", "git_failed"} \/ (found = "python" /\ ~indexed)

Hook(p) ==
    LET passed == IF job[p].call = "closeout" THEN To(p, "next") ELSE Reply(p, "ok") IN
    /\ At(p, "hook")
    /\ \/ passed
       \/ /\ job[p].event = "task_closed"
          /\ \E found \in HookTargets(job[p].task), indexed \in BOOLEAN : HookFails(found, indexed)
          /\ Reply(p, "exit")
    /\ UNCHANGED onlyJob

(***************************************************************************)
(* The handoff round (speckit_codex_handoff_runner): the agent works, then *)
(* everything in the work tree is staged and committed.                    *)
(***************************************************************************)
\* The agent changes files for its task, or nothing.
AgentRound(p) ==
    /\ At(p, "agent")
    /\ \/ /\ SetFiles(p, [job[p] EXCEPT !.pc = "stage", !.alone = TRUE])
          /\ dirty' = dirty \cup {job[p].task}
       \/ /\ To(p, "stage")
          /\ UNCHANGED dirty
    /\ UNCHANGED <<taskVars, mark, branch, staged, head, payload, plog, torn>>

\* The runner fails, times out, or answers no JSON; what the agent did stays.
AgentFails(p) ==
    /\ At(p, "agent")
    /\ \/ Reply(p, "blocked") /\ UNCHANGED dirty
       \/ SetFiles(p, Done("blocked")) /\ dirty' = dirty \cup {job[p].task}
    /\ UNCHANGED <<taskVars, mark, branch, staged, head, payload, plog, torn>>

\* Mutant: only the agent's own files are staged.
Stage_Own(p) ==
    /\ At(p, "stage")
    /\ SetFiles(p, [job[p] EXCEPT !.pc = "commit"])
    /\ staged' = staged \cup (dirty \cap {job[p].task})
    /\ dirty' = dirty \ {job[p].task}
    /\ UNCHANGED <<taskVars, mark, branch, head, payload, plog, torn>>

\* git add -A.
Stage(p) ==
    /\ At(p, "stage")
    /\ SetFiles(p, [job[p] EXCEPT !.pc = "commit"])
    /\ staged' = staged \cup dirty
    /\ dirty' = {}
    /\ UNCHANGED <<taskVars, mark, branch, head, payload, plog, torn>>

Commit(p) ==
    /\ At(p, "commit")
    /\ \/ /\ staged = {}                         \* no_changes_to_commit
          /\ Reply(p, "blocked")
          /\ UNCHANGED <<head, staged>>
       \/ /\ staged # {}
          /\ SetFiles(p, [job[p] EXCEPT !.pc = "sha"])
          /\ head' = staged
          /\ staged' = {}
    /\ UNCHANGED <<taskVars, mark, branch, dirty, payload, plog, torn>>

\* git rev-parse HEAD: the latest commit, whoever made it.
TakeSha(p) ==
    /\ At(p, "sha")
    /\ Set(p, [job[p] EXCEPT !.pc = "payload", !.commit = head])
    /\ UNCHANGED onlyJob

(***************************************************************************)
(* run_offline_qa_handoff.  The payload of a task's attempt is built once: *)
(* from what is uncommitted, else from the latest commit; a retry finds it *)
(* and keeps it.  The verdict is offline_qa's.                             *)
(***************************************************************************)
\* _changed_files_from_head
Changed == IF dirty \cup staged # {} THEN dirty \cup staged ELSE head

Payload(p) ==
    LET t == job[p].task  n == job[p].attempt IN
    /\ At(p, "payload")
    /\ \/ /\ <<t, n>> \in payload
          /\ To(p, "qa")
          /\ UNCHANGED <<payload, dirty>>
       \/ /\ <<t, n>> \notin payload
          /\ payload' = payload \cup {<<t, n>>}
          /\ dirty' = dirty \cup {Books}
          /\ SetFiles(p, [job[p] EXCEPT !.pc = "qa", !.listed = Changed,
                                          !.built = job[p].alone])
    /\ UNCHANGED <<taskVars, mark, branch, staged, head, plog, torn>>

QaPassed(p) ==
    /\ At(p, "qa")
    /\ Set(p, [job[p] EXCEPT !.pc = "closeout", !.verdict = "pass"])
    /\ UNCHANGED onlyJob

\* No result file, or no run id.
QaUnusable(p) ==
    /\ At(p, "qa")
    /\ Reply(p, "blocked")
    /\ UNCHANGED onlyJob

\* Another round of the agent in the same session, as long as rounds are left.
QaFailed(p) ==
    /\ At(p, "qa")
    /\ IF job[p].round < QaRetries - 1
       THEN Set(p, [job[p] EXCEPT !.pc = "agent", !.round = @ + 1, !.commit = {},
                                   !.listed = {}, !.built = FALSE])
       ELSE Reply(p, "blocked")
    /\ UNCHANGED onlyJob

(***************************************************************************)
(* _closeout.  tasks.md and the task's events are read first; what is      *)
(* missing of the canonical events is appended; the ledger is validated;   *)
(* then tasks.md is written, as it was read, with this task ticked.        *)
(***************************************************************************)
Canonical(v, commit) ==
    IF v # "pass" THEN {"offline_qa_started", "offline_qa_failed"}
    ELSE {"tests_passed", "offline_qa_started", "offline_qa_passed", "task_closed"}
         \cup (IF commit = {} THEN {} ELSE {"commit_created"})

\* Mutant: the task is ticked first.
Closeout_TickFirst(p) ==
    /\ At(p, "closeout")
    /\ mark' = mark \cup {job[p].task}
    /\ Set(p, [Idle EXCEPT !.pc = "next", !.call = "closeout", !.actor = Me(p),
                  !.task = job[p].task, !.verdict = job[p].verdict, !.lines = mark,
                  !.todo = Canonical(job[p].verdict, job[p].commit) \ ts[job[p].task].seen])
    /\ UNCHANGED <<taskVars, gitVars, plog, torn>>

Closeout(p) ==
    /\ At(p, "closeout")
    /\ Set(p, [Idle EXCEPT !.pc = "next", !.call = "closeout", !.actor = Me(p),
                  !.task = job[p].task, !.verdict = job[p].verdict, !.lines = mark,
                  !.todo = Canonical(job[p].verdict, job[p].commit) \ ts[job[p].task].seen])
    /\ UNCHANGED onlyJob

\* The ledger does not validate, or QA did not pass: tasks.md stays as it is.
CloseoutRefused(p) ==
    /\ At(p, "stamp") /\ (bad \/ job[p].verdict # "pass")
    /\ Reply(p, IF bad THEN "exit" ELSE "blocked")
    /\ UNCHANGED onlyJob

Stamp(p) ==
    /\ At(p, "stamp") /\ ~bad /\ job[p].verdict = "pass"
    /\ mark' = job[p].lines \cup {job[p].task}
    /\ dirty' = dirty \cup {Books}
    /\ SetFiles(p, IF p \in Shell THEN Done("ok") ELSE [job[p] EXCEPT !.pc = "docs"])
    /\ UNCHANGED <<taskVars, branch, staged, head, payload, plog, torn>>

\* The runbook entry of the task, written unless quickstart.md has it.
UpdateDocs(p) ==
    /\ At(p, "docs")
    /\ dirty' = dirty \cup {Books}
    /\ SetFiles(p, [job[p] EXCEPT !.pc = "gate"])
    /\ UNCHANGED <<taskVars, mark, branch, staged, head, payload, plog, torn>>

\* quickstart.md cannot be read or written: an envelope all the same.
DocsRefused(p) ==
    /\ At(p, "docs")
    /\ Reply(p, "blocked")
    /\ UNCHANGED onlyJob

(***************************************************************************)
(* The task gate: go on while a task of tasks.md is open in the ledger;    *)
(* else implementation_completed goes to the pipeline ledger, unless it is *)
(* there (asked first, appended afterwards).                               *)
(***************************************************************************)
\* Mutant: only the tasks somebody has started count as open.
OpenTasks_Started == { t \in Task : IsOpen(t) }

OpenTasks == { t \in Task : ~IsClosed(t) }

TaskGate(p) ==
    /\ At(p, "gate") /\ ~bad
    /\ IF OpenTasks # {} THEN Set(p, [Idle EXCEPT !.pc = "select", !.actor = Me(p)])
       ELSE To(p, "assert_phase")
    /\ UNCHANGED onlyJob

GateRefused(p) ==
    /\ At(p, "gate") /\ bad
    /\ Reply(p, "blocked")
    /\ UNCHANGED onlyJob

Completed == "implementation_completed"

AssertPhase(p) ==
    /\ At(p, "assert_phase")
    /\ IF Pipeline!PhaseComplete("feature", Completed) THEN Reply(p, "ok")
       ELSE To(p, "emit")
    /\ UNCHANGED onlyJob

EmitRead(p) ==
    /\ At(p, "emit")
    /\ IF Pipeline!Accepts("feature", Completed, TRUE) THEN To(p, "emit_write")
       ELSE Reply(p, "blocked")
    /\ UNCHANGED onlyJob

EmitWrite(p) ==
    /\ At(p, "emit_write")
    /\ Pipeline!WriteEntry("feature", Completed, "implement")
    /\ dirty' = dirty \cup {Books}
    /\ SetFiles(p, Done("ok"))
    /\ UNCHANGED <<taskVars, mark, branch, staged, head, payload>>

(***************************************************************************)
(* A process dies; inside the write of a line it may leave half of it.     *)
(***************************************************************************)
Crash(p) ==
    /\ Busy(p)
    /\ Set(p, Idle)
    /\ \/ UNCHANGED <<taskVars, torn>>
       \/ At(p, "write") /\ TearTaskLine /\ UNCHANGED torn
    /\ UNCHANGED <<mark, gitVars, plog>>

Acknowledge(p) ==
    /\ At(p, "done")
    /\ Set(p, Idle)
    /\ UNCHANGED onlyJob

Init ==
    /\ TaskLedgerInit
    /\ job = [p \in Proc |-> Idle]
    /\ mark = {}
    /\ branch \in {"main", "other"}
    /\ dirty = {} /\ staged = {} /\ head = {}
    /\ payload = {}
    /\ Pipeline!LedgerInit

Call(p) ==
    \/ StepCall(p) \/ StepRefused(p) \/ TriggerRefused(p)
    \/ \E a \in IF p \in Shell /\ At(p, "idle") THEN Actor ELSE {} :
          \/ RegisterCall(p, a)
          \/ \E t \in Task, r \in Request : TriggerCall(p, a, t, r)
          \/ \E t \in Task : \E e \in CliEvent[t] : \E v \in Reported(e) :
                AppendCall(p, a, t, e, v)
          \/ \E t \in Task : \E v \in CliVerdict : \E c \in {{}, {t}} :
                CloseoutCall(p, a, t, v, c)

Step(p) ==
    \/ EnsureBranch(p) \/ SelectTask(p) \/ NothingToPick(p) \/ AssertStart(p) \/ ReadAgain(p)
    \/ TakeAttempt(p) \/ NextEvent(p) \/ Validate(p) \/ Write(p) \/ Hook(p) \/ RegisterNext(p)
    \/ AgentRound(p) \/ AgentFails(p) \/ Stage(p) \/ Commit(p) \/ TakeSha(p)
    \/ Payload(p) \/ QaPassed(p) \/ QaUnusable(p) \/ QaFailed(p)
    \/ Closeout(p) \/ CloseoutRefused(p) \/ Stamp(p) \/ UpdateDocs(p) \/ DocsRefused(p)
    \/ TaskGate(p) \/ GateRefused(p) \/ AssertPhase(p) \/ EmitRead(p) \/ EmitWrite(p)

Next == \E p \in Proc : Call(p) \/ Step(p) \/ Crash(p) \/ Acknowledge(p)

Spec == Init /\ [][Next]_vars
-------------------------------------------------------------------------------
TypeOK ==
    /\ TaskLedgerTypeOK
    /\ mark \subseteq Task
    /\ branch \in {"main", "feature", "other"}
    /\ dirty \subseteq Work /\ staged \subseteq Work /\ head \subseteq Work
    /\ payload \subseteq Task \X (1 .. MaxAttempt)
    /\ \A p \in Proc :
          /\ job[p].actor \in Actor \cup {None} /\ job[p].task \in Task \cup {None}
          /\ job[p].event \in TaskEvent \cup {None}
          /\ job[p].attempt \in 0 .. MaxAttempt /\ job[p].round \in 0 .. QaRetries

(***************************************************************************)
(* The order of tasks.md holds while the ledger is valid, for the tasks     *)
(* that were started through the gate, however their starts cross others:  *)
(* the tasks such a task waits for are closed, and if it is open and has   *)
(* no [P], no other such task is open.  A task_started that is appended    *)
(* from the command line is held to no order, and is excepted.  The code:  *)
(* evaluate_start_task, on a ledger that is read before the start is       *)
(* written; validate_sequence knows no order between tasks.                *)
(***************************************************************************)
OrderIsKept ==
    ~bad => \A t \in Task \ ungated : IsStarted(t) =>
        /\ \A u \in Priors(t) : IsClosed(u)
        /\ IsOpen(t) /\ t \notin Parallel => \A u \in Task \ ({t} \cup ungated) : ~IsOpen(u)

(***************************************************************************)
(* Two workers of different names are never at work on one task, although  *)
(* both may pass the start gate and both may write their start: who writes *)
(* second makes the ledger invalid, and finds that out on reading it again *)
(* before the agent is called.                                             *)
(***************************************************************************)
AtWork(p) == job[p].pc \in {"attempt", "agent", "stage", "commit", "sha", "payload", "qa"}

OneWorkerPerTask ==
    \A p, q \in Worker :
        AtWork(p) /\ AtWork(q) /\ job[p].task = job[q].task /\ Me(p) # Me(q) => FALSE

(***************************************************************************)
(* What tasks.md shows as done is closed in the ledger: closeout ticks a   *)
(* task after its task_closed, and the copy of tasks.md it writes back can *)
(* lose a tick of another worker, never invent one.                        *)
(***************************************************************************)
MarkedIsClosed == \A t \in mark : IsClosed(t)

(***************************************************************************)
(* The pipeline ledger says that the implementation is complete only when  *)
(* the task ledger has every task of tasks.md closed.                      *)
(***************************************************************************)
CompletedIsClosed ==
    (\E i \in 1 .. Len(plog["feature"]) : plog["feature"][i].event = Completed)
    => \A t \in Task : IsClosed(t)

(***************************************************************************)
(* A worker that had the work tree to itself from the agent's round on     *)
(* gives QA a payload that lists what its commit holds, the task's files   *)
(* among them.  The code: git add -A leaves the tree clean, so that the    *)
(* payload builder falls back to the latest commit.                        *)
(***************************************************************************)
PayloadIsCommit ==
    \A p \in Worker : job[p].built =>
        /\ job[p].listed = job[p].commit
        /\ job[p].task \in job[p].commit

(***************************************************************************)
(* A merge of a task of the new protocol was approved on a passing verdict *)
(* over a passing CI run of a commit, while the ledger is valid.           *)
(***************************************************************************)
MergedIsBacked ==
    ~bad => \A t \in V2 : "merged" \in ts[t].seen =>
        /\ ts[t].verdict = "pass" /\ ts[t].ci = "pass"
        /\ {"commit_created", "ci_completed", "merge_approved"} \subseteq ts[t].seen

(***************************************************************************)
(* A task of the new protocol that is closed has met its quality and       *)
(* functional gates, holds evidence, and if it ever failed offline QA, a   *)
(* fix was started before it was closed, by whichever way it got there.    *)
(***************************************************************************)
ClosedIsProven ==
    ~bad => \A t \in V2 : IsClosed(t) =>
        /\ {"quality_guards_passed", "functional_goal_achieved"} \subseteq ts[t].seen
        /\ ts[t].seen \cap Evidence # {}
        /\ "offline_qa_failed" \in ts[t].seen => "fix_started" \in ts[t].seen

(***************************************************************************)
(* implementation_completed is recorded once.                              *)
(***************************************************************************)
CompletedOnce ==
    \A i, j \in 1 .. Len(plog["feature"]) :
        plog["feature"][i].event = Completed /\ plog["feature"][j].event = Completed
        => i = j

(***************************************************************************)
(* Every call of the implement step ends with an envelope, not with the    *)
(* exit of a tool it called (main emits one JSON envelope).                *)
(***************************************************************************)
EnvelopeAlways == \A p \in Worker : job[p].reply # "exit"
=============================================================================
