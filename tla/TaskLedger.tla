------------------------------ MODULE TaskLedger ------------------------------
(***************************************************************************)
(* The task ledger, .speckit/task-ledger.jsonl (scripts/task_ledger.py):   *)
(* an append-only file of events about the tasks of a feature.  Every      *)
(* reader replays it (validate_sequence); the module keeps what the replay *)
(* leaves: per task the events seen, the last one, the owner and the last  *)
(* verdicts, per actor the task it has open, and whether some line was     *)
(* refused, which makes the file useless to everyone.  Appending is read,  *)
(* validate, write, without a lock; the callers' module interleaves it.    *)
(***************************************************************************)
EXTENDS Naturals, Sequences, FiniteSets

CONSTANTS
    Task,          \* the tasks of tasks.md,
    Order,         \* in the order of the file,
    Parallel,      \* those with a [P] flag,
    V2,            \* and those numbered T050 and up
    Enrolled,      \* those registered before the run
    Actor,         \* who appends
    None           \* nothing: no event, no owner, no verdict

ASSUME TaskAssumption ==
    /\ IsFiniteSet(Task) /\ Order \in [1 .. Cardinality(Task) -> Task]
    /\ \A t \in Task : \E i \in DOMAIN Order : Order[i] = t
    /\ Parallel \subseteq Task /\ V2 \subseteq Task /\ Enrolled \subseteq Task
    /\ None \notin Task \cup Actor

VARIABLES
    ts,            \* ts[t]: the TaskState of t
    active,        \* active[a]: the task actor a has open
    bad,           \* some line fails its own validation, or is not JSON
    attempt,       \* attempt[t]: the latest attempt number of t
    ungated        \* the tasks whose start was appended as it was, past the start
                   \* gate; not in the file

taskVars == <<ts, active, bad, attempt, ungated>>

\* ALLOWED_TRANSITIONS: the events each event may follow.
Predecessors == [
    task_registered |-> {None},
    task_started |-> {None, "task_registered"},
    discovery_completed |-> {"task_started", "discovery_completed"},
    lld_recorded |-> {"discovery_completed"},
    quality_guards_passed |->
        {"discovery_completed", "lld_recorded", "human_action_verified"},
    functional_goal_achieved |->
        {"discovery_completed", "lld_recorded", "quality_guards_passed",
         "human_action_verified"},
    tests_failed |->
        {"task_started", "discovery_completed", "lld_recorded", "quality_guards_passed",
         "functional_goal_achieved", "tests_failed", "fix_started", "fix_completed"},
    tests_passed |->
        {"discovery_completed", "lld_recorded", "quality_guards_passed",
         "functional_goal_achieved", "tests_failed", "fix_completed"},
    story_red_committed |-> {"task_started", "discovery_completed", "lld_recorded"},
    story_green_passed |-> {"story_red_committed", "tests_passed"},
    human_action_started |-> {"task_started"},
    human_action_verified |-> {"human_action_started"},
    checkpoint_passed |-> {"tests_passed", "offline_qa_passed"},
    e2e_passed |-> {"tests_passed", "offline_qa_passed"},
    offline_qa_started |-> {"tests_passed", "fix_completed", "commit_created"},
    offline_qa_passed |-> {"offline_qa_started"},
    offline_qa_failed |-> {"offline_qa_started"},
    commit_created |->
        {"tests_passed", "offline_qa_started", "offline_qa_passed", "fix_completed"},
    pr_opened |-> {"commit_created", "pr_opened"},
    ci_completed |-> {"commit_created", "pr_opened"},
    qa_verdict |-> {"ci_completed"},
    fix_started |-> {"qa_verdict", "offline_qa_failed"},
    fix_completed |-> {"fix_started"},
    merge_approved |-> {"qa_verdict"},
    merged |-> {"merge_approved"},
    task_closed |->
        {"offline_qa_passed", "merged", "human_action_verified", "e2e_passed",
         "functional_goal_achieved"} ]

TaskEvent == DOMAIN Predecessors
Verdict == {"pass", "fail"}

ASSUME NoneAssumption == None \notin TaskEvent \cup Verdict

NewTask == [seen |-> {}, last |-> None, owner |-> None, ci |-> None, verdict |-> None]

IsRegistered(t) == "task_registered" \in ts[t].seen
IsStarted(t) == "task_started" \in ts[t].seen
IsClosed(t) == "task_closed" \in ts[t].seen
IsOpen(t) == IsStarted(t) /\ ~IsClosed(t)

TaskLedgerInit ==
    /\ ts = [t \in Task |-> IF t \in Enrolled
               THEN [NewTask EXCEPT !.seen = {"task_registered"}, !.last = "task_registered"]
               ELSE NewTask]
    /\ active = [a \in Actor |-> None]
    /\ bad = FALSE
    /\ attempt = [t \in Task |-> 1]
    /\ ungated = {}

(***************************************************************************)
(* validate_sequence, the next line: what it has against event e of task t *)
(* by actor a.  The order of events binds only tasks from T050 on.         *)
(***************************************************************************)
Evidence == {"merged", "offline_qa_passed", "human_action_verified", "e2e_passed"}

OutOfOrder(t, e, a) ==
    CASE e = "task_started" -> active[a] \notin {None, t} \/ IsStarted(t)
      [] e = "task_registered" -> IsStarted(t)
      [] OTHER -> ~IsStarted(t) \/ IsClosed(t)

\* Mutant: a merge may be approved whatever the verdict was.
Unearned_AnyVerdict(t, e) ==
    \/ e = "fix_started" /\ ts[t].verdict # "fail" /\ ts[t].last # "offline_qa_failed"
    \/ e = "qa_verdict" /\ ts[t].ci # "pass"
    \/ e = "task_closed" /\ (ts[t].seen \cap Evidence = {})
    \/ e = "task_closed" /\ t \in V2
       /\ ~({"quality_guards_passed", "functional_goal_achieved"} \subseteq ts[t].seen)

\* Mutant: the exemption of the old tasks is extended to all.
Unearned_AllExempt(t, e) ==
    \/ e = "fix_started" /\ ts[t].verdict # "fail" /\ ts[t].last # "offline_qa_failed"
    \/ e = "merge_approved" /\ ts[t].verdict # "pass"
    \/ e = "qa_verdict" /\ ts[t].ci # "pass"
    \/ e = "task_closed" /\ (ts[t].seen \cap Evidence = {})

Unearned(t, e) ==
    \/ e = "fix_started" /\ ts[t].verdict # "fail" /\ ts[t].last # "offline_qa_failed"
    \/ e = "merge_approved" /\ ts[t].verdict # "pass"
    \/ e = "qa_verdict" /\ ts[t].ci # "pass"
    \/ e = "task_closed" /\ (ts[t].seen \cap Evidence = {})
    \/ e = "task_closed" /\ t \in V2
       /\ ~({"quality_guards_passed", "functional_goal_achieved"} \subseteq ts[t].seen)

Refused(t, e, a) ==
    \/ OutOfOrder(t, e, a)
    \/ t \in V2 /\ ts[t].last \notin Predecessors[e]
    \/ Unearned(t, e)

\* append_event_record up to the write.
MayAppend(t, e, a) == ~bad /\ ~Refused(t, e, a)

(***************************************************************************)
(* The write: the line lands behind whatever is there now, and every later *)
(* replay takes it in, errors or not.  "v" is the verdict of a qa_verdict, *)
(* the status of a ci_completed; "n" the attempt its writer took it for.   *)
(***************************************************************************)
Replayed(t, e, a, v) ==
    [ts EXCEPT ![t].seen = @ \cup {e},
               ![t].last = e,
               ![t].owner = IF e = "task_started" THEN a ELSE @,
               ![t].ci = IF e = "ci_completed" THEN v ELSE @,
               ![t].verdict = IF e = "qa_verdict" THEN v ELSE @]

\* Closing frees the owner's slot, or else the slot of who closed.
Slots(t, e, a) ==
    CASE e = "task_started" -> [active EXCEPT ![a] = t]
      [] e = "task_closed" ->
            LET owner == ts[t].owner
                freed == IF owner # None /\ active[owner] = t THEN owner ELSE a IN
            [active EXCEPT ![freed] = IF @ = t THEN None ELSE @]
      [] OTHER -> active

AppendLine(t, e, a, v, n) ==
    /\ ts' = Replayed(t, e, a, v)
    /\ active' = Slots(t, e, a)
    /\ bad' = (bad \/ Refused(t, e, a))
    /\ attempt' = [attempt EXCEPT ![t] = IF n > @ THEN n ELSE @]

\* The writer dies inside the write.
TearTaskLine == bad' = TRUE /\ UNCHANGED <<ts, active, attempt, ungated>>

(***************************************************************************)
(* evaluate_start_task: what keeps actor a from starting task t.           *)
(***************************************************************************)
Position(t) == CHOOSE i \in DOMAIN Order : Order[i] = t
Before(t) == { Order[i] : i \in 1 .. Position(t) - 1 }

\* Mutant: a parallel task waits for nobody.
Priors_Free(t) == IF t \in Parallel THEN {} ELSE Before(t)

\* The tasks that must be closed before t starts: a parallel task waits for
\* the others that are not parallel.
Priors(t) == IF t \in Parallel THEN Before(t) \ Parallel ELSE Before(t)

MayStart(t, a) ==
    /\ active[a] \in {None, t}
    /\ ~IsStarted(t) /\ ~IsClosed(t)
    /\ \A u \in Priors(t) : IsClosed(u)
    /\ t \notin Parallel => \A u \in Task \ {t} : ~IsOpen(u)

TaskLedgerTypeOK ==
    /\ ts \in [Task -> [seen : SUBSET TaskEvent, last : TaskEvent \cup {None},
                        owner : Actor \cup {None}, ci : Verdict \cup {None},
                        verdict : Verdict \cup {None}]]
    /\ active \in [Actor -> Task \cup {None}]
    /\ bad \in BOOLEAN
    /\ attempt \in [Task -> Nat]
    /\ ungated \subseteq Task
=============================================================================
