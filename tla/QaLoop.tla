------------------------------- MODULE QaLoop -------------------------------
(***************************************************************************)
(* The QA loop of one task (src/src/clickup_control_plane/qa_loop.py,      *)
(* policy.py and _handle_qa_workflow_result of service.py): QA passes or   *)
(* fails, a failure sends the task back to build, and too many failures in *)
(* a row stop it until a human unblocks it.                                *)
(*                                                                         *)
(* The control plane keeps no streak.  It reads the streak, and whether    *)
(* the task is blocked or was unblocked, from the metadata in the webhook  *)
(* body, which is the card as it was when it was moved.  Nothing under     *)
(* src/ writes that metadata: CardKept says whether the surroundings do.   *)
(***************************************************************************)
EXTENDS Naturals, FiniteSets

CONSTANTS
    MaxFailures,  \* CONTROL_PLANE_QA_MAX_FAILURES
    CardKept,     \* whether verdicts are copied to the card before it moves on
    Queue,        \* bound on webhooks and runs under way
    MaxFailed,    \* bound on failures in a row
    NoBody

ASSUME MaxFailuresType == MaxFailures \in Nat \ {0}  \* resolve_qa_loop_config
ASSUME SurroundingsType ==
    /\ CardKept \in BOOLEAN
    /\ Queue \in Nat /\ MaxFailed \in Nat

QaCard == [streak : Nat, blocked : BOOLEAN, unblock : BOOLEAN, criteria : BOOLEAN]
QaTransition == {"advance", "rework", "blocked_human_required"}
QaVerdict == [transition : QaTransition, streak : Nat]

ASSUME NoBodyIsNone == NoBody \notin QaCard /\ NoBody \notin QaVerdict

VARIABLES
    qaCard,     \* qa_consecutive_failures, qa_state, manual_unblock, acceptance_criteria
    qaInbox,    \* webhook bodies on their way
    qaRun,      \* the body the QA run in progress was dispatched for, or NoBody
    qaVerdict,  \* the last transition, while nobody copied it to the card
    qaFailed,   \* history: failures since the last pass or human unblock
    qaStopped,  \* history: escalated, and no human unblocked the task since
    qaOutdated  \* history: whether a run was dispatched for an outdated body

qaVars == <<qaCard, qaInbox, qaRun, qaVerdict, qaFailed, qaStopped, qaOutdated>>

QaInit ==
    /\ qaCard = [streak |-> 0, blocked |-> FALSE, unblock |-> FALSE, criteria |-> TRUE]
    /\ qaInbox = {}
    /\ qaRun = NoBody
    /\ qaVerdict = NoBody
    /\ qaFailed = 0
    /\ qaStopped = FALSE
    /\ qaOutdated = FALSE

-----------------------------------------------------------------------------
evaluate_qa_dispatch_gate(body) ==
    IF body.blocked THEN "qa_unblock_required"
    ELSE IF ~body.criteria THEN "missing_criteria"
    ELSE "dispatch"

current_failures(body) == IF body.unblock THEN 0 ELSE body.streak

\* Mutant: one failure too many.
evaluate_qa_attempt_OffByOne(result, streak) ==
    IF result = "pass" THEN [transition |-> "advance", streak |-> 0]
    ELSE [transition |-> IF streak + 1 > MaxFailures THEN "blocked_human_required"
                         ELSE "rework",
          streak |-> streak + 1]

\* The other two results of the code's Literal never reach it: the result
\* schema knows pass and fail.
evaluate_qa_attempt(result, streak) ==
    IF result = "pass" THEN [transition |-> "advance", streak |-> 0]
    ELSE [transition |-> IF streak + 1 >= MaxFailures THEN "blocked_human_required"
                         ELSE "rework",
          streak |-> streak + 1]

-----------------------------------------------------------------------------
UnderWay == Cardinality(qaInbox) + IF qaRun = NoBody THEN 0 ELSE 1

\* The card enters the QA trigger status, by hand or after a build.
MoveToQa ==
    /\ UnderWay < Queue
    /\ CardKept => qaVerdict = NoBody
    /\ qaFailed < MaxFailed
    /\ qaInbox' = qaInbox \cup {qaCard}
    /\ UNCHANGED <<qaCard, qaRun, qaVerdict, qaFailed, qaStopped, qaOutdated>>

\* A body that does not tell what the card tells now, or will once the last verdict is
\* copied to it: it was sent before that verdict.
Outdated(body) ==
    qaVerdict # NoBody \/ body.streak # qaCard.streak \/ body.unblock # qaCard.unblock

\* process_event: the run lock, then the QA gate, then the dispatch.
HandleWebhook ==
    \E body \in qaInbox :
        /\ qaInbox' = qaInbox \ {body}
        /\ IF qaRun = NoBody /\ evaluate_qa_dispatch_gate(body) = "dispatch"
           THEN qaRun' = body /\ qaOutdated' = (qaOutdated \/ Outdated(body))
           ELSE UNCHANGED <<qaRun, qaOutdated>>
        /\ UNCHANGED <<qaCard, qaVerdict, qaFailed, qaStopped>>

\* _handle_qa_workflow_result: the task moves to Done, Build or Blocked, and
\* transition.consecutive_failures is dropped.
HandleResult ==
    /\ qaRun # NoBody
    /\ \E result \in {"pass", "fail"} :
         LET v == evaluate_qa_attempt(result, current_failures(qaRun)) IN
         /\ qaVerdict' = v
         /\ qaFailed' = IF result = "pass" THEN 0 ELSE qaFailed + 1
         /\ qaStopped' = (qaStopped \/ v.transition = "blocked_human_required")
    /\ qaRun' = NoBody
    /\ UNCHANGED <<qaCard, qaInbox, qaOutdated>>

\* A dispatch that failed or a result the schema refuses: the lock is free.
HandleNoResult ==
    /\ qaRun # NoBody
    /\ qaRun' = NoBody
    /\ UNCHANGED <<qaCard, qaInbox, qaVerdict, qaFailed, qaStopped, qaOutdated>>

-----------------------------------------------------------------------------
(* The surroundings *)

CopyVerdict ==
    /\ CardKept
    /\ qaVerdict # NoBody
    /\ qaCard' = [qaCard EXCEPT !.streak = qaVerdict.streak,
                            !.blocked = (qaVerdict.transition = "blocked_human_required"),
                            !.unblock = FALSE]
    /\ qaVerdict' = NoBody
    /\ UNCHANGED <<qaInbox, qaRun, qaFailed, qaStopped, qaOutdated>>

HumanUnblocks ==
    /\ qaStopped
    /\ CardKept => qaVerdict = NoBody
    /\ qaCard' = [qaCard EXCEPT !.blocked = FALSE, !.unblock = TRUE]
    /\ qaFailed' = 0
    /\ qaStopped' = FALSE
    /\ UNCHANGED <<qaInbox, qaRun, qaVerdict, qaOutdated>>

EditCriteria ==
    /\ qaCard' = [qaCard EXCEPT !.criteria = ~@]
    /\ UNCHANGED <<qaInbox, qaRun, qaVerdict, qaFailed, qaStopped, qaOutdated>>

QaNext ==
    \/ MoveToQa \/ HandleWebhook \/ HandleResult \/ HandleNoResult
    \/ CopyVerdict \/ HumanUnblocks \/ EditCriteria

QaSpec == QaInit /\ [][QaNext]_qaVars

-----------------------------------------------------------------------------
\* The task stops at MaxFailures failures in a row, counted since the last
\* pass or unblock, and at no fewer: evaluate_qa_attempt with the streak and
\* the unblock signal of the webhook body.
EscalatesAtThreshold == qaStopped <=> qaFailed >= MaxFailures

\* However many webhooks are on their way or queue behind the run lock: that threshold
\* is exact until a run is dispatched for a body that a verdict has outdated (the
\* snapshot of service.py that _handle_qa_workflow_result counts from).
CurrentBodiesEscalate == qaOutdated \/ EscalatesAtThreshold

=============================================================================
