-------------------------- MODULE ImplementProofs --------------------------
(***************************************************************************)
(* Proofs about the implement step and the task ledger (Implement and      *)
(* TaskLedger): any number of workers and shells, any tasks, any actors,   *)
(* crashes at every step.  Every action is first shown to be a StepOf(p):  *)
(* it moves the job of p by one of fifteen kinds of move, or writes one    *)
(* line of the ledger, and leaves the other jobs alone but for "alone".    *)
(* The parts of the invariant are then preserved by the kinds of move.     *)
(***************************************************************************)
EXTENDS Implement, TLAPS, FiniteSetTheorems

PC == {"idle", "done", "branch", "select", "assert", "validate", "write", "reread",
       "register", "hook", "next", "attempt", "agent", "stage", "commit", "sha",
       "payload", "qa", "closeout", "stamp", "docs", "gate", "assert_phase", "emit",
       "emit_write"}
Tool == {"start", "register", "append", "closeout"}
Calls == Tool \cup {"none"}

Job == [pc : PC, call : Calls, actor : Actor \cup {None},
        task : Task \cup {None}, attempt : 0 .. MaxAttempt, round : 0 .. QaRetries,
        todo : SUBSET (Task \cup TaskEvent), event : TaskEvent \cup {None},
        verdict : Verdict \cup {None}, lines : SUBSET Task, commit : SUBSET Work,
        listed : SUBSET Work, alone : BOOLEAN, built : BOOLEAN,
        reply : {"ok", "blocked", "exit"} \cup {None}]

TaskState == [seen : SUBSET TaskEvent, last : TaskEvent \cup {None},
              owner : Actor \cup {None}, ci : Verdict \cup {None},
              verdict : Verdict \cup {None}]

\* An entry of the pipeline ledger, of the events and phases that occur here.
Line == [event : {"backlog_registered", "plan_approved", "solution_approved",
                  "analysis_completed", "implementation_completed"},
         phase : {"specify", "plan", "solution", "implement"} \cup {None}]

HasTask == {"assert", "validate", "write", "reread", "attempt", "agent", "stage", "commit",
            "sha", "payload", "qa", "closeout", "hook", "next", "stamp"}

Handling == {"agent", "stage", "commit", "sha", "payload", "qa"}

\* What a tool appends, and what it keeps for later.
CallShape(r) ==
    /\ r.call = "start" => r.event = "task_started"
    /\ r.call = "register" => r.event = "task_registered" /\ r.todo \subseteq Task
    /\ r.call = "append" => r.event \in TaskEvent
    /\ r.call = "closeout" =>
         /\ r.todo \subseteq TaskEvent \ {"task_started", "task_registered"}
         /\ r.event # "task_started"

JobShape(r) ==
    /\ r.pc \notin {"idle", "done"} => r.actor \in Actor
    /\ r.pc \in HasTask => r.task \in Task
    /\ r.pc \in Handling => r.attempt \in 1 .. MaxAttempt
    /\ r.pc \in {"validate", "write"} => r.call \in Tool /\ r.event \in TaskEvent
    /\ r.pc = "register" => r.call = "register"
    /\ r.pc = "hook" => r.call \in {"append", "closeout"}
    /\ r.pc \in {"next", "stamp"} => r.call = "closeout"
    /\ CallShape(r)

ImplementTypeOK ==
    /\ ts \in [Task -> TaskState]
    /\ active \in [Actor -> Task \cup {None}]
    /\ bad \in BOOLEAN
    /\ attempt \in [Task -> 1 .. MaxAttempt]
    /\ ungated \subseteq Task
    /\ job \in [Proc -> Job]
    /\ \A p \in Proc : JobShape(job[p])
    /\ mark \subseteq Task
    /\ branch \in {"main", "feature", "other"}
    /\ dirty \subseteq Work /\ staged \subseteq Work /\ head \subseteq Work
    /\ payload \subseteq Task \X (1 .. MaxAttempt)
    /\ plog \in [{"feature"} -> Seq(Line)]
-------------------------------------------------------------------------------
Keep(j, n) ==
    /\ n.call = j.call /\ n.actor = j.actor /\ n.task = j.task /\ n.attempt = j.attempt
    /\ n.round = j.round /\ n.todo = j.todo /\ n.event = j.event /\ n.verdict = j.verdict
    /\ n.lines = j.lines /\ n.commit = j.commit /\ n.listed = j.listed /\ n.built = j.built

files == <<dirty, staged, head>>

Frame(p) ==
    \A q \in Proc \ {p} :
        /\ job'[q].pc = job[q].pc /\ Keep(job[q], job'[q])
        /\ job'[q].alone => job[q].alone /\ UNCHANGED files

LEMMA SetFacts ==
    ASSUME job \in [Proc -> Job], NEW p \in Proc, NEW r \in Job, Set(p, r),
           UNCHANGED files
    PROVE  job' \in [Proc -> Job] /\ job'[p] = r /\ Frame(p)
BY DEF Set, Frame, Keep

LEMMA SetFilesFacts ==
    ASSUME job \in [Proc -> Job], NEW p \in Proc, NEW r \in Job, SetFiles(p, r)
    PROVE  job' \in [Proc -> Job] /\ job'[p] = r /\ Frame(p)
<1>1. ASSUME NEW q \in Proc
      PROVE  LET s == [job[q] EXCEPT !.alone = FALSE] IN
             /\ s \in Job /\ s.pc = job[q].pc /\ Keep(job[q], s) /\ ~s.alone
  <2> DEFINE r0 == job[q]
             s0 == [r0 EXCEPT !.alone = FALSE]
  <2>1. r0 \in Job
    OBVIOUS
  <2> HIDE DEF r0
  <2>2. s0 \in Job
    BY <2>1 DEF Job
  <2>3. s0.pc = r0.pc /\ ~s0.alone
    BY <2>1 DEF Job
  <2>4. Keep(r0, s0)
    BY <2>1 DEF Job, Keep
  <2> QED
    BY <2>2, <2>3, <2>4 DEF r0
<1>2. \A q \in Proc : job'[q] = IF q = p THEN r ELSE [job[q] EXCEPT !.alone = FALSE]
  BY DEF SetFiles
<1>3. job' \in [Proc -> Job]
  BY <1>1 DEF SetFiles
<1> QED
  BY <1>1, <1>2, <1>3 DEF Frame
-------------------------------------------------------------------------------
\* A new job: no copy of tasks.md, no work of the agent behind it.
Fresh(n) == n.lines = {} /\ ~n.alone /\ ~n.built /\ n.round = 0

\* The same task, with what the earlier steps left.
SameTask(j, n) ==
    /\ n.task = j.task /\ n.actor = j.actor /\ n.lines = j.lines /\ n.alone = j.alone

Rests(j, n) == n.pc \in {"idle", "done"} /\ Fresh(n)

Begins(j, n) ==
    /\ Fresh(n)
    /\ \/ n.pc \in {"branch", "select", "assert", "closeout"}
       \/ n.pc = "write" /\ n.call = "append"
       \/ n.pc = "validate" /\ n.call = "register"

Selects(j, n) ==
    /\ j.pc = "select" /\ ~bad
    /\ n.round = 0 /\ n.lines = j.lines /\ n.alone = j.alone /\ n.built = j.built
    /\ \/ n.pc = "assert"
       \/ n.pc = "attempt" /\ IsStarted(n.task) /\ ts[n.task].owner = n.actor

\* A step that only moves on.
Walks(j, n) ==
    /\ Keep(j, n) /\ n.alone = j.alone
    /\ \/ j.pc = "branch" /\ n.pc = "select"
       \/ j.pc = "reread" /\ n.pc = "attempt" /\ ~bad
       \/ j.pc = "hook" /\ n.pc = "next" /\ j.call = "closeout"
       \/ j.pc = "next" /\ n.pc = "stamp" /\ j.todo = {}
       \/ j.pc = "validate" /\ n.pc = "write"
       \/ j.pc = "stamp" /\ n.pc = "docs"
       \/ j.pc = "docs" /\ n.pc = "gate"
       \/ j.pc = "gate" /\ n.pc = "assert_phase" /\ \A t \in Task : IsClosed(t)
       \/ j.pc = "assert_phase" /\ n.pc = "emit"
       \/ j.pc = "emit" /\ n.pc = "emit_write"

Starts(j, n) ==
    /\ j.pc = "assert" /\ n.pc = "validate" /\ n.call = "start"
    /\ SameTask(j, n) /\ n.round = j.round /\ n.built = j.built
    /\ \A u \in Priors(n.task) : IsClosed(u)

Attempts(j, n) ==
    /\ j.pc = "attempt" /\ n.pc = "agent"
    /\ SameTask(j, n) /\ n.round = j.round /\ n.built = j.built

Takes(j, n) ==
    /\ j.pc = "next" /\ n.pc = "validate"
    /\ SameTask(j, n) /\ n.round = j.round /\ n.built = j.built
    /\ n.call = j.call /\ n.verdict = j.verdict
    /\ n.event \in j.todo /\ n.todo = j.todo \ {n.event}

Works(j, n) ==
    /\ j.pc = "agent" /\ n.pc = "stage" /\ Keep(j, n)
    /\ \/ n.alone = j.alone /\ UNCHANGED files
       \/ j.task \in dirty'

Stages(j, n) ==
    /\ j.pc = "stage" /\ n.pc = "commit" /\ Keep(j, n) /\ n.alone = j.alone
    /\ dirty' = {} /\ staged' = staged \cup dirty

Commits(j, n) ==
    /\ j.pc = "commit" /\ n.pc = "sha" /\ Keep(j, n) /\ n.alone = j.alone
    /\ head' = staged /\ staged' = {} /\ UNCHANGED dirty

Shas(j, n) ==
    /\ j.pc = "sha" /\ n.pc = "payload"
    /\ SameTask(j, n) /\ n.round = j.round /\ n.built = j.built /\ n.attempt = j.attempt
    /\ n.commit = head /\ UNCHANGED files

Pays(j, n) ==
    /\ j.pc = "payload" /\ n.pc = "qa"
    /\ SameTask(j, n) /\ n.round = j.round /\ n.attempt = j.attempt /\ n.commit = j.commit
    /\ <<j.task, j.attempt>> \in payload'
    /\ \/ n.built = j.built /\ n.listed = j.listed
       \/ n.built = j.alone /\ n.listed = Changed /\ <<j.task, j.attempt>> \notin payload

Passes(j, n) ==
    /\ j.pc = "qa" /\ n.pc = "closeout"
    /\ SameTask(j, n) /\ n.commit = j.commit /\ n.listed = j.listed /\ n.built = j.built

Retries(j, n) ==
    /\ j.pc = "qa" /\ n.pc = "agent"
    /\ SameTask(j, n) /\ n.attempt = j.attempt /\ n.round = j.round + 1 /\ ~n.built

Closes(j, n) ==
    /\ j.pc = "closeout" /\ n.pc = "next" /\ n.call = "closeout"
    /\ n.round = 0 /\ ~n.alone /\ ~n.built
    /\ n.task = j.task /\ n.lines = mark
    /\ n.verdict = "pass" => "task_closed" \in n.todo \cup ts[n.task].seen

Writes(p) ==
    LET j == job[p]  n == job'[p] IN
    /\ j.pc = "write" /\ n.pc = Follow[j.call] /\ Keep(j, n) /\ n.alone = j.alone
    /\ AppendLine(j.task, j.event, j.actor, j.verdict, j.attempt)
    /\ ungated' = IF j.call = "append" /\ j.event = "task_started"
                  THEN ungated \cup {j.task} ELSE ungated

Moves(j, n) ==
    \/ Rests(j, n) \/ Begins(j, n) \/ Selects(j, n) \/ Walks(j, n) \/ Starts(j, n)
    \/ Attempts(j, n) \/ Takes(j, n) \/ Works(j, n) \/ Stages(j, n) \/ Commits(j, n)
    \/ Shas(j, n) \/ Pays(j, n) \/ Passes(j, n) \/ Retries(j, n) \/ Closes(j, n)

\* What a step may do to tasks.md, to the pipeline ledger and to the payloads.
Marks(p) ==
    \/ mark' = mark
    \/ /\ job[p].pc = "stamp" /\ job[p].verdict = "pass"
       /\ mark' = job[p].lines \cup {job[p].task}

Records(p) ==
    \/ plog' = plog
    \/ /\ job[p].pc = "emit_write"
       /\ plog' = [plog EXCEPT !["feature"] =
                     Append(@, [event |-> Completed, phase |-> "implement"])]

FilesTyped ==
    /\ branch \in {"main", "feature", "other"}
    /\ dirty \subseteq Work /\ staged \subseteq Work /\ head \subseteq Work
    /\ payload \subseteq Task \X (1 .. MaxAttempt)

StepOf(p) ==
    /\ job' \in [Proc -> Job] /\ JobShape(job'[p]) /\ Frame(p)
    /\ FilesTyped' /\ payload \subseteq payload'
    /\ Marks(p) /\ Records(p)
    /\ \/ Writes(p)
       \/ /\ UNCHANGED <<ts, active, attempt, ungated>> /\ bad' \in BOOLEAN /\ (bad => bad')
          /\ Moves(job[p], job'[p])

USE TaskAssumption, NoneAssumption, ProcAssumption

LEMMA IdleIsJob == Idle \in Job
BY DEF Idle, Job, PC, Calls

LEMMA DoneIsJob ==
    ASSUME NEW r \in {"ok", "blocked", "exit"}
    PROVE  Done(r) \in Job /\ JobShape(Done(r)) /\ \A j : Rests(j, Done(r))
<1>1. Done(r) \in Job
  BY IdleIsJob DEF Done, Job, PC, Calls
<1>2. Done(r).pc = "done" /\ Done(r).call = "none" /\ Done(r).lines = {}
      /\ ~Done(r).alone /\ ~Done(r).built /\ Done(r).round = 0
  BY DEF Done, Idle
<1> HIDE DEF Done
<1> QED
  BY <1>1, <1>2 DEF JobShape, CallShape, HasTask, Handling, Rests, Fresh

\* Every answer of a tool.
LEMMA ReplySteps ==
    ASSUME ImplementTypeOK, NEW p \in Proc, NEW r \in {"ok", "blocked", "exit"},
           Reply(p, r), UNCHANGED onlyJob
    PROVE  StepOf(p)
<1>1. Set(p, Done(r)) /\ UNCHANGED files
  BY DEF Reply, onlyJob, gitVars, files
<1>2. job' \in [Proc -> Job] /\ job'[p] = Done(r) /\ Frame(p)
  BY <1>1, DoneIsJob, SetFacts DEF ImplementTypeOK
<1>3. JobShape(job'[p]) /\ Moves(job[p], job'[p])
  BY <1>2, DoneIsJob DEF Rests, Moves
<1> QED
  BY <1>2, <1>3 DEF StepOf, onlyJob, taskVars, gitVars, FilesTyped, Marks, Records,
     ImplementTypeOK

\* A step that leaves the files alone and gives p the job n.
LEMMA QuietSteps ==
    ASSUME ImplementTypeOK, NEW p \in Proc, NEW n \in Job, Set(p, n), UNCHANGED onlyJob,
           JobShape(n), Moves(job[p], n)
    PROVE  StepOf(p)
<1>1. UNCHANGED files
  BY DEF onlyJob, gitVars, files
<1>2. job' \in [Proc -> Job] /\ job'[p] = n /\ Frame(p)
  BY <1>1, SetFacts DEF ImplementTypeOK
<1> QED
  BY <1>2 DEF StepOf, onlyJob, taskVars, gitVars, FilesTyped, Marks, Records, ImplementTypeOK

\* A step that only moves on.
LEMMA MovedJob ==
    ASSUME NEW r \in Job, NEW pc \in PC
    PROVE  LET n == [r EXCEPT !.pc = pc] IN
           n \in Job /\ n.pc = pc /\ Keep(r, n) /\ n.alone = r.alone
<1> DEFINE n == [r EXCEPT !.pc = pc]
<1>1. n \in Job /\ n.pc = pc /\ n.alone = r.alone
  BY DEF Job
<1>2. Keep(r, n)
  BY DEF Job, Keep
<1> QED
  BY <1>1, <1>2

LEMMA CallSteps ==
    ASSUME ImplementTypeOK, NEW p \in Proc
    PROVE  /\ StepCall(p) => StepOf(p)
           /\ StepRefused(p) => StepOf(p)
<1>1. ASSUME StepCall(p) PROVE StepOf(p)
  <2> DEFINE n == [Idle EXCEPT !.pc = "branch", !.actor = ActorOf[p]]
  <2>1. p \in Worker /\ Set(p, n) /\ UNCHANGED onlyJob
    BY <1>1 DEF StepCall
  <2>2. n \in Job
    BY <2>1, IdleIsJob DEF Job, PC
  <2>3. n.pc = "branch" /\ n.actor \in Actor /\ n.call = "none" /\ Fresh(n)
    BY <2>1 DEF Idle, Fresh
  <2> HIDE DEF n
  <2>4. JobShape(n) /\ Moves(job[p], n)
    BY <2>3 DEF JobShape, CallShape, HasTask, Handling, Begins, Moves
  <2> QED
    BY <2>1, <2>2, <2>4, QuietSteps
<1>2. ASSUME StepRefused(p) PROVE StepOf(p)
  BY <1>2, ReplySteps DEF StepRefused
<1> QED
  BY <1>1, <1>2

LEMMA CloseoutCallSteps ==
    ASSUME ImplementTypeOK, NEW p \in Proc, NEW a \in Actor, NEW t \in Task,
           NEW v \in CliVerdict, NEW c \in SUBSET Task, CloseoutCall(p, a, t, v, c)
    PROVE  StepOf(p)
<1> DEFINE n == [Idle EXCEPT !.pc = "closeout", !.actor = a, !.task = t, !.verdict = v,
                             !.commit = c]
<1>1. Set(p, n) /\ UNCHANGED onlyJob
  BY DEF CloseoutCall
<1>2. n \in Job
  <2>1. v \in Verdict \cup {None} /\ c \in SUBSET Work
    BY DEF Work
  <2> QED
    BY <2>1, IdleIsJob DEF Job, PC
<1>3. n.pc = "closeout" /\ n.actor = a /\ n.task = t /\ n.call = "none" /\ Fresh(n)
  BY DEF Idle, Fresh
<1> HIDE DEF n
<1>4. JobShape(n) /\ Moves(job[p], n)
  BY <1>3 DEF JobShape, CallShape, HasTask, Handling, Begins, Moves
<1> QED
  BY <1>1, <1>2, <1>4, QuietSteps

LEMMA RegisterSteps ==
    ASSUME ImplementTypeOK, NEW p \in Proc, NEW a \in Actor, NEW tasks \in SUBSET Task,
           Register(p, a, tasks), UNCHANGED onlyJob
    PROVE  StepOf(p)
<1> DEFINE left == { t \in tasks : ~IsStarted(t) }
           n(t) == [Idle EXCEPT !.pc = "validate", !.call = "register", !.actor = a,
                       !.task = t, !.event = "task_registered", !.todo = left \ {t}]
<1>1. CASE Reply(p, "exit") \/ Reply(p, "ok")
  BY <1>1, ReplySteps
<1>2. ASSUME NEW t \in left, Set(p, n(t)) PROVE StepOf(p)
  <2>1. "task_registered" \in TaskEvent
    BY DEF TaskEvent, Predecessors
  <2>2. n(t) \in Job
    BY <2>1, IdleIsJob DEF Job, PC, Calls, Tool
  <2>3. /\ n(t).pc = "validate" /\ n(t).call = "register" /\ n(t).actor = a /\ n(t).task = t
        /\ n(t).event = "task_registered" /\ n(t).todo \subseteq Task /\ Fresh(n(t))
    BY DEF Idle, Fresh
  <2> HIDE DEF n
  <2>4. JobShape(n(t)) /\ Moves(job[p], n(t))
    BY <2>1, <2>3 DEF JobShape, CallShape, HasTask, Handling, Tool, Begins, Moves
  <2> QED
    BY <1>2, <2>2, <2>4, QuietSteps
<1> QED
  BY <1>1, <1>2 DEF Register

LEMMA RegistrationSteps ==
    ASSUME ImplementTypeOK, NEW p \in Proc
    PROVE  /\ \A a \in Actor : RegisterCall(p, a) => StepOf(p)
           /\ RegisterNext(p) => StepOf(p)
<1>1. ASSUME NEW a \in Actor, RegisterCall(p, a) PROVE StepOf(p)
  BY <1>1, RegisterSteps DEF RegisterCall
<1>2. ASSUME RegisterNext(p) PROVE StepOf(p)
  <2>1. job[p].actor \in Actor /\ job[p].todo \in SUBSET Task
    BY <1>2 DEF RegisterNext, At, ImplementTypeOK, JobShape, CallShape
  <2> QED
    BY <1>2, <2>1, RegisterSteps DEF RegisterNext, Me
<1> QED
  BY <1>1, <1>2

LEMMA AppendSteps ==
    ASSUME ImplementTypeOK, NEW p \in Proc, NEW a \in Actor, NEW t \in Task,
           NEW e \in CliEvent[t], NEW v \in Reported(e), AppendCall(p, a, t, e, v)
    PROVE  StepOf(p)
<1> DEFINE k == IF e = "fix_started" THEN attempt[t] + 1 ELSE attempt[t]
           n == [Idle EXCEPT !.pc = "write", !.call = "append", !.actor = a, !.task = t,
                    !.event = e, !.verdict = v, !.attempt = k]
<1>1. UNCHANGED onlyJob /\ (Set(p, n) \/ Reply(p, "exit"))
  BY DEF AppendCall
<1>2. CASE Reply(p, "exit")
  BY <1>1, <1>2, ReplySteps
<1>3. CASE Set(p, n)
  <2>1. k \in 0 .. MaxAttempt
    BY DEF AppendCall, ImplementTypeOK
  <2>2. e \in TaskEvent /\ v \in Verdict \cup {None}
    BY DEF Reported
  <2> HIDE DEF k
  <2>3. n \in Job
    BY <2>1, <2>2, IdleIsJob DEF Job, PC, Calls, Tool
  <2>4. /\ n.pc = "write" /\ n.call = "append" /\ n.actor = a /\ n.task = t
        /\ n.event = e /\ Fresh(n)
    BY DEF Idle, Fresh
  <2> HIDE DEF n
  <2>5. JobShape(n) /\ Moves(job[p], n)
    BY <2>2, <2>4 DEF JobShape, CallShape, HasTask, Handling, Tool, Begins, Moves
  <2> QED
    BY <1>1, <1>3, <2>3, <2>5, QuietSteps
<1> QED
  BY <1>1, <1>2, <1>3

LEMMA RefusalSteps == ASSUME ImplementTypeOK, NEW p \in Proc, TriggerRefused(p) PROVE StepOf(p)
<1>1. UNCHANGED onlyJob /\ \E x \in {"ok", "blocked"} : Reply(p, x)
  BY DEF TriggerRefused
<1> QED
  BY <1>1, ReplySteps

LEMMA TriggerSteps ==
    ASSUME ImplementTypeOK, NEW p \in Proc, NEW a \in Actor, NEW t \in Task,
           NEW r \in Request, TriggerCall(p, a, t, r)
    PROVE  StepOf(p)
<1> DEFINE n == [Idle EXCEPT !.pc = "assert", !.actor = a, !.task = t]
<1>1. UNCHANGED onlyJob /\ (Set(p, n) \/ \E x \in {"ok", "blocked", "exit"} : Reply(p, x))
  <2>1. GateAnswer(r, StartGate(t, a)) \in {"ok", "blocked"}
    BY DEF GateAnswer
  <2> QED
    BY <2>1 DEF TriggerCall, StartOrResume
<1>2. CASE \E x \in {"ok", "blocked", "exit"} : Reply(p, x)
  BY <1>1, <1>2, ReplySteps
<1>3. CASE Set(p, n)
  <2>1. n \in Job
    BY IdleIsJob DEF Job, PC
  <2>2. n.pc = "assert" /\ n.actor = a /\ n.task = t /\ n.call = "none" /\ Fresh(n)
    BY DEF Idle, Fresh
  <2> HIDE DEF n
  <2>3. JobShape(n) /\ Moves(job[p], n)
    BY <2>2 DEF JobShape, CallShape, HasTask, Handling, Begins, Moves
  <2> QED
    BY <1>1, <1>3, <2>1, <2>3, QuietSteps
<1> QED
  BY <1>1, <1>2, <1>3

\* What a job at pc needs of the job r it is moved on from.
Ready(r, pc) ==
    /\ r.pc \notin {"idle", "done"} /\ pc \notin {"register", "hook"}
    /\ pc \in HasTask => r.pc \in HasTask
    /\ pc \in Handling => r.pc \in Handling
    /\ pc \in {"validate", "write"} => r.pc \in {"validate", "write"}
    /\ pc \in {"next", "stamp"} => r.call = "closeout"

LEMMA ReadyShape ==
    ASSUME NEW r, NEW n, JobShape(r), Ready(r, n.pc), Keep(r, n)
    PROVE  JobShape(n)
<1>1. CallShape(n)
  BY DEF JobShape, CallShape, Keep
<1>2. n.pc \in HasTask => n.task \in Task
  BY DEF JobShape, Ready, Keep
<1>3. n.pc \in Handling => n.attempt \in 1 .. MaxAttempt
  BY DEF JobShape, Ready, Keep
<1> QED
  BY <1>1, <1>2, <1>3 DEF JobShape, Ready, Keep

LEMMA ToSteps ==
    ASSUME ImplementTypeOK, NEW p \in Proc, NEW pc \in PC, To(p, pc), UNCHANGED onlyJob,
           Ready(job[p], pc),
           \A n : Keep(job[p], n) /\ n.alone = job[p].alone /\ n.pc = pc
                  => Walks(job[p], n) \/ Works(job[p], n) \/ Pays(job[p], n)
    PROVE  StepOf(p)
<1> DEFINE r == job[p]
           n == [r EXCEPT !.pc = pc]
<1>1. r \in Job /\ JobShape(r) /\ Set(p, n)
  BY DEF ImplementTypeOK, To
<1> HIDE DEF r
<1>2. n \in Job /\ n.pc = pc /\ Keep(r, n) /\ n.alone = r.alone
  BY <1>1, MovedJob
<1> HIDE DEF n
<1>3. JobShape(n)
  BY <1>1, <1>2, ReadyShape DEF r
<1>4. Moves(job[p], n)
  BY <1>2 DEF r, Moves
<1> QED
  BY <1>1, <1>2, <1>3, <1>4, QuietSteps

LEMMA SelectSteps ==
    ASSUME ImplementTypeOK, NEW p \in Proc
    PROVE  /\ SelectTask(p) => StepOf(p)
           /\ NothingToPick(p) => StepOf(p)
<1>1. ASSUME NEW t \in Picks(p), At(p, "select"), ~bad, UNCHANGED onlyJob,
             Set(p, [job[p] EXCEPT !.task = t, !.round = 0,
                       !.pc = IF IsStarted(t) THEN "attempt" ELSE "assert"])
      PROVE  StepOf(p)
  <2> DEFINE r == job[p]
             pc == IF IsStarted(t) THEN "attempt" ELSE "assert"
             n == [r EXCEPT !.task = t, !.round = 0, !.pc = pc]
  <2>1. r \in Job /\ JobShape(r) /\ r.pc = "select" /\ Set(p, n)
    BY <1>1 DEF ImplementTypeOK, At
  <2>2. t \in Task /\ pc \in {"attempt", "assert"}
        /\ (pc = "attempt" => IsStarted(t) /\ ts[t].owner = r.actor)
    BY DEF Picks, Pickable, Me
  <2> HIDE DEF r, pc
  <2>9. t \in Task \cup {None} /\ pc \in PC /\ 0 \in 0 .. QaRetries
    BY <2>2 DEF PC
  <2>3. n \in Job
    BY <2>1, <2>9 DEF Job
  <2>4. /\ n.pc = pc /\ n.task = t /\ n.round = 0 /\ n.actor = r.actor /\ n.call = r.call
        /\ n.event = r.event /\ n.todo = r.todo
        /\ n.lines = r.lines /\ n.alone = r.alone /\ n.built = r.built
    BY <2>1 DEF Job
  <2> HIDE DEF n
  <2>5. CallShape(n)
    BY <2>1, <2>4 DEF JobShape, CallShape
  <2>6. JobShape(n)
    BY <2>1, <2>2, <2>4, <2>5 DEF JobShape, HasTask, Handling
  <2>7. Moves(job[p], n)
    BY <1>1, <2>1, <2>2, <2>4 DEF Selects, Moves, r
  <2> QED
    BY <1>1, <2>1, <2>3, <2>6, <2>7, QuietSteps
<1> QED
  BY <1>1, ReplySteps DEF SelectTask, NothingToPick

LEMMA StartSteps ==
    ASSUME ImplementTypeOK, NEW p \in Proc
    PROVE  /\ AssertStart(p) => StepOf(p)
           /\ ReadAgain(p) => StepOf(p)
           /\ TakeAttempt(p) => StepOf(p)
<1> DEFINE r == job[p]
<1>0. r \in Job /\ JobShape(r)
  BY DEF ImplementTypeOK
<1>1. Exit(p) \in {"ok", "blocked", "exit"}
  BY DEF Exit
<1>2. ASSUME AssertStart(p) PROVE StepOf(p)
  <2> DEFINE n == [r EXCEPT !.pc = "validate", !.call = "start", !.event = "task_started"]
  <2>1. r.pc = "assert" /\ UNCHANGED onlyJob
        /\ (Reply(p, Exit(p)) \/ (Set(p, n) /\ MayStart(r.task, Me(p))))
    BY <1>2 DEF AssertStart, At
  <2>2. CASE Reply(p, Exit(p))
    BY <1>1, <2>1, <2>2, ReplySteps
  <2>3. CASE Set(p, n) /\ MayStart(r.task, Me(p))
    <3>1. "task_started" \in TaskEvent
      BY DEF TaskEvent, Predecessors
    <3> HIDE DEF r
    <3>2. n \in Job
      BY <1>0, <3>1 DEF Job, PC, Calls, Tool
    <3>3. /\ n.pc = "validate" /\ n.call = "start" /\ n.event = "task_started"
          /\ SameTask(r, n) /\ n.round = r.round /\ n.built = r.built
      BY <1>0 DEF Job, SameTask
    <3> HIDE DEF n
    <3>4. JobShape(n)
      BY <1>0, <2>1, <3>1, <3>3 DEF JobShape, CallShape, HasTask, Handling, SameTask, Tool
    <3>5. \A u \in Priors(n.task) : IsClosed(u)
      BY <2>3, <3>3 DEF SameTask, MayStart
    <3>6. Moves(job[p], n)
      BY <2>1, <3>3, <3>5 DEF Starts, Moves, r
    <3> QED
      BY <2>1, <2>3, <3>2, <3>4, <3>6, QuietSteps
  <2> QED
    BY <2>1, <2>2, <2>3
<1>3. ASSUME ReadAgain(p) PROVE StepOf(p)
  <2>1. r.pc = "reread" /\ UNCHANGED onlyJob
        /\ (Reply(p, Exit(p)) \/ Reply(p, "ok") \/ (To(p, "attempt") /\ ~bad))
    <3>1. CASE bad
      BY <1>3, <3>1 DEF ReadAgain, At
    <3>2. CASE ~bad
      BY <1>3, <3>2 DEF ReadAgain, At
    <3> QED
      BY <3>1, <3>2
  <2>2. CASE To(p, "attempt") /\ ~bad
    <3>1. Ready(r, "attempt") /\ "attempt" \in PC
      BY <2>1 DEF Ready, HasTask, Handling, PC
    <3>2. \A n : Keep(r, n) /\ n.alone = r.alone /\ n.pc = "attempt" => Walks(r, n)
      BY <2>1, <2>2 DEF Walks
    <3> QED
      BY <2>1, <2>2, <3>1, <3>2, ToSteps
  <2> QED
    BY <1>1, <2>1, <2>2, ReplySteps
<1>4. ASSUME TakeAttempt(p) PROVE StepOf(p)
  <2> DEFINE k == attempt[job[p].task]
             n == [r EXCEPT !.pc = "agent", !.attempt = k]
  <2>1. r.pc = "attempt" /\ UNCHANGED onlyJob /\ Set(p, n)
    BY <1>4 DEF TakeAttempt, At
  <2>2. k \in 1 .. MaxAttempt /\ k \in 0 .. MaxAttempt
    BY <1>0, <2>1 DEF JobShape, HasTask, Handling, ImplementTypeOK
  <2> HIDE DEF k, r
  <2>3. n \in Job
    BY <1>0, <2>2 DEF Job, PC
  <2>4. /\ n.pc = "agent" /\ SameTask(r, n) /\ n.round = r.round /\ n.built = r.built
        /\ n.call = r.call /\ n.event = r.event /\ n.todo = r.todo /\ n.attempt = k
    BY <1>0, <2>2 DEF Job, SameTask
  <2> HIDE DEF n
  <2>5. CallShape(n)
    BY <1>0, <2>4 DEF JobShape, CallShape
  <2>6. JobShape(n)
    BY <1>0, <2>1, <2>2, <2>4, <2>5 DEF JobShape, HasTask, Handling, SameTask
  <2>7. Moves(job[p], n)
    BY <2>1, <2>4 DEF Attempts, Moves, r
  <2> QED
    BY <2>1, <2>3, <2>6, <2>7, QuietSteps
<1> QED
  BY <1>2, <1>3, <1>4

LEMMA LineSteps ==
    ASSUME ImplementTypeOK, NEW p \in Proc
    PROVE  /\ NextEvent(p) => StepOf(p)
           /\ Validate(p) => StepOf(p)
           /\ Hook(p) => StepOf(p)
<1> DEFINE r == job[p]
<1>0. r \in Job /\ JobShape(r)
  BY DEF ImplementTypeOK
<1>1. ASSUME At(p, "next"), job[p].todo = {}, To(p, "stamp"), UNCHANGED onlyJob
      PROVE  StepOf(p)
  <2>1. Ready(r, "stamp") /\ "stamp" \in PC
    BY <1>0, <1>1 DEF Ready, HasTask, Handling, PC, At, JobShape
  <2>2. \A n : Keep(r, n) /\ n.alone = r.alone /\ n.pc = "stamp" => Walks(r, n)
    BY <1>1 DEF Walks, At
  <2> QED
    BY <1>1, <2>1, <2>2, ToSteps
<1>2. ASSUME NEW e \in job[p].todo, At(p, "next"), UNCHANGED onlyJob,
             Set(p, [job[p] EXCEPT !.pc = "validate", !.event = e, !.todo = @ \ {e}])
      PROVE  StepOf(p)
  <2> DEFINE left == r.todo \ {e}
             n == [r EXCEPT !.pc = "validate", !.event = e, !.todo = left]
  <2>1. r.pc = "next" /\ Set(p, n)
    BY <1>0, <1>2 DEF At, Job
  <2>2. r.call = "closeout" /\ r.todo \subseteq TaskEvent \ {"task_started", "task_registered"}
    BY <1>0, <2>1 DEF JobShape, CallShape
  <2>3. e \in r.todo /\ e \in TaskEvent \ {"task_started", "task_registered"}
    BY <1>2, <2>2
  <2>4. left \in SUBSET (Task \cup TaskEvent) /\ left \subseteq r.todo
    BY <2>2
  <2>5. left = r.todo \ {e}
    OBVIOUS
  <2> HIDE DEF r, left
  <2>6. n \in Job
    BY <1>0, <2>3, <2>4 DEF Job, PC
  <2>7. /\ n.pc = "validate" /\ n.event = e /\ n.todo = left /\ n.call = r.call
        /\ n.verdict = r.verdict /\ SameTask(r, n) /\ n.round = r.round /\ n.built = r.built
    BY <1>0 DEF Job, SameTask
  <2> HIDE DEF n
  <2>8. CallShape(n)
    BY <2>2, <2>3, <2>4, <2>7 DEF CallShape
  <2>9. JobShape(n)
    BY <1>0, <2>1, <2>2, <2>3, <2>7, <2>8 DEF JobShape, HasTask, Handling, SameTask, Tool
  <2>10. Moves(job[p], n)
    BY <2>1, <2>3, <2>5, <2>7 DEF Takes, Moves, r
  <2> QED
    BY <1>2, <2>1, <2>6, <2>9, <2>10, QuietSteps
<1>3. ASSUME Validate(p) PROVE StepOf(p)
  <2>1. At(p, "validate") /\ UNCHANGED onlyJob
        /\ (To(p, "write") \/ \E x \in {"ok", "blocked", "exit"} : Reply(p, x))
    BY <1>3 DEF Validate, Exit
  <2>2. CASE To(p, "write")
    <3>1. Ready(r, "write") /\ "write" \in PC
      BY <2>1 DEF Ready, HasTask, Handling, PC, At
    <3>2. \A n : Keep(r, n) /\ n.alone = r.alone /\ n.pc = "write" => Walks(r, n)
      BY <2>1 DEF Walks, At
    <3> QED
      BY <2>1, <2>2, <3>1, <3>2, ToSteps
  <2> QED
    BY <2>1, <2>2, ReplySteps
<1>4. ASSUME Hook(p) PROVE StepOf(p)
  <2>1. /\ r.pc = "hook" /\ UNCHANGED onlyJob
        /\ \/ r.call = "closeout" /\ To(p, "next")
           \/ \E x \in {"ok", "blocked", "exit"} : Reply(p, x)
    BY <1>4 DEF Hook, At
  <2>2. CASE r.call = "closeout" /\ To(p, "next")
    <3>1. Ready(r, "next") /\ "next" \in PC
      BY <1>0, <2>1, <2>2 DEF Ready, HasTask, Handling, PC, JobShape
    <3>2. \A n : Keep(r, n) /\ n.alone = r.alone /\ n.pc = "next" => Walks(r, n)
      BY <2>1, <2>2 DEF Walks
    <3> QED
      BY <2>1, <2>2, <3>1, <3>2, ToSteps
  <2> QED
    BY <2>1, <2>2, ReplySteps
<1> QED
  BY <1>1, <1>2, <1>3, <1>4 DEF NextEvent

LEMMA TypedLine ==
    ASSUME ImplementTypeOK, NEW t \in Task, NEW e \in TaskEvent, NEW a \in Actor,
           NEW v \in Verdict \cup {None}, NEW n \in 0 .. MaxAttempt, AppendLine(t, e, a, v, n)
    PROVE  /\ ts' \in [Task -> TaskState]
           /\ active' \in [Actor -> Task \cup {None}]
           /\ bad' \in BOOLEAN
           /\ attempt' \in [Task -> 1 .. MaxAttempt]
<1>1. ts' \in [Task -> TaskState]
  <2> DEFINE s == ts[t]
             owner == IF e = "task_started" THEN a ELSE s.owner
             ci == IF e = "ci_completed" THEN v ELSE s.ci
             verdict == IF e = "qa_verdict" THEN v ELSE s.verdict
             seen == s.seen \cup {e}
             new == [s EXCEPT !.seen = seen, !.last = e, !.owner = owner, !.ci = ci,
                              !.verdict = verdict]
  <2>1. s \in TaskState
    BY DEF ImplementTypeOK
  <2>2. ts' = [ts EXCEPT ![t] = new]
    BY DEF AppendLine, Replayed, ImplementTypeOK
  <2> HIDE DEF s
  <2>3. owner \in Actor \cup {None} /\ ci \in Verdict \cup {None}
        /\ verdict \in Verdict \cup {None} /\ seen \in SUBSET TaskEvent
    BY <2>1 DEF TaskState
  <2> HIDE DEF owner, ci, verdict, seen
  <2>4. new \in TaskState
    BY <2>1, <2>3 DEF TaskState
  <2> QED
    BY <2>2, <2>4 DEF ImplementTypeOK
<1>2. active' \in [Actor -> Task \cup {None}]
  <2>1. active' = Slots(t, e, a) /\ active \in [Actor -> Task \cup {None}]
    BY DEF AppendLine, ImplementTypeOK
  <2>2. CASE e = "task_started"
    BY <2>1, <2>2 DEF Slots
  <2>3. CASE e = "task_closed"
    BY <2>1, <2>3 DEF Slots
  <2>4. CASE e \notin {"task_started", "task_closed"}
    BY <2>1, <2>4 DEF Slots
  <2> QED
    BY <2>2, <2>3, <2>4
<1>3. bad' \in BOOLEAN
  BY DEF AppendLine, ImplementTypeOK
<1>4. attempt' \in [Task -> 1 .. MaxAttempt]
  BY DEF AppendLine, ImplementTypeOK
<1> QED
  BY <1>1, <1>2, <1>3, <1>4

LEMMA WriteSteps ==
    ASSUME ImplementTypeOK, NEW p \in Proc, Write(p)
    PROVE  StepOf(p)
<1> DEFINE r == job[p]
           pc == Follow[r.call]
           n == [r EXCEPT !.pc = pc]
<1>1. r \in Job /\ JobShape(r) /\ r.pc = "write" /\ SetFiles(p, n)
  BY DEF Write, At, ImplementTypeOK
<1>2. r.call \in Tool
  BY <1>1 DEF JobShape
<1>3. /\ AppendLine(r.task, r.event, r.actor, r.verdict, r.attempt)
      /\ ungated' = IF r.call = "append" /\ r.event = "task_started"
                    THEN ungated \cup {r.task} ELSE ungated
  BY DEF Write, Me
<1>4. pc \in PC /\ pc \in {"reread", "register", "hook"}
      /\ (pc = "reread" => r.call = "start") /\ (pc = "register" => r.call = "register")
      /\ (pc = "hook" => r.call \in {"append", "closeout"})
  BY <1>2 DEF Follow, Tool, PC
<1>5. pc = Follow[r.call]
  OBVIOUS
<1> HIDE DEF r, pc
<1>6. n \in Job /\ n.pc = pc /\ Keep(r, n) /\ n.alone = r.alone
  BY <1>1, <1>4, MovedJob
<1> HIDE DEF n
<1>7. JobShape(n)
  <2>1. CallShape(n)
    BY <1>1, <1>6 DEF JobShape, CallShape, Keep
  <2> QED
    BY <1>1, <1>4, <1>6, <2>1 DEF JobShape, Keep, HasTask, Handling
<1>8. job' \in [Proc -> Job] /\ job'[p] = n /\ Frame(p)
  BY <1>1, <1>6, SetFilesFacts DEF ImplementTypeOK
<1>9. Writes(p)
  BY <1>1, <1>3, <1>5, <1>6, <1>8 DEF Writes, r
<1>10. FilesTyped' /\ payload \subseteq payload' /\ Marks(p) /\ Records(p)
  BY DEF Write, FilesTyped, Marks, Records, ImplementTypeOK, Work
<1> QED
  BY <1>7, <1>8, <1>9, <1>10 DEF StepOf

\* A step that changes files, gives p the job n, and is not an append.
LEMMA FileSteps ==
    ASSUME ImplementTypeOK, NEW p \in Proc, NEW n \in Job, SetFiles(p, n),
           UNCHANGED <<taskVars>>, FilesTyped', payload \subseteq payload',
           Marks(p), Records(p), JobShape(n), Moves(job[p], n)
    PROVE  StepOf(p)
<1>1. job' \in [Proc -> Job] /\ job'[p] = n /\ Frame(p)
  BY SetFilesFacts DEF ImplementTypeOK
<1> QED
  BY <1>1 DEF StepOf, taskVars, ImplementTypeOK

LEMMA BranchSteps ==
    ASSUME ImplementTypeOK, NEW p \in Proc, EnsureBranch(p)
    PROVE  StepOf(p)
<1> DEFINE r == job[p]
<1>0. /\ r \in Job /\ JobShape(r) /\ r.pc = "branch"
      /\ UNCHANGED <<taskVars, mark, dirty, staged, head, payload, plog, torn>>
      /\ \/ branch' = branch /\ Set(p, Done("blocked"))
         \/ branch' = "feature" /\ Set(p, [r EXCEPT !.pc = "select"])
  BY DEF EnsureBranch, At, Reply, To, ImplementTypeOK
<1>1. UNCHANGED files /\ FilesTyped' /\ Marks(p) /\ Records(p) /\ payload' = payload
  BY <1>0 DEF files, FilesTyped, Marks, Records, ImplementTypeOK
<1>2. ASSUME NEW n \in Job, Set(p, n), JobShape(n), Moves(r, n) PROVE StepOf(p)
  <2>1. job' \in [Proc -> Job] /\ job'[p] = n /\ Frame(p)
    BY <1>1, <1>2, SetFacts DEF ImplementTypeOK
  <2> QED
    BY <1>0, <1>1, <1>2, <2>1 DEF StepOf, taskVars, ImplementTypeOK
<1>3. CASE Set(p, Done("blocked"))
  BY <1>2, <1>3, DoneIsJob DEF Moves
<1>4. CASE Set(p, [r EXCEPT !.pc = "select"])
  <2> DEFINE n == [r EXCEPT !.pc = "select"]
  <2> HIDE DEF r
  <2>1. n \in Job /\ n.pc = "select" /\ Keep(r, n) /\ n.alone = r.alone
    BY <1>0, MovedJob DEF PC
  <2> HIDE DEF n
  <2>2. Ready(r, n.pc)
    BY <1>0, <2>1 DEF Ready, HasTask, Handling
  <2>3. JobShape(n)
    BY <1>0, <2>1, <2>2, ReadyShape
  <2>4. Moves(r, n)
    BY <1>0, <2>1 DEF Walks, Moves
  <2> QED
    BY <1>2, <1>4, <2>1, <2>3, <2>4 DEF n
<1> QED
  BY <1>0, <1>3, <1>4

\* A step that changes files and only moves on, but for "alone".
LEMMA FileMoves ==
    ASSUME ImplementTypeOK, NEW p \in Proc, NEW n \in Job, SetFiles(p, n), Keep(job[p], n),
           Ready(job[p], n.pc), UNCHANGED <<taskVars, plog>>, FilesTyped',
           payload \subseteq payload', Marks(p), Moves(job[p], n)
    PROVE  StepOf(p)
<1>1. JobShape(n)
  BY ReadyShape DEF ImplementTypeOK
<1> QED
  BY <1>1, FileSteps DEF Records

LEMMA AgentSteps ==
    ASSUME ImplementTypeOK, NEW p \in Proc
    PROVE  /\ AgentRound(p) => StepOf(p)
           /\ AgentFails(p) => StepOf(p)
<1> DEFINE r == job[p]
<1>0. r \in Job /\ JobShape(r)
  BY DEF ImplementTypeOK
<1>1. ASSUME AgentRound(p) PROVE StepOf(p)
  <2>1. /\ r.pc = "agent" /\ r.task \in Task
        /\ UNCHANGED <<taskVars, mark, branch, staged, head, payload, plog, torn>>
        /\ \/ SetFiles(p, [r EXCEPT !.pc = "stage", !.alone = TRUE])
              /\ dirty' = dirty \cup {r.task}
           \/ To(p, "stage") /\ UNCHANGED dirty
    BY <1>0, <1>1 DEF AgentRound, At, JobShape, HasTask, Handling
  <2>2. CASE To(p, "stage") /\ UNCHANGED dirty
    <3>1. UNCHANGED onlyJob /\ UNCHANGED files
      BY <2>1, <2>2 DEF onlyJob, gitVars, files
    <3>2. Ready(r, "stage") /\ "stage" \in PC
      BY <2>1 DEF Ready, HasTask, Handling, PC
    <3>3. \A n : Keep(r, n) /\ n.alone = r.alone /\ n.pc = "stage" => Works(r, n)
      BY <2>1, <3>1 DEF Works
    <3> QED
      BY <2>2, <3>1, <3>2, <3>3, ToSteps
  <2>3. CASE SetFiles(p, [r EXCEPT !.pc = "stage", !.alone = TRUE])
             /\ dirty' = dirty \cup {r.task}
    <3> DEFINE n == [r EXCEPT !.pc = "stage", !.alone = TRUE]
    <3>1. FilesTyped' /\ Marks(p) /\ payload' = payload
      BY <2>1, <2>3 DEF FilesTyped, Marks, ImplementTypeOK, Work
    <3>2. r.task \in dirty'
      BY <2>3
    <3> HIDE DEF r
    <3>3. n \in Job /\ n.pc = "stage"
      BY <1>0 DEF Job, PC
    <3>4. Keep(r, n)
      BY <1>0 DEF Job, Keep
    <3> HIDE DEF n
    <3>5. Ready(r, n.pc)
      BY <2>1, <3>3 DEF Ready, HasTask, Handling
    <3>6. Moves(r, n)
      BY <2>1, <3>2, <3>3, <3>4 DEF Works, Moves
    <3> QED
      BY <2>1, <2>3, <3>1, <3>3, <3>4, <3>5, <3>6, FileMoves DEF n, r
  <2> QED
    BY <2>1, <2>2, <2>3
<1>2. ASSUME AgentFails(p) PROVE StepOf(p)
  <2>1. /\ r.pc = "agent" /\ r.task \in Task
        /\ UNCHANGED <<taskVars, mark, branch, staged, head, payload, plog, torn>>
        /\ \/ Reply(p, "blocked") /\ UNCHANGED dirty
           \/ SetFiles(p, Done("blocked")) /\ dirty' = dirty \cup {r.task}
    BY <1>0, <1>2 DEF AgentFails, At, JobShape, HasTask, Handling
  <2>2. CASE Reply(p, "blocked") /\ UNCHANGED dirty
    BY <2>1, <2>2, ReplySteps DEF onlyJob, gitVars
  <2>3. CASE SetFiles(p, Done("blocked")) /\ dirty' = dirty \cup {r.task}
    <3>1. FilesTyped' /\ Marks(p) /\ Records(p) /\ payload' = payload
      BY <2>1, <2>3 DEF FilesTyped, Marks, Records, ImplementTypeOK, Work
    <3> QED
      BY <2>1, <2>3, <3>1, DoneIsJob, FileSteps DEF Moves
  <2> QED
    BY <2>1, <2>2, <2>3
<1> QED
  BY <1>1, <1>2

LEMMA CommitSteps ==
    ASSUME ImplementTypeOK, NEW p \in Proc
    PROVE  /\ Stage(p) => StepOf(p)
           /\ Commit(p) => StepOf(p)
           /\ TakeSha(p) => StepOf(p)
<1> DEFINE r == job[p]
<1>0. r \in Job /\ JobShape(r)
  BY DEF ImplementTypeOK
<1>1. ASSUME Stage(p) PROVE StepOf(p)
  <2> DEFINE n == [r EXCEPT !.pc = "commit"]
  <2>1. /\ r.pc = "stage" /\ SetFiles(p, n) /\ dirty' = {} /\ staged' = staged \cup dirty
        /\ UNCHANGED <<taskVars, mark, branch, head, payload, plog, torn>>
    BY <1>1 DEF Stage, At
  <2>2. FilesTyped' /\ Marks(p) /\ payload' = payload
    BY <2>1 DEF FilesTyped, Marks, ImplementTypeOK
  <2> HIDE DEF r
  <2>3. n \in Job /\ n.pc = "commit" /\ Keep(r, n) /\ n.alone = r.alone
    BY <1>0, MovedJob DEF PC
  <2> HIDE DEF n
  <2>4. Ready(r, n.pc) /\ Moves(r, n)
    BY <2>1, <2>3 DEF Ready, HasTask, Handling, Stages, Moves
  <2> QED
    BY <2>1, <2>2, <2>3, <2>4, FileMoves DEF r
<1>2. ASSUME Commit(p) PROVE StepOf(p)
  <2> DEFINE n == [r EXCEPT !.pc = "sha"]
  <2>1. /\ r.pc = "commit"
        /\ UNCHANGED <<taskVars, mark, branch, dirty, payload, plog, torn>>
        /\ \/ Reply(p, "blocked") /\ UNCHANGED <<head, staged>>
           \/ SetFiles(p, n) /\ head' = staged /\ staged' = {}
    BY <1>2 DEF Commit, At
  <2>2. CASE Reply(p, "blocked") /\ UNCHANGED <<head, staged>>
    BY <2>1, <2>2, ReplySteps DEF onlyJob, gitVars
  <2>3. CASE SetFiles(p, n) /\ head' = staged /\ staged' = {}
    <3>2. FilesTyped' /\ Marks(p) /\ payload' = payload
      BY <2>1, <2>3 DEF FilesTyped, Marks, ImplementTypeOK
    <3> HIDE DEF r
    <3>3. n \in Job /\ n.pc = "sha" /\ Keep(r, n) /\ n.alone = r.alone
      BY <1>0, MovedJob DEF PC
    <3> HIDE DEF n
    <3>4. Ready(r, n.pc) /\ Moves(r, n)
      BY <2>1, <2>3, <3>3 DEF Ready, HasTask, Handling, Commits, Moves
    <3> QED
      BY <2>1, <2>3, <3>2, <3>3, <3>4, FileMoves DEF r
  <2> QED
    BY <2>1, <2>2, <2>3
<1>3. ASSUME TakeSha(p) PROVE StepOf(p)
  <2> DEFINE n == [r EXCEPT !.pc = "payload", !.commit = head]
  <2>1. r.pc = "sha" /\ UNCHANGED onlyJob /\ Set(p, n) /\ UNCHANGED files
    BY <1>3 DEF TakeSha, At, onlyJob, gitVars, files
  <2>2. head \in SUBSET Work
    BY DEF ImplementTypeOK
  <2> HIDE DEF r
  <2>3. n \in Job
    BY <1>0, <2>2 DEF Job, PC
  <2>4. /\ n.pc = "payload" /\ SameTask(r, n) /\ n.round = r.round /\ n.built = r.built
        /\ n.attempt = r.attempt /\ n.commit = head
        /\ n.call = r.call /\ n.event = r.event /\ n.todo = r.todo
    BY <1>0 DEF Job, SameTask
  <2> HIDE DEF n
  <2>5. CallShape(n)
    BY <1>0, <2>4 DEF JobShape, CallShape
  <2>6. JobShape(n)
    BY <1>0, <2>1, <2>4, <2>5 DEF JobShape, HasTask, Handling, SameTask
  <2>7. Moves(r, n)
    BY <2>1, <2>4 DEF Shas, Moves
  <2> QED
    BY <2>1, <2>3, <2>6, <2>7, QuietSteps DEF r
<1> QED
  BY <1>1, <1>2, <1>3

LEMMA QaSteps ==
    ASSUME ImplementTypeOK, NEW p \in Proc
    PROVE  /\ Payload(p) => StepOf(p)
           /\ QaPassed(p) => StepOf(p)
           /\ QaUnusable(p) => StepOf(p)
           /\ QaFailed(p) => StepOf(p)
<1> DEFINE r == job[p]
<1>0. r \in Job /\ JobShape(r)
  BY DEF ImplementTypeOK
<1>1. ASSUME Payload(p) PROVE StepOf(p)
  <2> DEFINE pair == <<r.task, r.attempt>>
             n == [r EXCEPT !.pc = "qa", !.listed = Changed, !.built = r.alone]
  <2>1. /\ r.pc = "payload"
        /\ UNCHANGED <<taskVars, mark, branch, staged, head, plog, torn>>
        /\ \/ pair \in payload /\ To(p, "qa") /\ UNCHANGED <<payload, dirty>>
           \/ /\ pair \notin payload /\ payload' = payload \cup {pair}
              /\ dirty' = dirty \cup {Books} /\ SetFiles(p, n)
    BY <1>1 DEF Payload, At
  <2>2. r.task \in Task /\ r.attempt \in 1 .. MaxAttempt
    BY <1>0, <2>1 DEF JobShape, HasTask, Handling
  <2>3. CASE pair \in payload /\ To(p, "qa") /\ UNCHANGED <<payload, dirty>>
    <3>1. UNCHANGED onlyJob
      BY <2>1, <2>3 DEF onlyJob, gitVars
    <3>2. Ready(r, "qa") /\ "qa" \in PC
      BY <2>1 DEF Ready, HasTask, Handling, PC
    <3>3. \A m : Keep(r, m) /\ m.alone = r.alone /\ m.pc = "qa" => Pays(r, m)
      BY <2>1, <2>3 DEF Pays, Keep, SameTask
    <3> QED
      BY <2>3, <3>1, <3>2, <3>3, ToSteps
  <2>4. CASE /\ pair \notin payload /\ payload' = payload \cup {pair}
             /\ dirty' = dirty \cup {Books} /\ SetFiles(p, n)
    <3>1. FilesTyped' /\ Marks(p) /\ Records(p) /\ payload \subseteq payload'
      BY <2>1, <2>2, <2>4 DEF FilesTyped, Marks, Records, ImplementTypeOK, Work
    <3>2. Changed \in SUBSET Work
      BY DEF Changed, ImplementTypeOK
    <3> HIDE DEF r
    <3>3. r.alone \in BOOLEAN
      BY <1>0 DEF Job
    <3>4. n \in Job
      BY <1>0, <3>2, <3>3 DEF Job, PC
    <3>5. /\ n.pc = "qa" /\ SameTask(r, n) /\ n.round = r.round /\ n.built = r.alone
          /\ n.attempt = r.attempt /\ n.commit = r.commit /\ n.listed = Changed
          /\ n.call = r.call /\ n.event = r.event /\ n.todo = r.todo
      BY <1>0 DEF Job, SameTask
    <3> HIDE DEF n
    <3>6. CallShape(n)
      BY <1>0, <3>5 DEF JobShape, CallShape
    <3>7. JobShape(n)
      BY <1>0, <2>1, <2>2, <3>5, <3>6 DEF JobShape, HasTask, Handling, SameTask
    <3>8. Moves(r, n)
      BY <2>1, <2>4, <3>5 DEF Pays, Moves
    <3> QED
      BY <2>1, <2>4, <3>1, <3>4, <3>7, <3>8, FileSteps DEF r
  <2> QED
    BY <2>1, <2>3, <2>4
<1>2. ASSUME QaPassed(p) PROVE StepOf(p)
  <2> DEFINE n == [r EXCEPT !.pc = "closeout", !.verdict = "pass"]
  <2>1. r.pc = "qa" /\ UNCHANGED onlyJob /\ Set(p, n)
    BY <1>2 DEF QaPassed, At
  <2> HIDE DEF r
  <2>2. n \in Job
    BY <1>0 DEF Job, PC, Verdict
  <2>3. /\ n.pc = "closeout" /\ SameTask(r, n) /\ n.built = r.built
        /\ n.commit = r.commit /\ n.listed = r.listed
        /\ n.call = r.call /\ n.event = r.event /\ n.todo = r.todo
    BY <1>0 DEF Job, SameTask
  <2> HIDE DEF n
  <2>4. CallShape(n)
    BY <1>0, <2>3 DEF JobShape, CallShape
  <2>5. JobShape(n)
    BY <1>0, <2>1, <2>3, <2>4 DEF JobShape, HasTask, Handling, SameTask
  <2>6. Moves(r, n)
    BY <2>1, <2>3 DEF Passes, Moves
  <2> QED
    BY <2>1, <2>2, <2>5, <2>6, QuietSteps DEF r
<1>3. ASSUME QaUnusable(p) PROVE StepOf(p)
  BY <1>3, ReplySteps DEF QaUnusable
<1>4. ASSUME QaFailed(p) PROVE StepOf(p)
  <2> DEFINE next == r.round + 1
             n == [r EXCEPT !.pc = "agent", !.round = next, !.commit = {}, !.listed = {},
                            !.built = FALSE]
  <2>1. r.round \in 0 .. QaRetries
    BY <1>0 DEF Job
  <2>2. r.pc = "qa" /\ UNCHANGED onlyJob
        /\ (Reply(p, "blocked") \/ (Set(p, n) /\ next \in 0 .. QaRetries))
    BY <1>0, <1>4, <2>1 DEF QaFailed, At, Job
  <2>3. CASE Reply(p, "blocked")
    BY <2>2, <2>3, ReplySteps
  <2>4. CASE Set(p, n) /\ next \in 0 .. QaRetries
    <3>0. next = r.round + 1
      OBVIOUS
    <3> HIDE DEF r, next
    <3>1. n \in Job
      BY <1>0, <2>4 DEF Job, PC
    <3>2. /\ n.pc = "agent" /\ SameTask(r, n) /\ ~n.built /\ n.round = next
          /\ n.attempt = r.attempt
          /\ n.call = r.call /\ n.event = r.event /\ n.todo = r.todo
      BY <1>0 DEF Job, SameTask
    <3> HIDE DEF n
    <3>3. CallShape(n)
      BY <1>0, <3>2 DEF JobShape, CallShape
    <3>4. JobShape(n)
      BY <1>0, <2>2, <3>2, <3>3 DEF JobShape, HasTask, Handling, SameTask
    <3>5. Moves(r, n)
      BY <2>2, <3>0, <3>2 DEF Retries, Moves
    <3> QED
      BY <2>2, <2>4, <3>1, <3>4, <3>5, QuietSteps DEF r
  <2> QED
    BY <2>2, <2>3, <2>4
<1> QED
  BY <1>1, <1>2, <1>3, <1>4

LEMMA CanonicalEvents ==
    ASSUME NEW v, NEW c
    PROVE  /\ Canonical(v, c) \subseteq TaskEvent \ {"task_started", "task_registered"}
           /\ v = "pass" => "task_closed" \in Canonical(v, c)
BY DEF Canonical, TaskEvent, Predecessors

LEMMA CloseoutSteps ==
    ASSUME ImplementTypeOK, NEW p \in Proc
    PROVE  /\ Closeout(p) => StepOf(p)
           /\ CloseoutRefused(p) => StepOf(p)
           /\ Stamp(p) => StepOf(p)
           /\ UpdateDocs(p) => StepOf(p)
           /\ DocsRefused(p) => StepOf(p)
<1> DEFINE r == job[p]
<1>0. r \in Job /\ JobShape(r)
  BY DEF ImplementTypeOK
<1>1. ASSUME Closeout(p) PROVE StepOf(p)
  <2> DEFINE left == Canonical(r.verdict, r.commit) \ ts[r.task].seen
             n == [Idle EXCEPT !.pc = "next", !.call = "closeout", !.actor = r.actor,
                     !.task = r.task, !.verdict = r.verdict, !.lines = mark, !.todo = left]
  <2>1. r.pc = "closeout" /\ UNCHANGED onlyJob /\ Set(p, n)
    BY <1>1 DEF Closeout, At, Me
  <2>2. r.actor \in Actor /\ r.task \in Task /\ r.verdict \in Verdict \cup {None}
        /\ mark \in SUBSET Task
    BY <1>0, <2>1 DEF JobShape, HasTask, Job, ImplementTypeOK
  <2>3. /\ left \subseteq TaskEvent \ {"task_started", "task_registered"}
        /\ r.verdict = "pass" => "task_closed" \in left \cup ts[r.task].seen
    BY CanonicalEvents
  <2> HIDE DEF left, r
  <2>4. n \in Job
    BY <2>2, <2>3, IdleIsJob DEF Job, PC, Calls, Tool
  <2>5. /\ n.pc = "next" /\ n.call = "closeout" /\ n.actor = r.actor /\ n.task = r.task
        /\ n.verdict = r.verdict /\ n.lines = mark /\ n.todo = left
        /\ n.event = None /\ n.round = 0 /\ ~n.alone /\ ~n.built
    BY DEF Idle
  <2> HIDE DEF n
  <2>6. n.event # "task_started"
    BY <2>5 DEF TaskEvent, Predecessors
  <2>7. JobShape(n)
    BY <2>2, <2>3, <2>5, <2>6 DEF JobShape, CallShape, HasTask, Handling
  <2>8. Moves(r, n)
    BY <2>1, <2>3, <2>5 DEF Closes, Moves
  <2> QED
    BY <2>1, <2>4, <2>7, <2>8, QuietSteps DEF r
<1>2. ASSUME CloseoutRefused(p) PROVE StepOf(p)
  BY <1>2, ReplySteps DEF CloseoutRefused
<1>3. ASSUME Stamp(p) PROVE StepOf(p)
  <2> DEFINE n == IF p \in Shell THEN Done("ok") ELSE [r EXCEPT !.pc = "docs"]
  <2>1. /\ r.pc = "stamp" /\ r.verdict = "pass" /\ mark' = r.lines \cup {r.task}
        /\ dirty' = dirty \cup {Books} /\ SetFiles(p, n)
        /\ UNCHANGED <<taskVars, branch, staged, head, payload, plog, torn>>
    BY <1>3 DEF Stamp, At
  <2>2. FilesTyped' /\ Marks(p) /\ Records(p) /\ payload' = payload
    BY <2>1 DEF FilesTyped, Marks, Records, ImplementTypeOK, Work
  <2>3. CASE p \in Shell
    <3>1. n = Done("ok")
      BY <2>3
    <3> HIDE DEF n
    <3> QED
      BY <2>1, <2>2, <3>1, DoneIsJob, FileSteps DEF Moves
  <2>4. CASE p \notin Shell
    <3>1. n = [r EXCEPT !.pc = "docs"]
      BY <2>4
    <3> HIDE DEF n, r
    <3>2. n \in Job /\ n.pc = "docs" /\ Keep(r, n) /\ n.alone = r.alone
      BY <1>0, <3>1, MovedJob DEF PC
    <3>3. Ready(r, n.pc) /\ Moves(r, n)
      BY <2>1, <3>2 DEF Ready, HasTask, Handling, Walks, Moves
    <3> QED
      BY <2>1, <2>2, <3>2, <3>3, FileMoves DEF r
  <2> QED
    BY <2>3, <2>4
<1>4. ASSUME UpdateDocs(p) PROVE StepOf(p)
  <2> DEFINE n == [r EXCEPT !.pc = "gate"]
  <2>1. /\ r.pc = "docs" /\ dirty' = dirty \cup {Books} /\ SetFiles(p, n)
        /\ UNCHANGED <<taskVars, mark, branch, staged, head, payload, plog, torn>>
    BY <1>4 DEF UpdateDocs, At
  <2>2. FilesTyped' /\ Marks(p) /\ payload' = payload
    BY <2>1 DEF FilesTyped, Marks, ImplementTypeOK, Work
  <2> HIDE DEF r
  <2>3. n \in Job /\ n.pc = "gate" /\ Keep(r, n) /\ n.alone = r.alone
    BY <1>0, MovedJob DEF PC
  <2> HIDE DEF n
  <2>4. Ready(r, n.pc) /\ Moves(r, n)
    BY <2>1, <2>3 DEF Ready, HasTask, Handling, Walks, Moves
  <2> QED
    BY <2>1, <2>2, <2>3, <2>4, FileMoves DEF r
<1>5. ASSUME DocsRefused(p) PROVE StepOf(p)
  BY <1>5, ReplySteps DEF DocsRefused
<1> QED
  BY <1>1, <1>2, <1>3, <1>4, <1>5

LEMMA GateSteps ==
    ASSUME ImplementTypeOK, NEW p \in Proc
    PROVE  /\ TaskGate(p) => StepOf(p)
           /\ GateRefused(p) => StepOf(p)
           /\ AssertPhase(p) => StepOf(p)
           /\ EmitRead(p) => StepOf(p)
           /\ EmitWrite(p) => StepOf(p)
<1> DEFINE r == job[p]
<1>0. r \in Job /\ JobShape(r)
  BY DEF ImplementTypeOK
<1>1. ASSUME TaskGate(p) PROVE StepOf(p)
  <2> DEFINE n == [Idle EXCEPT !.pc = "select", !.actor = r.actor]
  <2>1. r.pc = "gate" /\ UNCHANGED onlyJob
        /\ (Set(p, n) \/ (To(p, "assert_phase") /\ OpenTasks = {}))
    BY <1>1 DEF TaskGate, At, Me
  <2>2. CASE Set(p, n)
    <3>1. r.actor \in Actor
      BY <1>0, <2>1 DEF JobShape
    <3> HIDE DEF r
    <3>2. n \in Job
      BY <3>1, IdleIsJob DEF Job, PC
    <3>3. n.pc = "select" /\ n.actor = r.actor /\ n.call = "none" /\ Fresh(n)
      BY DEF Idle, Fresh
    <3> HIDE DEF n
    <3>4. JobShape(n) /\ Moves(r, n)
      BY <3>1, <3>3 DEF JobShape, CallShape, HasTask, Handling, Begins, Moves
    <3> QED
      BY <2>1, <2>2, <3>2, <3>4, QuietSteps DEF r
  <2>3. CASE To(p, "assert_phase") /\ OpenTasks = {}
    <3>1. Ready(r, "assert_phase") /\ "assert_phase" \in PC
      BY <2>1 DEF Ready, HasTask, Handling, PC
    <3>2. \A t \in Task : IsClosed(t)
      BY <2>3 DEF OpenTasks
    <3>3. \A m : Keep(r, m) /\ m.alone = r.alone /\ m.pc = "assert_phase" => Walks(r, m)
      BY <2>1, <3>2 DEF Walks
    <3> QED
      BY <2>1, <2>3, <3>1, <3>3, ToSteps
  <2> QED
    BY <2>1, <2>2, <2>3
<1>2. ASSUME GateRefused(p) PROVE StepOf(p)
  BY <1>2, ReplySteps DEF GateRefused
<1>3. ASSUME AssertPhase(p) PROVE StepOf(p)
  <2>1. r.pc = "assert_phase" /\ UNCHANGED onlyJob /\ (Reply(p, "ok") \/ To(p, "emit"))
    BY <1>3 DEF AssertPhase, At
  <2>2. CASE To(p, "emit")
    <3>1. Ready(r, "emit") /\ "emit" \in PC
      BY <2>1 DEF Ready, HasTask, Handling, PC
    <3>2. \A m : Keep(r, m) /\ m.alone = r.alone /\ m.pc = "emit" => Walks(r, m)
      BY <2>1 DEF Walks
    <3> QED
      BY <2>1, <2>2, <3>1, <3>2, ToSteps
  <2> QED
    BY <2>1, <2>2, ReplySteps
<1>4. ASSUME EmitRead(p) PROVE StepOf(p)
  <2>1. r.pc = "emit" /\ UNCHANGED onlyJob
        /\ (Reply(p, "blocked") \/ To(p, "emit_write"))
    BY <1>4 DEF EmitRead, At
  <2>2. CASE To(p, "emit_write")
    <3>1. Ready(r, "emit_write") /\ "emit_write" \in PC
      BY <2>1 DEF Ready, HasTask, Handling, PC
    <3>2. \A m : Keep(r, m) /\ m.alone = r.alone /\ m.pc = "emit_write" => Walks(r, m)
      BY <2>1 DEF Walks
    <3> QED
      BY <2>1, <2>2, <3>1, <3>2, ToSteps
  <2> QED
    BY <2>1, <2>2, ReplySteps
<1>5. ASSUME EmitWrite(p) PROVE StepOf(p)
  <2>1. /\ r.pc = "emit_write" /\ dirty' = dirty \cup {Books} /\ SetFiles(p, Done("ok"))
        /\ UNCHANGED <<taskVars, mark, branch, staged, head, payload>>
        /\ Records(p)
    BY <1>5 DEF EmitWrite, At, Pipeline!WriteEntry, Records
  <2>2. FilesTyped' /\ Marks(p) /\ payload' = payload
    BY <2>1 DEF FilesTyped, Marks, ImplementTypeOK, Work
  <2> QED
    BY <2>1, <2>2, DoneIsJob, FileSteps DEF Moves
<1> QED
  BY <1>1, <1>2, <1>3, <1>4, <1>5

LEMMA EndSteps ==
    ASSUME ImplementTypeOK, NEW p \in Proc
    PROVE  /\ Crash(p) => StepOf(p)
           /\ Acknowledge(p) => StepOf(p)
<1>0. JobShape(Idle) /\ Moves(job[p], Idle)
  BY DEF Idle, JobShape, CallShape, HasTask, Handling, Rests, Fresh, Moves
<1>1. ASSUME Crash(p) PROVE StepOf(p)
  <2>1. /\ Set(p, Idle) /\ UNCHANGED <<ts, active, attempt, ungated, mark, gitVars, plog>>
        /\ bad' \in BOOLEAN /\ (bad => bad')
    <3>1. bad \in BOOLEAN
      BY DEF ImplementTypeOK
    <3>2. CASE UNCHANGED <<taskVars, torn>>
      BY <1>1, <3>1, <3>2 DEF Crash, taskVars
    <3>3. CASE TearTaskLine
      BY <1>1, <3>3 DEF Crash, TearTaskLine
    <3> QED
      BY <1>1, <3>2, <3>3 DEF Crash
  <2>2. UNCHANGED files /\ FilesTyped' /\ Marks(p) /\ Records(p) /\ payload' = payload
    BY <2>1 DEF files, gitVars, FilesTyped, Marks, Records, ImplementTypeOK
  <2>3. job' \in [Proc -> Job] /\ job'[p] = Idle /\ Frame(p)
    BY <2>1, <2>2, IdleIsJob, SetFacts DEF ImplementTypeOK
  <2> QED
    BY <1>0, <2>1, <2>2, <2>3 DEF StepOf
<1>2. ASSUME Acknowledge(p) PROVE StepOf(p)
  BY <1>0, <1>2, IdleIsJob, QuietSteps DEF Acknowledge
<1> QED
  BY <1>1, <1>2

\* Every step is a step of one process, of one of the kinds above.
LEMMA EveryStep ==
    ASSUME ImplementTypeOK, Next
    PROVE  \E p \in Proc : StepOf(p)
<1> SUFFICES ASSUME NEW p \in Proc, Call(p) \/ Step(p) \/ Crash(p) \/ Acknowledge(p)
             PROVE  StepOf(p)
  BY DEF Next
<1>1. CASE Call(p)
  <2>1. CASE StepCall(p) \/ StepRefused(p) \/ TriggerRefused(p)
    BY <2>1, CallSteps, RefusalSteps
  <2>2. ASSUME NEW a \in Actor,
               \/ RegisterCall(p, a)
               \/ \E t \in Task, r \in Request : TriggerCall(p, a, t, r)
               \/ \E t \in Task : \E e \in CliEvent[t] : \E v \in Reported(e) :
                     AppendCall(p, a, t, e, v)
               \/ \E t \in Task : \E v \in CliVerdict : \E c \in {{}, {t}} :
                     CloseoutCall(p, a, t, v, c)
        PROVE  StepOf(p)
    <3>1. CASE RegisterCall(p, a)
      BY <3>1, RegistrationSteps
    <3>2. CASE \E t \in Task, r \in Request : TriggerCall(p, a, t, r)
      BY <3>2, TriggerSteps
    <3>3. CASE \E t \in Task : \E e \in CliEvent[t] : \E v \in Reported(e) :
                 AppendCall(p, a, t, e, v)
      BY <3>3, AppendSteps
    <3>4. CASE \E t \in Task : \E v \in CliVerdict : \E c \in {{}, {t}} :
                 CloseoutCall(p, a, t, v, c)
      <4>1. PICK t \in Task, v \in CliVerdict : \E c \in {{}, {t}} : CloseoutCall(p, a, t, v, c)
        BY <3>4
      <4>2. PICK c \in {{}, {t}} : CloseoutCall(p, a, t, v, c)
        BY <4>1
      <4>3. c \in SUBSET Task
        BY <4>1
      <4> QED
        BY <4>2, <4>3, CloseoutCallSteps
    <3> QED
      BY <2>2, <3>1, <3>2, <3>3, <3>4
  <2>3. CASE \E a \in IF p \in Shell /\ At(p, "idle") THEN Actor ELSE {} :
               \/ RegisterCall(p, a)
               \/ \E t \in Task, r \in Request : TriggerCall(p, a, t, r)
               \/ \E t \in Task : \E e \in CliEvent[t] : \E v \in Reported(e) :
                     AppendCall(p, a, t, e, v)
               \/ \E t \in Task : \E v \in CliVerdict : \E c \in {{}, {t}} :
                     CloseoutCall(p, a, t, v, c)
    BY <2>2, <2>3
  <2> QED
    BY <1>1, <2>1, <2>3 DEF Call
<1>2. CASE Step(p)
  BY <1>2, BranchSteps, SelectSteps, StartSteps, RegistrationSteps, LineSteps, WriteSteps,
     AgentSteps, CommitSteps, QaSteps, CloseoutSteps, GateSteps DEF Step
<1>3. CASE Crash(p) \/ Acknowledge(p)
  BY <1>3, EndSteps
<1> QED
  BY <1>1, <1>2, <1>3
-------------------------------------------------------------------------------
(***************************************************************************)
(* What a line does to the ledger.                                         *)
(***************************************************************************)
LEMMA LineEffect ==
    ASSUME ImplementTypeOK, NEW p \in Proc, Writes(p)
    PROVE  LET t == job[p].task  e == job[p].event IN
           /\ t \in Task /\ e \in TaskEvent /\ job[p].call \in Tool
           /\ \A u \in Task \ {t} : ts'[u] = ts[u]
           /\ ts'[t].seen = ts[t].seen \cup {e}
           /\ ts'[t].last = e
           /\ ts'[t].owner = IF e = "task_started" THEN job[p].actor ELSE ts[t].owner
           /\ ts'[t].ci = IF e = "ci_completed" THEN job[p].verdict ELSE ts[t].ci
           /\ ts'[t].verdict = IF e = "qa_verdict" THEN job[p].verdict ELSE ts[t].verdict
           /\ bad => bad'
           /\ ~bad' => ~bad /\ ~Refused(t, e, job[p].actor)
<1> DEFINE r == job[p]
           t == r.task
           s == ts[t]
<1>1. r \in Job /\ JobShape(r) /\ r.pc = "write"
      /\ AppendLine(r.task, r.event, r.actor, r.verdict, r.attempt)
  BY DEF Writes, ImplementTypeOK
<1>2. t \in Task /\ r.event \in TaskEvent /\ r.call \in Tool
  BY <1>1 DEF JobShape, HasTask
<1>3. bad' = (bad \/ Refused(t, r.event, r.actor)) /\ bad \in BOOLEAN
  BY <1>1 DEF AppendLine, ImplementTypeOK
<1>4. ts' = Replayed(t, r.event, r.actor, r.verdict) /\ ts \in [Task -> TaskState]
  BY <1>1 DEF AppendLine, ImplementTypeOK
<1> HIDE DEF r
<1>5. \A u \in Task \ {t} : ts'[u] = ts[u]
  BY <1>2, <1>4 DEF Replayed
<1>6. s \in TaskState
  BY <1>2, <1>4
<1>7. /\ ts'[t].seen = s.seen \cup {r.event}
      /\ ts'[t].last = r.event
      /\ ts'[t].owner = IF r.event = "task_started" THEN r.actor ELSE s.owner
      /\ ts'[t].ci = IF r.event = "ci_completed" THEN r.verdict ELSE s.ci
      /\ ts'[t].verdict = IF r.event = "qa_verdict" THEN r.verdict ELSE s.verdict
  BY <1>2, <1>4, <1>6 DEF Replayed, TaskState
<1> QED
  BY <1>2, <1>3, <1>5, <1>7 DEF r

\* A task that is started, or closed, stays so.
LEMMA OnlyMore ==
    ASSUME ImplementTypeOK, NEW p \in Proc, StepOf(p), NEW t \in Task
    PROVE  /\ ts[t].seen \subseteq ts'[t].seen
           /\ IsStarted(t) => IsStarted(t)'
           /\ IsClosed(t) => IsClosed(t)'
           /\ IsRegistered(t) => IsRegistered(t)'
<1>1. CASE Writes(p)
  BY <1>1, LineEffect DEF IsStarted, IsClosed, IsRegistered
<1>2. CASE ~Writes(p)
  BY <1>2 DEF StepOf, IsStarted, IsClosed, IsRegistered
<1> QED
  BY <1>1, <1>2

LEMMA TypeStep ==
    ASSUME ImplementTypeOK, NEW p \in Proc, StepOf(p)
    PROVE  ImplementTypeOK'
<1>1. /\ ts' \in [Task -> TaskState] /\ active' \in [Actor -> Task \cup {None}]
      /\ bad' \in BOOLEAN /\ attempt' \in [Task -> 1 .. MaxAttempt]
      /\ ungated' \subseteq Task
  <2>1. CASE Writes(p)
    <3> DEFINE r == job[p]
    <3>1. r \in Job /\ JobShape(r) /\ r.pc = "write"
          /\ AppendLine(r.task, r.event, r.actor, r.verdict, r.attempt)
      BY <2>1 DEF Writes, ImplementTypeOK
    <3>2. /\ r.task \in Task /\ r.event \in TaskEvent /\ r.actor \in Actor
          /\ r.verdict \in Verdict \cup {None} /\ r.attempt \in 0 .. MaxAttempt
      BY <3>1 DEF JobShape, HasTask, Job
    <3>3. ungated' \subseteq Task
      BY <2>1, <3>2 DEF Writes, ImplementTypeOK
    <3> QED
      BY <3>1, <3>2, <3>3, TypedLine
  <2>2. CASE ~Writes(p)
    BY <2>2 DEF StepOf, ImplementTypeOK
  <2> QED
    BY <2>1, <2>2
<1>2. \A q \in Proc : JobShape(job'[q])
  <2>1. ASSUME NEW q \in Proc \ {p} PROVE JobShape(job'[q])
    <3>1. JobShape(job[q]) /\ job'[q].pc = job[q].pc /\ Keep(job[q], job'[q])
      BY <2>1 DEF ImplementTypeOK, StepOf, Frame
    <3>2. CallShape(job'[q])
      BY <3>1 DEF JobShape, CallShape, Keep
    <3> QED
      BY <3>1, <3>2 DEF JobShape, Keep
  <2> QED
    BY <2>1 DEF StepOf
<1>3. mark' \subseteq Task
  <2>1. job[p].lines \subseteq Task /\ (job[p].pc = "stamp" => job[p].task \in Task)
    BY DEF ImplementTypeOK, Job, JobShape, HasTask
  <2> QED
    BY <2>1 DEF StepOf, Marks, ImplementTypeOK
<1>4. plog' \in [{"feature"} -> Seq(Line)]
  <2>1. [event |-> Completed, phase |-> "implement"] \in Line
    BY DEF Line, Completed
  <2>2. plog["feature"] \in Seq(Line)
    BY DEF ImplementTypeOK
  <2>3. Append(plog["feature"], [event |-> Completed, phase |-> "implement"]) \in Seq(Line)
    BY <2>1, <2>2
  <2>4. Records(p) /\ plog \in [{"feature"} -> Seq(Line)]
    BY DEF StepOf, ImplementTypeOK
  <2> QED
    BY <2>3, <2>4 DEF Records
<1> QED
  BY <1>1, <1>2, <1>3, <1>4 DEF StepOf, FilesTyped, ImplementTypeOK
-------------------------------------------------------------------------------
(***************************************************************************)
(* Who is at work on a task.                                               *)
(***************************************************************************)
\* While the ledger is valid, who is at work on a task is its owner.
Owned ==
    ~bad => \A p \in Proc : AtWork(p) \/ At(p, "reread") =>
        IsStarted(job[p].task) /\ ts[job[p].task].owner = Me(p)

OnePerTask ==
    \A p, q \in Proc : AtWork(p) /\ AtWork(q) /\ job[p].task = job[q].task => Me(p) = Me(q)

LEMMA OwnedStep ==
    ASSUME ImplementTypeOK, Owned, NEW p \in Proc, StepOf(p)
    PROVE  Owned'
<1> SUFFICES ASSUME ~bad', NEW q \in Proc, AtWork(q)' \/ At(q, "reread")'
             PROVE  /\ IsStarted(job[q].task)'
                    /\ ts'[job'[q].task].owner = job'[q].actor
  BY DEF Owned, Me
<1>0. ~bad
  <2>1. CASE Writes(p)
    BY <2>1, LineEffect
  <2>2. CASE ~Writes(p)
    BY <2>2 DEF StepOf
  <2> QED
    BY <2>1, <2>2
<1>1. CASE q # p
  <2>1. /\ job'[q].pc = job[q].pc /\ job'[q].task = job[q].task
        /\ job'[q].actor = job[q].actor
    BY <1>1 DEF StepOf, Frame, Keep
  <2>2. AtWork(q) \/ At(q, "reread")
    BY <2>1 DEF AtWork, At
  <2>3. IsStarted(job[q].task) /\ ts[job[q].task].owner = job[q].actor
    BY <1>0, <2>2 DEF Owned, Me
  <2>4. job[q].task \in Task
    BY <2>2 DEF AtWork, At, ImplementTypeOK, JobShape, HasTask
  <2>5. ts'[job[q].task].owner = ts[job[q].task].owner
    <3>1. CASE Writes(p)
      <4>1. CASE job[p].event = "task_started"
        <5>1. ~IsStarted(job[p].task)
          BY <3>1, <4>1, LineEffect DEF Refused, OutOfOrder
        <5> QED
          BY <2>3, <2>4, <3>1, <5>1, LineEffect
      <4>2. CASE job[p].event # "task_started"
        BY <2>4, <3>1, <4>2, LineEffect
      <4> QED
        BY <4>1, <4>2
    <3>2. CASE ~Writes(p)
      BY <3>2 DEF StepOf
    <3> QED
      BY <3>1, <3>2
  <2> QED
    BY <2>1, <2>3, <2>4, <2>5, OnlyMore DEF IsStarted
<1>2. CASE q = p
  <2>1. CASE Writes(p)
    <3> DEFINE r == job[p]
    <3>1. job'[p].pc = Follow[r.call] /\ Keep(r, job'[p]) /\ r.call \in Tool /\ JobShape(r)
      BY <2>1, LineEffect DEF Writes, ImplementTypeOK
    <3>2. r.call = "start"
      BY <1>2, <3>1 DEF Follow, Tool, AtWork, At
    <3>3. r.event = "task_started"
      BY <3>1, <3>2 DEF JobShape, CallShape
    <3>4. job'[p].task = r.task /\ job'[p].actor = r.actor
      BY <3>1 DEF Keep
    <3>5. ts'[r.task].owner = r.actor /\ "task_started" \in ts'[r.task].seen
      BY <2>1, <3>3, LineEffect
    <3> QED
      BY <1>2, <3>4, <3>5 DEF IsStarted
  <2>2. CASE ~Writes(p)
    <3> DEFINE j == job[p]
               n == job'[p]
    <3>1. ts' = ts /\ Moves(j, n)
      BY <2>2 DEF StepOf
    <3>2. n.pc \in {"attempt", "agent", "stage", "commit", "sha", "payload", "qa", "reread"}
      BY <1>2 DEF AtWork, At
    <3> HIDE DEF j, n
    <3>3. \/ IsStarted(n.task) /\ ts[n.task].owner = n.actor
          \/ /\ n.task = j.task /\ n.actor = j.actor
             /\ j.pc \in {"attempt", "agent", "stage", "commit", "sha", "payload", "qa",
                          "reread"}
      BY <3>1, <3>2 DEF Moves, Rests, Begins, Selects, Walks, Starts, Attempts, Takes, Works,
         Stages, Commits, Shas, Pays, Passes, Retries, Closes, Keep, SameTask
    <3>4. IsStarted(n.task) /\ ts[n.task].owner = n.actor
      BY <1>0, <3>3 DEF Owned, AtWork, At, Me, j
    <3> QED
      BY <1>2, <3>1, <3>4 DEF IsStarted, n
  <2> QED
    BY <2>1, <2>2
<1> QED
  BY <1>1, <1>2

LEMMA OnePerTaskStep ==
    ASSUME ImplementTypeOK, Owned, OnePerTask, NEW p \in Proc, StepOf(p)
    PROVE  OnePerTask'
<1> DEFINE Working == {"attempt", "agent", "stage", "commit", "sha", "payload", "qa"}
<1>1. ASSUME NEW q \in Proc \ {p}, AtWork(q)'
      PROVE  AtWork(q) /\ job'[q].task = job[q].task /\ job'[q].actor = job[q].actor
  BY <1>1 DEF StepOf, Frame, Keep, AtWork
<1>2. ASSUME AtWork(p)'
      PROVE  \/ /\ AtWork(p) /\ job'[p].task = job[p].task /\ job'[p].actor = job[p].actor
             \/ ~bad /\ ts[job'[p].task].owner = job'[p].actor
  <2> DEFINE j == job[p]
             n == job'[p]
  <2>1. n.pc \in Working
    BY <1>2 DEF AtWork
  <2>2. ~Writes(p)
    <3>1. SUFFICES ASSUME Writes(p) PROVE FALSE
      OBVIOUS
    <3>2. n.pc = Follow[j.call] /\ j.call \in Tool
      BY <3>1, LineEffect DEF Writes
    <3> QED
      BY <2>1, <3>2 DEF Follow, Tool
  <2>3. Moves(j, n)
    BY <2>2 DEF StepOf
  <2> HIDE DEF j, n
  <2>4. \/ ~bad /\ ts[n.task].owner = n.actor
        \/ ~bad /\ j.pc = "reread" /\ n.task = j.task /\ n.actor = j.actor
        \/ n.task = j.task /\ n.actor = j.actor /\ j.pc \in Working
    BY <2>1, <2>3 DEF Moves, Rests, Begins, Selects, Walks, Starts, Attempts, Takes, Works,
       Stages, Commits, Shas, Pays, Passes, Retries, Closes, Keep, SameTask
  <2>5. ~bad /\ j.pc = "reread" => ts[j.task].owner = j.actor
    BY DEF Owned, At, Me, j
  <2> QED
    BY <2>4, <2>5 DEF AtWork, j, n
<1>3. ASSUME ~bad, NEW q \in Proc, AtWork(q)
      PROVE  ts[job[q].task].owner = job[q].actor
  BY <1>3 DEF Owned, Me
<1>4. ASSUME NEW q \in Proc \ {p}, AtWork(q)', AtWork(p)', job'[p].task = job'[q].task
      PROVE  job'[p].actor = job'[q].actor
  <2>1. AtWork(q) /\ job'[q].task = job[q].task /\ job'[q].actor = job[q].actor
    BY <1>1, <1>4
  <2>2. CASE AtWork(p) /\ job'[p].task = job[p].task /\ job'[p].actor = job[p].actor
    BY <1>4, <2>1, <2>2 DEF OnePerTask, Me
  <2>3. CASE ~bad /\ ts[job'[p].task].owner = job'[p].actor
    BY <1>3, <1>4, <2>1, <2>3
  <2> QED
    BY <1>2, <1>4, <2>2, <2>3
<1>5. ASSUME NEW q \in Proc \ {p}, NEW o \in Proc \ {p}, AtWork(q)', AtWork(o)',
             job'[q].task = job'[o].task
      PROVE  job'[q].actor = job'[o].actor
  BY <1>1, <1>5 DEF OnePerTask, Me
<1> QED
  BY <1>4, <1>5 DEF OnePerTask, Me
-------------------------------------------------------------------------------
(***************************************************************************)
(* What is ticked is closed: a closeout that QA has passed still has the   *)
(* task_closed to append, or has appended it.                              *)
(***************************************************************************)
Backed(r) ==
    /\ \A t \in r.lines : IsClosed(t)
    /\ r.call = "closeout" /\ r.verdict = "pass" =>
         /\ r.pc \in {"hook", "next", "validate", "write"} =>
              \/ IsClosed(r.task) \/ "task_closed" \in r.todo
              \/ r.pc \in {"validate", "write"} /\ r.event = "task_closed"
         /\ r.pc = "stamp" => IsClosed(r.task)

TicksBacked == (\A t \in mark : IsClosed(t)) /\ \A p \in Proc : Backed(job[p])

LEMMA TicksStep ==
    ASSUME ImplementTypeOK, TicksBacked, NEW p \in Proc, StepOf(p)
    PROVE  TicksBacked'
<1> DEFINE j == job[p]
           n == job'[p]
<1>0. /\ j \in Job /\ JobShape(j) /\ Backed(j) /\ mark \subseteq Task
      /\ n \in Job /\ JobShape(n)
  BY DEF ImplementTypeOK, TicksBacked, StepOf
<1>1. ASSUME NEW t \in mark' PROVE IsClosed(t)'
  <2>1. t \in mark \/ (j.pc = "stamp" /\ j.verdict = "pass" /\ t \in j.lines \cup {j.task})
    BY <1>1 DEF StepOf, Marks
  <2>2. IsClosed(t)
    BY <1>0, <2>1 DEF TicksBacked, Backed, JobShape
  <2>3. t \in Task
    BY <1>0, <2>1 DEF JobShape, HasTask, Job
  <2> QED
    BY <2>2, <2>3, OnlyMore
<1>2. ASSUME NEW q \in Proc \ {p} PROVE Backed(job[q])'
  <2>1. Keep(job[q], job'[q]) /\ job'[q].pc = job[q].pc /\ Backed(job[q])
    BY <1>2 DEF StepOf, Frame, TicksBacked
  <2>2. job[q].lines \subseteq Task
    BY <1>2 DEF ImplementTypeOK, Job
  <2>3. job[q].pc \in {"hook", "next", "validate", "write", "stamp"} => job[q].task \in Task
    BY <1>2 DEF ImplementTypeOK, JobShape, HasTask
  <2> QED
    BY <2>1, <2>2, <2>3, OnlyMore DEF Backed, Keep
<1>3. CASE Writes(p)
  <2>1. n.pc = Follow[j.call] /\ Keep(j, n) /\ j.call \in Tool /\ j.pc = "write"
    BY <1>3, LineEffect DEF Writes
  <2>2. \A t \in n.lines : IsClosed(t)'
    BY <1>0, <2>1, OnlyMore DEF Backed, Keep, Job
  <2>3. ASSUME n.call = "closeout", n.verdict = "pass"
        PROVE  n.pc = "hook" /\ "task_closed" \in ts'[n.task].seen \cup n.todo
    <3>1. n.pc = "hook" /\ j.task \in Task
      BY <1>0, <2>1, <2>3 DEF Follow, Keep, JobShape, HasTask
    <3>2. IsClosed(j.task) \/ "task_closed" \in j.todo \/ j.event = "task_closed"
      BY <1>0, <2>1, <2>3 DEF Backed, Keep
    <3>3. CASE j.event = "task_closed"
      <4>1. "task_closed" \in ts'[j.task].seen
        BY <1>3, <3>3, LineEffect
      <4> QED
        BY <2>1, <3>1, <4>1 DEF Keep
    <3>4. CASE IsClosed(j.task)
      BY <2>1, <3>1, <3>4, OnlyMore DEF IsClosed, Keep
    <3> QED
      BY <2>1, <3>1, <3>2, <3>3, <3>4 DEF Keep
  <2>4. Backed(job[p])'
    BY <2>2, <2>3 DEF Backed, IsClosed
  <2> QED
    BY <1>1, <1>2, <2>4 DEF TicksBacked
<1>4. CASE ~Writes(p)
  <2>1. ts' = ts /\ Moves(j, n)
    BY <1>4 DEF StepOf
  <2>2. \A t : IsClosed(t)' = IsClosed(t)
    BY <2>1 DEF IsClosed
  <2>3. \A t \in mark : IsClosed(t)
    BY DEF TicksBacked
  <2> HIDE DEF j, n
  <2>4. n.lines \in {{}, j.lines, mark}
    BY <2>1 DEF Moves, Rests, Begins, Fresh, Selects, Walks, Starts, Attempts, Takes, Works,
       Stages, Commits, Shas, Pays, Passes, Retries, Closes, Keep, SameTask
  <2>5. \A t \in n.lines : IsClosed(t)
    BY <1>0, <2>3, <2>4 DEF Backed
  <2>6. ASSUME n.call = "closeout", n.verdict = "pass",
               n.pc \in {"hook", "next", "validate", "write"}
        PROVE  \/ IsClosed(n.task) \/ "task_closed" \in n.todo
               \/ n.pc \in {"validate", "write"} /\ n.event = "task_closed"
    <3>1. \/ Walks(j, n) /\ j.pc = "validate" /\ n.pc = "write"
          \/ Walks(j, n) /\ j.pc = "hook" /\ n.pc = "next"
          \/ Takes(j, n) \/ Closes(j, n)
      BY <2>1, <2>6 DEF Moves, Rests, Begins, Selects, Walks, Starts, Attempts, Takes, Works,
         Stages, Commits, Shas, Pays, Passes, Retries, Closes
    <3>2. CASE /\ Walks(j, n)
               /\ \/ j.pc = "hook" /\ n.pc = "next"
                  \/ j.pc = "validate" /\ n.pc = "write"
      BY <1>0, <2>6, <3>2 DEF Walks, Keep, Backed
    <3>3. CASE Takes(j, n)
      BY <1>0, <2>6, <3>3 DEF Takes, SameTask, Backed
    <3>4. CASE Closes(j, n)
      BY <2>6, <3>4 DEF Closes, IsClosed
    <3> QED
      BY <3>1, <3>2, <3>3, <3>4
  <2>7. ASSUME n.call = "closeout", n.verdict = "pass", n.pc = "stamp"
        PROVE  IsClosed(n.task)
    <3>1. Walks(j, n) /\ j.pc = "next" /\ j.todo = {}
      BY <2>1, <2>7 DEF Moves, Rests, Begins, Selects, Walks, Starts, Attempts, Takes, Works,
         Stages, Commits, Shas, Pays, Passes, Retries, Closes
    <3> QED
      BY <1>0, <2>7, <3>1 DEF Walks, Keep, Backed
  <2>8. Backed(job[p])'
    BY <2>2, <2>5, <2>6, <2>7 DEF Backed, n
  <2> QED
    BY <1>1, <1>2, <2>8 DEF TicksBacked
<1> QED
  BY <1>3, <1>4
-------------------------------------------------------------------------------
(***************************************************************************)
(* The feature is recorded as implemented when every task is closed.       *)
(***************************************************************************)
AllClosed == \A t \in Task : IsClosed(t)

Completing ==
    /\ \A p \in Proc : job[p].pc \in {"assert_phase", "emit", "emit_write"} => AllClosed
    /\ CompletedIsClosed

LEMMA CompletingStep ==
    ASSUME ImplementTypeOK, Completing, NEW p \in Proc, StepOf(p)
    PROVE  Completing'
<1> DEFINE j == job[p]
           n == job'[p]
           Ending == {"assert_phase", "emit", "emit_write"}
<1>1. AllClosed => AllClosed'
  BY OnlyMore DEF AllClosed
<1>2. ASSUME NEW q \in Proc \ {p}, job'[q].pc \in Ending PROVE AllClosed'
  BY <1>1, <1>2 DEF StepOf, Frame, Completing
<1>3. ASSUME n.pc \in Ending PROVE AllClosed'
  <2>1. ~Writes(p)
    <3>1. SUFFICES ASSUME Writes(p) PROVE FALSE
      OBVIOUS
    <3>2. n.pc = Follow[j.call] /\ j.call \in Tool
      BY <3>1, LineEffect DEF Writes
    <3> QED
      BY <1>3, <3>2 DEF Follow, Tool
  <2>2. Moves(j, n)
    BY <2>1 DEF StepOf
  <2>3. j.pc \in Ending => AllClosed
    BY DEF Completing
  <2> HIDE DEF j, n
  <2>4. j.pc \in Ending \/ \A t \in Task : IsClosed(t)
    BY <1>3, <2>2 DEF Moves, Rests, Begins, Selects, Walks, Starts, Attempts, Takes, Works,
       Stages, Commits, Shas, Pays, Passes, Retries, Closes
  <2> QED
    BY <1>1, <2>3, <2>4 DEF AllClosed
<1>4. CompletedIsClosed'
  <2>1. CASE plog' = plog
    BY <1>1, <2>1 DEF Completing, CompletedIsClosed, AllClosed
  <2>2. CASE plog' # plog
    <3>1. j.pc = "emit_write"
      BY <2>2 DEF StepOf, Records
    <3>2. AllClosed'
      BY <1>1, <3>1 DEF Completing
    <3> QED
      BY <3>2 DEF CompletedIsClosed, AllClosed
  <2> QED
    BY <2>1, <2>2
<1> QED
  BY <1>2, <1>3, <1>4 DEF Completing
-------------------------------------------------------------------------------
(***************************************************************************)
(* The order of tasks.md.                                                  *)
(***************************************************************************)
LEMMA Positions ==
    ASSUME NEW t \in Task
    PROVE  Position(t) \in 1 .. Cardinality(Task) /\ Order[Position(t)] = t
<1>1. DOMAIN Order = 1 .. Cardinality(Task)
  OBVIOUS
<1>2. \E i \in DOMAIN Order : Order[i] = t
  OBVIOUS
<1> QED
  BY <1>1, <1>2 DEF Position

\* Of two tasks one is before the other, unless they are the same.
LEMMA Ordered ==
    ASSUME NEW t \in Task, NEW u \in Task, t # u
    PROVE  t \in Before(u) \/ u \in Before(t)
<1>1. Cardinality(Task) \in Nat
  BY FS_CardinalityType
<1>2. /\ Position(t) \in 1 .. Cardinality(Task) /\ Order[Position(t)] = t
      /\ Position(u) \in 1 .. Cardinality(Task) /\ Order[Position(u)] = u
  BY Positions
<1>3. Position(t) \in 1 .. Position(u) - 1 \/ Position(u) \in 1 .. Position(t) - 1
  BY <1>1, <1>2
<1> QED
  BY <1>2, <1>3 DEF Before

LEMMA PriorsAreTasks ==
    ASSUME NEW t \in Task
    PROVE  Priors(t) \subseteq Task
<1>1. Cardinality(Task) \in Nat
  BY FS_CardinalityType
<1>2. Position(t) \in 1 .. Cardinality(Task)
  BY Positions
<1>3. \A i \in 1 .. Position(t) - 1 : Order[i] \in Task
  BY <1>1, <1>2
<1> QED
  BY <1>3 DEF Priors, Before

\* A task is started through the gate, or about to be, when those it waits for
\* are closed.
Waits ==
    /\ \A t \in Task \ ungated : IsStarted(t) => \A u \in Priors(t) : IsClosed(u)
    /\ \A p \in Proc : job[p].pc \in {"validate", "write"} /\ job[p].call = "start" =>
          \A u \in Priors(job[p].task) : IsClosed(u)

LEMMA WaitsIsOrder == ASSUME Waits PROVE OrderIsKept
<1> SUFFICES ASSUME NEW t \in Task \ ungated, IsOpen(t), t \notin Parallel,
                    NEW u \in Task \ ({t} \cup ungated), IsOpen(u)
             PROVE  FALSE
  BY DEF Waits, OrderIsKept
<1>1. IsStarted(t) /\ IsStarted(u) /\ ~IsClosed(t) /\ ~IsClosed(u)
  BY DEF IsOpen
<1>2. t \in Priors(u) \/ u \in Priors(t)
  BY Ordered DEF Priors
<1> QED
  BY <1>1, <1>2 DEF Waits

LEMMA WaitsStep ==
    ASSUME ImplementTypeOK, Waits, NEW p \in Proc, StepOf(p)
    PROVE  Waits'
<1> DEFINE j == job[p]
           n == job'[p]
<1>0. ASSUME NEW t \in Task, \A u \in Priors(t) : IsClosed(u)
      PROVE  \A u \in Priors(t) : IsClosed(u)'
  BY <1>0, PriorsAreTasks, OnlyMore
<1>1. ASSUME NEW t \in Task, t \notin ungated', IsStarted(t)'
      PROVE  \A u \in Priors(t) : IsClosed(u)'
  <2>0. t \notin ungated
    BY <1>1 DEF StepOf, Writes
  <2>1. CASE IsStarted(t)
    BY <1>0, <2>0, <2>1 DEF Waits
  <2>2. CASE ~IsStarted(t)
    <3>1. Writes(p)
      BY <1>1, <2>2 DEF StepOf, IsStarted
    <3>2. j.task = t /\ j.event = "task_started" /\ j.pc = "write" /\ j.call \in Tool
      <4>1. j.pc = "write"
        BY <3>1 DEF Writes
      <4> QED
        BY <1>1, <2>2, <3>1, <4>1, LineEffect DEF IsStarted
    <3>3. j.call # "append"
      BY <1>1, <3>1, <3>2 DEF Writes
    <3>4. JobShape(j)
      BY DEF ImplementTypeOK
    <3>5. j.call = "start"
      BY <3>2, <3>3, <3>4 DEF JobShape, CallShape, Tool
    <3> QED
      BY <1>0, <3>2, <3>5 DEF Waits
  <2> QED
    BY <2>1, <2>2
<1>2. ASSUME NEW q \in Proc \ {p}, job'[q].pc \in {"validate", "write"},
             job'[q].call = "start"
      PROVE  \A u \in Priors(job'[q].task) : IsClosed(u)'
  <2>1. /\ job[q].pc \in {"validate", "write"} /\ job[q].call = "start"
        /\ job'[q].task = job[q].task
    BY <1>2 DEF StepOf, Frame, Keep
  <2>2. job[q].task \in Task
    BY <1>2, <2>1 DEF ImplementTypeOK, JobShape, HasTask
  <2> QED
    BY <1>0, <1>2, <2>1, <2>2 DEF Waits
<1>3. ASSUME n.pc \in {"validate", "write"}, n.call = "start"
      PROVE  \A u \in Priors(n.task) : IsClosed(u)'
  <2>1. ~Writes(p)
    <3>1. SUFFICES ASSUME Writes(p) PROVE FALSE
      OBVIOUS
    <3>2. n.pc = Follow[j.call] /\ j.call \in Tool
      BY <3>1, LineEffect DEF Writes
    <3> QED
      BY <1>3, <3>2 DEF Follow, Tool
  <2>2. Moves(j, n) /\ JobShape(j) /\ JobShape(n)
    BY <2>1 DEF StepOf, ImplementTypeOK
  <2>3. j.pc = "validate" /\ j.call = "start" => \A u \in Priors(j.task) : IsClosed(u)
    BY DEF Waits
  <2> HIDE DEF j, n
  <2>4. n.task \in Task
    BY <1>3, <2>2 DEF JobShape, HasTask
  <2>5. \/ \A u \in Priors(n.task) : IsClosed(u)
        \/ j.pc = "validate" /\ j.call = "start" /\ n.task = j.task
    BY <1>3, <2>2 DEF Moves, Rests, Begins, Selects, Walks, Starts, Attempts, Takes, Works,
       Stages, Commits, Shas, Pays, Passes, Retries, Closes, Keep, JobShape
  <2>6. \A u \in Priors(n.task) : IsClosed(u)
    BY <2>3, <2>5
  <2> QED
    BY <1>0, <2>4, <2>6
<1> QED
  BY <1>1, <1>2, <1>3 DEF Waits
-------------------------------------------------------------------------------
(***************************************************************************)
(* The life of a task of the new protocol, in the table of the events.     *)
(***************************************************************************)
LEMMA Table ==
    /\ Predecessors["pr_opened"] = {"commit_created", "pr_opened"}
    /\ Predecessors["ci_completed"] = {"commit_created", "pr_opened"}
    /\ Predecessors["qa_verdict"] = {"ci_completed"}
    /\ Predecessors["merge_approved"] = {"qa_verdict"}
    /\ Predecessors["merged"] = {"merge_approved"}
BY DEF Predecessors

LEMMA Ends ==
    ASSUME NEW e \in TaskEvent
    PROVE  /\ "task_closed" \notin Predecessors[e]
           /\ "merged" \in Predecessors[e] => e = "task_closed"
           /\ "offline_qa_failed" \in Predecessors[e] => e = "fix_started"
BY DEF TaskEvent, Predecessors

Checked == {"commit_created", "ci_completed"}

Lived(s) ==
    /\ s.last # None => s.last \in s.seen
    /\ s.last = "pr_opened" => "commit_created" \in s.seen
    /\ s.last = "ci_completed" => "commit_created" \in s.seen
    /\ s.last \in {"qa_verdict", "merge_approved"} => s.ci = "pass" /\ Checked \subseteq s.seen
    /\ s.last = "merge_approved" => s.verdict = "pass"
    /\ "merged" \in s.seen =>
         /\ s.last \in {"merged", "task_closed"} /\ s.ci = "pass" /\ s.verdict = "pass"
         /\ Checked \subseteq s.seen /\ "merge_approved" \in s.seen
    /\ "task_closed" \in s.seen =>
         /\ s.last = "task_closed" /\ s.seen \cap Evidence # {}
         /\ {"quality_guards_passed", "functional_goal_achieved"} \subseteq s.seen
    /\ "offline_qa_failed" \in s.seen =>
         s.last = "offline_qa_failed" \/ "fix_started" \in s.seen

LedgerLived == ~bad => \A t \in V2 : Lived(ts[t])

LEMMA NextLine ==
    ASSUME NEW t \in V2, NEW e \in TaskEvent, NEW s, Lived(ts[t]), ~Unearned(t, e),
           ts[t].last \in Predecessors[e],
           s.seen = ts[t].seen \cup {e}, s.last = e,
           e # "ci_completed" => s.ci = ts[t].ci,
           e # "qa_verdict" => s.verdict = ts[t].verdict
    PROVE  Lived(s)
<1> DEFINE o == ts[t]
<1>1. o.last # None \/ e \in {"task_registered", "task_started"}
  BY DEF TaskEvent, Predecessors
<1>2. s.last = "pr_opened" => "commit_created" \in s.seen
  BY <1>1, Table DEF Lived
<1>3. s.last = "ci_completed" => "commit_created" \in s.seen
  BY <1>1, Table DEF Lived
<1>4. s.last = "qa_verdict" => s.ci = "pass" /\ Checked \subseteq s.seen
  BY <1>1, Table DEF Lived, Unearned, Checked
<1>5. s.last = "merge_approved" =>
        s.verdict = "pass" /\ s.ci = "pass" /\ Checked \subseteq s.seen
  BY <1>1, Table DEF Lived, Unearned, Checked
<1>6. "merged" \in s.seen =>
        /\ s.last \in {"merged", "task_closed"} /\ s.ci = "pass" /\ s.verdict = "pass"
        /\ Checked \subseteq s.seen /\ "merge_approved" \in s.seen
  <2>1. CASE e = "merged"
    <3>1. o.last = "merge_approved" /\ o.last \in o.seen
      BY <1>1, <2>1, Table DEF Lived
    <3> QED
      BY <2>1, <3>1 DEF Lived
  <2>2. CASE e # "merged" /\ "merged" \in s.seen
    <3>1. "merged" \in o.seen
      BY <2>2
    <3>2. e = "task_closed"
      BY <3>1, Ends DEF Lived
    <3> QED
      BY <3>1, <3>2 DEF Lived
  <2> QED
    BY <2>1, <2>2
<1>7. "task_closed" \in s.seen =>
        /\ s.last = "task_closed" /\ s.seen \cap Evidence # {}
        /\ {"quality_guards_passed", "functional_goal_achieved"} \subseteq s.seen
  <2>1. "task_closed" \notin o.seen
    BY Ends DEF Lived
  <2>2. CASE e = "task_closed"
    BY <2>2 DEF Unearned
  <2> QED
    BY <2>1, <2>2
<1>8. "offline_qa_failed" \in s.seen =>
        s.last = "offline_qa_failed" \/ "fix_started" \in s.seen
  BY Ends DEF Lived
<1> QED
  BY <1>2, <1>3, <1>4, <1>5, <1>6, <1>7, <1>8 DEF Lived

LEMMA LivedStep ==
    ASSUME ImplementTypeOK, LedgerLived, NEW p \in Proc, StepOf(p)
    PROVE  LedgerLived'
<1> SUFFICES ASSUME ~bad', NEW t \in V2 PROVE Lived(ts'[t])
  BY DEF LedgerLived
<1>1. CASE Writes(p)
  <2> DEFINE j == job[p]
  <2>1. ~bad /\ ~Refused(j.task, j.event, j.actor) /\ j.event \in TaskEvent /\ j.task \in Task
    BY <1>1, LineEffect
  <2>2. Lived(ts[t])
    BY <2>1 DEF LedgerLived
  <2>3. CASE t = j.task
    <3>1. /\ ts'[t].seen = ts[t].seen \cup {j.event} /\ ts'[t].last = j.event
          /\ j.event # "ci_completed" => ts'[t].ci = ts[t].ci
          /\ j.event # "qa_verdict" => ts'[t].verdict = ts[t].verdict
      BY <1>1, <2>3, LineEffect
    <3>2. ~Unearned(t, j.event) /\ ts[t].last \in Predecessors[j.event]
      BY <2>1, <2>3 DEF Refused
    <3> HIDE DEF j
    <3> QED
      BY <2>1, <2>2, <3>1, <3>2, NextLine
  <2>4. CASE t # j.task
    BY <1>1, <2>2, <2>4, LineEffect
  <2> QED
    BY <2>3, <2>4
<1>2. CASE ~Writes(p)
  BY <1>2 DEF StepOf, LedgerLived
<1> QED
  BY <1>1, <1>2
-------------------------------------------------------------------------------
(***************************************************************************)
(* What QA is given.  A worker that has been alone with the work tree      *)
(* since the agent's first round finds there what it left itself.          *)
(***************************************************************************)
\* With the agent in its first round a worker is not known to be alone; later
\* rounds keep the payload of the first.
Rounds(r) ==
    /\ r.pc \in {"assert", "validate", "write", "reread", "attempt", "hook", "next"} => r.round = 0
    /\ r.alone => r.pc \in {"agent", "stage", "commit", "sha", "payload", "qa", "closeout"}
    /\ r.pc = "agent" /\ r.round = 0 => ~r.alone
    /\ r.pc \in Handling /\ (r.round # 0 \/ r.pc = "qa") => <<r.task, r.attempt>> \in payload

\* Where the task's files are.
Carried(r) ==
    r.alone /\ r.round = 0 =>
        /\ r.pc = "stage" => r.task \in dirty
        /\ r.pc = "commit" => dirty = {} /\ r.task \in staged
        /\ r.pc \in {"sha", "payload"} => dirty = {} /\ staged = {} /\ r.task \in head
        /\ r.pc = "payload" => r.commit = head

Listed(r) ==
    r.built => /\ r.pc \in {"qa", "closeout"}
               /\ r.listed = r.commit /\ r.task \in r.commit

Handed == \A p \in Proc : Rounds(job[p]) /\ Carried(job[p]) /\ Listed(job[p])

LEMMA HandedOthers ==
    ASSUME ImplementTypeOK, Handed, NEW p \in Proc, StepOf(p), NEW q \in Proc \ {p}
    PROVE  Rounds(job[q])' /\ Carried(job[q])' /\ Listed(job[q])'
<1> DEFINE j == job[q]
           n == job'[q]
<1>1. /\ n.pc = j.pc /\ Keep(j, n) /\ payload \subseteq payload'
      /\ n.alone => j.alone /\ UNCHANGED files
      /\ Rounds(j) /\ Carried(j) /\ Listed(j)
  BY DEF StepOf, Frame, Handed
<1>2. Rounds(job[q])'
  BY <1>1 DEF Rounds, Keep
<1>3. Carried(job[q])'
  BY <1>1 DEF Carried, Keep, files
<1>4. Listed(job[q])'
  BY <1>1 DEF Listed, Keep
<1> QED
  BY <1>2, <1>3, <1>4

LEMMA HandedOwn ==
    ASSUME ImplementTypeOK, Handed, NEW p \in Proc, StepOf(p)
    PROVE  Rounds(job[p])' /\ Carried(job[p])' /\ Listed(job[p])'
<1> DEFINE j == job[p]
           n == job'[p]
<1>0. /\ j \in Job /\ n \in Job /\ payload \subseteq payload' /\ JobShape(j) /\ JobShape(n)
      /\ Rounds(j) /\ Carried(j) /\ Listed(j)
  BY DEF StepOf, Handed, ImplementTypeOK
<1>1. CASE Writes(p)
  <2>1. /\ j.pc = "write" /\ n.pc \in {"reread", "register", "hook"} /\ Keep(j, n)
        /\ n.alone = j.alone
    <3>1. j.pc = "write" /\ n.pc = Follow[j.call] /\ Keep(j, n) /\ n.alone = j.alone
      BY <1>1 DEF Writes
    <3>2. j.call \in Tool
      BY <1>1, LineEffect
    <3> QED
      BY <3>1, <3>2 DEF Follow, Tool
  <2>2. Rounds(job[p])'
    BY <1>0, <2>1 DEF Rounds, Keep, Handling
  <2>3. Carried(job[p])'
    BY <1>0, <2>1 DEF Carried, Rounds
  <2>4. Listed(job[p])'
    BY <1>0, <2>1 DEF Listed, Keep
  <2> QED
    BY <2>2, <2>3, <2>4
<1>2. CASE ~Writes(p)
  <2>0. Moves(j, n)
    BY <1>2 DEF StepOf
  <2> DEFINE First == {"assert", "validate", "write", "reread", "attempt", "hook", "next"}
             Agent == {"agent", "stage", "commit", "sha", "payload", "qa", "closeout"}
  <2>1. SUFFICES /\ (n.pc \in First => n.round = 0)
                 /\ (n.alone => n.pc \in Agent)
                 /\ (n.pc = "agent" /\ n.round = 0 => ~n.alone)
                 /\ (n.pc \in Handling /\ (n.round # 0 \/ n.pc = "qa")
                       => <<n.task, n.attempt>> \in payload')
                 /\ (n.alone /\ n.round = 0 =>
                       /\ n.pc = "stage" => n.task \in dirty'
                       /\ n.pc = "commit" => dirty' = {} /\ n.task \in staged'
                       /\ n.pc \in {"sha", "payload"} =>
                            dirty' = {} /\ staged' = {} /\ n.task \in head'
                       /\ n.pc = "payload" => n.commit = head')
                 /\ Listed(n)
    BY DEF Rounds, Carried, Listed
  <2> HIDE DEF j, n
  <2>2. n.pc \in First => n.round = 0
    BY <1>0, <2>0 DEF Rounds, Moves, Rests, Begins, Fresh, Selects, Walks, Starts, Attempts,
       Takes, Works, Stages, Commits, Shas, Pays, Passes, Retries, Closes, Keep, SameTask
  <2>3. n.alone => n.pc \in Agent
    BY <1>0, <2>0 DEF Rounds, Moves, Rests, Begins, Fresh, Selects, Walks, Starts, Attempts,
       Takes, Works, Stages, Commits, Shas, Pays, Passes, Retries, Closes, Keep, SameTask
  <2>4. n.pc = "agent" /\ n.round = 0 => ~n.alone
    <3>1. CASE Attempts(j, n)
      BY <1>0, <3>1 DEF Rounds, Attempts, SameTask
    <3>2. CASE Retries(j, n)
      <4>1. j.round \in 0 .. QaRetries
        BY <1>0 DEF Job
      <4> QED
        BY <3>2, <4>1 DEF Retries
    <3>3. n.pc = "agent" => Attempts(j, n) \/ Retries(j, n)
      BY <2>0 DEF Moves, Rests, Begins, Selects, Walks, Starts, Attempts, Takes, Works,
         Stages, Commits, Shas, Pays, Passes, Retries, Closes
    <3> QED
      BY <3>1, <3>2, <3>3
  <2>5. n.pc \in Handling /\ (n.round # 0 \/ n.pc = "qa")
          => <<n.task, n.attempt>> \in payload'
    <3> SUFFICES ASSUME n.pc \in Handling, n.round # 0 \/ n.pc = "qa"
                 PROVE  <<n.task, n.attempt>> \in payload'
      OBVIOUS
    <3>1. \/ Attempts(j, n) \/ Works(j, n) \/ Stages(j, n) \/ Commits(j, n) \/ Shas(j, n)
          \/ Pays(j, n) \/ Retries(j, n)
      BY <2>0 DEF Handling, Moves, Rests, Begins, Selects, Walks, Starts, Attempts, Takes,
         Works, Stages, Commits, Shas, Pays, Passes, Retries, Closes
    <3>2. CASE Attempts(j, n)
      BY <1>0, <3>2 DEF Rounds, Attempts
    <3>3. CASE Works(j, n) \/ Stages(j, n) \/ Commits(j, n)
      BY <1>0, <3>3 DEF Rounds, Handling, Works, Stages, Commits, Keep
    <3>4. CASE Shas(j, n)
      BY <1>0, <3>4 DEF Rounds, Handling, Shas, SameTask
    <3>5. CASE Pays(j, n)
      BY <3>5 DEF Pays, SameTask
    <3>6. CASE Retries(j, n)
      BY <1>0, <3>6 DEF Rounds, Handling, Retries, SameTask
    <3> QED
      BY <3>1, <3>2, <3>3, <3>4, <3>5, <3>6
  <2>6. ASSUME n.alone, n.round = 0
        PROVE  /\ n.pc = "stage" => n.task \in dirty'
               /\ n.pc = "commit" => dirty' = {} /\ n.task \in staged'
               /\ n.pc \in {"sha", "payload"} =>
                    dirty' = {} /\ staged' = {} /\ n.task \in head'
               /\ n.pc = "payload" => n.commit = head'
    <3>1. n.pc = "stage" => Works(j, n)
      BY <2>0 DEF Moves, Rests, Begins, Selects, Walks, Starts, Attempts, Takes, Works,
         Stages, Commits, Shas, Pays, Passes, Retries, Closes
    <3>2. n.pc = "commit" => Stages(j, n)
      BY <2>0 DEF Moves, Rests, Begins, Selects, Walks, Starts, Attempts, Takes, Works,
         Stages, Commits, Shas, Pays, Passes, Retries, Closes
    <3>3. n.pc = "sha" => Commits(j, n)
      BY <2>0 DEF Moves, Rests, Begins, Selects, Walks, Starts, Attempts, Takes, Works,
         Stages, Commits, Shas, Pays, Passes, Retries, Closes
    <3>4. n.pc = "payload" => Shas(j, n)
      BY <2>0 DEF Moves, Rests, Begins, Selects, Walks, Starts, Attempts, Takes, Works,
         Stages, Commits, Shas, Pays, Passes, Retries, Closes
    <3>5. n.pc = "stage" => n.task \in dirty'
      BY <1>0, <2>6, <3>1 DEF Works, Keep, Rounds
    <3>6. n.pc = "commit" => dirty' = {} /\ n.task \in staged'
      BY <1>0, <2>6, <3>2 DEF Stages, Keep, Carried
    <3>7. n.pc = "sha" => dirty' = {} /\ staged' = {} /\ n.task \in head'
      <4> SUFFICES ASSUME n.pc = "sha"
                   PROVE  dirty' = {} /\ staged' = {} /\ n.task \in head'
        OBVIOUS
      <4>1. /\ j.alone /\ j.round = 0 /\ j.pc = "commit" /\ n.task = j.task
            /\ head' = staged /\ staged' = {} /\ dirty' = dirty
        BY <2>6, <3>3 DEF Commits, Keep
      <4>2. dirty = {} /\ j.task \in staged
        BY <1>0, <4>1 DEF Carried
      <4> QED
        BY <4>1, <4>2
    <3>8. n.pc = "payload" =>
            dirty' = {} /\ staged' = {} /\ n.task \in head' /\ n.commit = head'
      <4> SUFFICES ASSUME n.pc = "payload"
                   PROVE  dirty' = {} /\ staged' = {} /\ n.task \in head' /\ n.commit = head'
        OBVIOUS
      <4>1. /\ j.alone /\ j.round = 0 /\ j.pc = "sha" /\ n.task = j.task
            /\ n.commit = head /\ head' = head /\ staged' = staged /\ dirty' = dirty
        BY <2>6, <3>4 DEF Shas, SameTask, files
      <4>2. dirty = {} /\ staged = {} /\ j.task \in head
        BY <1>0, <4>1 DEF Carried
      <4> QED
        BY <4>1, <4>2
    <3> QED
      BY <3>5, <3>6, <3>7, <3>8
  <2>7. Listed(n)
    <3> SUFFICES ASSUME n.built
                 PROVE  /\ n.pc \in {"qa", "closeout"}
                        /\ n.listed = n.commit /\ n.task \in n.commit
      BY DEF Listed
    <3>1. Pays(j, n) \/ Passes(j, n)
      BY <1>0, <2>0 DEF Listed, Moves, Rests, Begins, Fresh, Selects, Walks, Starts, Attempts,
         Takes, Works, Stages, Commits, Shas, Pays, Passes, Retries, Closes, Keep
    <3>2. CASE Passes(j, n)
      BY <1>0, <3>2 DEF Passes, SameTask, Listed
    <3>3. CASE Pays(j, n)
      <4>1. j.pc = "payload" /\ ~j.built
        BY <1>0, <3>3 DEF Pays, Listed
      <4>2. /\ j.alone /\ n.listed = Changed /\ <<j.task, j.attempt>> \notin payload
            /\ n.commit = j.commit /\ n.task = j.task /\ n.pc = "qa"
        BY <3>3, <4>1 DEF Pays, SameTask
      <4>3. j.round = 0
        BY <1>0, <4>1, <4>2 DEF Rounds, Handling
      <4>4. dirty = {} /\ staged = {} /\ j.task \in head /\ j.commit = head
        BY <1>0, <4>1, <4>2, <4>3 DEF Carried
      <4> QED
        BY <4>2, <4>4 DEF Changed
    <3> QED
      BY <3>1, <3>2, <3>3
  <2> QED
    BY <2>1, <2>2, <2>3, <2>4, <2>5, <2>6, <2>7
<1> QED
  BY <1>1, <1>2
-------------------------------------------------------------------------------
(***************************************************************************)
(* The inductive invariant.                                                *)
(***************************************************************************)
ImplementInv ==
    /\ ImplementTypeOK
    /\ Owned /\ OnePerTask
    /\ TicksBacked
    /\ Completing
    /\ Waits
    /\ LedgerLived
    /\ Handed

LEMMA ImplementInit == ASSUME Init PROVE ImplementInv
<1>1. /\ ts \in [Task -> TaskState]
      /\ \A t \in Task : /\ ts[t].seen \subseteq {"task_registered"}
                         /\ ts[t].last # None => ts[t].last \in ts[t].seen
                         /\ ts[t].last \in {None, "task_registered"}
  <2>1. NewTask \in TaskState
    BY DEF NewTask, TaskState
  <2>2. [NewTask EXCEPT !.seen = {"task_registered"}, !.last = "task_registered"] \in TaskState
    BY <2>1 DEF TaskState, TaskEvent, Predecessors
  <2> QED
    BY <2>1, <2>2 DEF Init, TaskLedgerInit, NewTask
<1>2. job = [p \in Proc |-> Idle] /\ mark = {} /\ payload = {}
  BY DEF Init
<1>3. plog \in [{"feature"} -> Seq(Line)]
      /\ \A i \in 1 .. Len(plog["feature"]) : plog["feature"][i].event # Completed
  <2> DEFINE h == << [event |-> "backlog_registered", phase |-> "specify"],
                     [event |-> "plan_approved", phase |-> "plan"],
                     [event |-> "solution_approved", phase |-> "solution"],
                     [event |-> "analysis_completed", phase |-> None] >>
  <2>1. plog \in [{"feature"} -> {h}]
    BY DEF Init, Pipeline!LedgerInit
  <2>2. h \in Seq(Line)
    BY DEF Line
  <2>3. \A i \in 1 .. Len(h) : h[i].event # Completed
    BY DEF Completed
  <2> HIDE DEF h
  <2> QED
    BY <2>1, <2>2, <2>3
<1>4. ImplementTypeOK
  <2>1. JobShape(Idle)
    BY DEF Idle, JobShape, CallShape, HasTask, Handling
  <2> QED
    <3>1. \A p \in Proc : job[p] \in Job /\ JobShape(job[p])
      BY <1>2, <2>1, IdleIsJob
    <3>2. job \in [Proc -> Job]
      BY <1>2, IdleIsJob
    <3>6. active \in [Actor -> Task \cup {None}] /\ bad \in BOOLEAN
      BY DEF Init, TaskLedgerInit
    <3>7. 1 \in 1 .. MaxAttempt /\ attempt = [t \in Task |-> 1]
      BY DEF Init, TaskLedgerInit
    <3>8. attempt \in [Task -> 1 .. MaxAttempt]
      BY <3>7
    <3>3. /\ active \in [Actor -> Task \cup {None}] /\ bad \in BOOLEAN
          /\ attempt \in [Task -> 1 .. MaxAttempt] /\ ungated \subseteq Task
      BY <3>6, <3>8 DEF Init, TaskLedgerInit
    <3>4. /\ branch \in {"main", "feature", "other"}
          /\ dirty \subseteq Work /\ staged \subseteq Work /\ head \subseteq Work
      BY DEF Init
    <3>5. mark \subseteq Task /\ payload \subseteq Task \X (1 .. MaxAttempt)
      BY <1>2
    <3> QED
      BY <1>1, <1>3, <3>1, <3>2, <3>3, <3>4, <3>5 DEF ImplementTypeOK
<1>5. Owned /\ OnePerTask
  BY <1>2 DEF Idle, Owned, OnePerTask, AtWork, At
<1>6. TicksBacked
  BY <1>2 DEF Idle, TicksBacked, Backed
<1>7. Completing
  BY <1>2, <1>3 DEF Idle, Completing, CompletedIsClosed
<1>8. Waits
  BY <1>1, <1>2 DEF Idle, Waits, IsStarted
<1>9. LedgerLived
  <2>1. ASSUME NEW t \in V2 PROVE Lived(ts[t])
    <3>1. /\ ts[t].seen \subseteq {"task_registered"}
          /\ ts[t].last # None => ts[t].last \in ts[t].seen
          /\ ts[t].last \in {None, "task_registered"}
      BY <1>1
    <3>2. None \notin TaskEvent
      OBVIOUS
    <3>3. ts[t].last \notin {"pr_opened", "ci_completed", "qa_verdict", "merge_approved"}
      BY <3>1, <3>2 DEF TaskEvent, Predecessors
    <3> QED
      BY <3>1, <3>3 DEF Lived
  <2> QED
    BY <2>1 DEF LedgerLived
<1>10. Handed
  BY <1>2 DEF Idle, Handed, Rounds, Carried, Listed, Handling
<1> QED
  BY <1>4, <1>5, <1>6, <1>7, <1>8, <1>9, <1>10 DEF ImplementInv

LEMMA ImplementStep == ImplementInv /\ [Next]_vars => ImplementInv'
<1> SUFFICES ASSUME ImplementInv, [Next]_vars PROVE ImplementInv'
  OBVIOUS
<1>1. CASE Next
  <2>1. PICK p \in Proc : StepOf(p)
    BY <1>1, EveryStep DEF ImplementInv
  <2>2. ImplementTypeOK'
    BY <2>1, TypeStep DEF ImplementInv
  <2>3. Owned' /\ OnePerTask'
    BY <2>1, OwnedStep, OnePerTaskStep DEF ImplementInv
  <2>4. TicksBacked' /\ Completing' /\ Waits' /\ LedgerLived'
    BY <2>1, TicksStep, CompletingStep, WaitsStep, LivedStep DEF ImplementInv
  <2>5. Handed'
    BY <2>1, HandedOthers, HandedOwn DEF ImplementInv, Handed
  <2> QED
    BY <2>2, <2>3, <2>4, <2>5 DEF ImplementInv
<1>2. CASE UNCHANGED vars
  BY <1>2 DEF vars, taskVars, gitVars, ImplementInv, ImplementTypeOK, Owned, OnePerTask,
     TicksBacked, Backed, Completing, CompletedIsClosed, AllClosed, Waits, LedgerLived, Handed,
     Rounds, Carried, Listed, AtWork, At, Me, IsStarted, IsClosed
<1> QED
  BY <1>1, <1>2

\* The invariant holds in every state of every behaviour.
THEOREM ImplementInvariant == Spec => []ImplementInv
<1>1. Init => ImplementInv
  BY ImplementInit
<1> QED
  BY <1>1, ImplementStep, PTL DEF Spec

(***************************************************************************)
(* Two workers of different names are never at work on one task, however   *)
(* many there are and however their starts cross: speckit_implement_step   *)
(* reads the ledger again after its start.                                 *)
(***************************************************************************)
THEOREM OneWorkerOnly == Spec => []OneWorkerPerTask
<1>1. ImplementInv => OneWorkerPerTask
  BY DEF ImplementInv, OnePerTask, OneWorkerPerTask, Proc
<1> QED
  BY <1>1, ImplementInvariant, PTL

\* A task ticked in tasks.md is closed in the ledger (speckit_closeout_task).
THEOREM TicksAreBacked == Spec => []MarkedIsClosed
<1>1. ImplementInv => MarkedIsClosed
  BY DEF ImplementInv, TicksBacked, MarkedIsClosed
<1> QED
  BY <1>1, ImplementInvariant, PTL

\* implementation_completed is on record only when every task is closed
\* (speckit_implement_gate).
THEOREM CompletionIsBacked == Spec => []CompletedIsClosed
<1>1. ImplementInv => CompletedIsClosed
  BY DEF ImplementInv, Completing
<1> QED
  BY <1>1, ImplementInvariant, PTL

\* A worker that was alone with the work tree hands QA what it has committed
\* (speckit_codex_handoff_runner, speckit_build_offline_qa_payload).
THEOREM PayloadIsWhatWasCommitted == Spec => []PayloadIsCommit
<1>1. ImplementInv => PayloadIsCommit
  BY DEF ImplementInv, Handed, Listed, PayloadIsCommit, Proc
<1> QED
  BY <1>1, ImplementInvariant, PTL

\* The order of tasks.md is kept by all starts that pass the start gate, whatever
\* is appended beside them, other task_started included (task_ledger,
\* evaluate_start_task and cmd_append).
THEOREM OrderKept == Spec => []OrderIsKept
<1>1. ImplementInv => OrderIsKept
  BY WaitsIsOrder DEF ImplementInv
<1> QED
  BY <1>1, ImplementInvariant, PTL

\* A merge rests on a passing verdict and a passing CI run (task_ledger,
\* validate_sequence), whatever the shells append and in whatever order.
THEOREM MergeIsBacked == Spec => []MergedIsBacked
<1>1. ImplementInv => MergedIsBacked
  BY DEF ImplementInv, LedgerLived, Lived, MergedIsBacked, Checked
<1> QED
  BY <1>1, ImplementInvariant, PTL

\* A closed task of the new protocol has met its gates, and started a fix if
\* it ever failed offline QA.
THEOREM CloseIsProven == Spec => []ClosedIsProven
<1>1. ImplementInv => ClosedIsProven
  BY DEF ImplementInv, LedgerLived, Lived, ClosedIsProven, IsClosed
<1> QED
  BY <1>1, ImplementInvariant, PTL
=============================================================================
