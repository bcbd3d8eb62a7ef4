---------------------------- MODULE PipelineProofs ----------------------------
(***************************************************************************)
(* Proofs about the pipeline driver and its ledger: a feature whose        *)
(* callers take turns keeps a valid history, an invalid one stops the      *)
(* ledger after a bounded number of entries, and the approval of a plan is *)
(* backed by a finished plan.  They hold for any number of processes and   *)
(* features, any start histories and any bound on their length.            *)
(***************************************************************************)
EXTENDS Pipeline, FiniteSetTheorems, TLAPS

PC == {"idle", "run", "check", "dedupe", "read", "write", "done", "boot"}
Result == {None, "failed", "duplicate_marked", "plan_approved", "solution_approved"}

Answer == {"requested_phase_mismatch", "phase_drift", "approval_required",
           "direct_command_required", "command_not_driver_managed", "runtime_failure",
           "artifact_validation", "event_request_missing", "helper_failed",
           "ledger_read_failed", "append_failed", "ok", "bootstrap_feature_id_missing"}

Job == [pc : PC, feature : Feature \cup {None}, phase : Phase \cup {None},
        event : PipelineEvent \cup {None}, runs : 0 .. 2, result : Result,
        reply : Answer \cup {None}, alone : BOOLEAN]

Artifacts == [plan : {"none", "triage", "selected", "complete"}, dup : BOOLEAN,
              spec : BOOLEAN, tasks : {"none", "scaffold", "filled"},
              est : {"none", "high", "settled"}, registered : BOOLEAN]

\* Process p works on a feature.
Working(p) == job[p].pc \in {"run", "check", "dedupe", "read", "write"}

PipelineTypeOK ==
    /\ plog \in [Feature -> Seq(Entry)] /\ torn \in BOOLEAN
    /\ job \in [Proc -> Job]
    /\ art \in [Feature -> Artifacts]
    /\ orphan \in [Feature -> {None, "plan", "solution"}]
    /\ late \in Nat
    /\ \A p \in Proc :
        /\ Working(p) => job[p].feature \in Feature
        /\ job[p].pc \in {"dedupe", "read", "write"} => job[p].event \in PipelineEvent

\* One process works on an exclusive feature at a time.
TakeTurns ==
    \A p, q \in Proc :
        /\ Working(p) /\ Working(q)
        /\ job[p].feature = job[q].feature /\ job[p].feature \in Exclusive
        => p = q

\* A writer of an exclusive feature still writes what it validated.
WritesValid ==
    \A p \in Proc :
        At(p, "write") /\ job[p].feature \in Exclusive =>
            <<LastOf(plog[job[p].feature]), job[p].event>> \in Allowed

Writers == { p \in Proc : At(p, "write") }

\* Entries written late, and those that may yet be.
LateBound ==
    /\ AllValid => late = 0
    /\ ~AllValid => late + Cardinality(Writers) <= Cardinality(Proc) - 1

\* An approval on its way to the ledger, and what it stands on.
Backed ==
    \A p \in Proc :
        /\ job[p].result = "plan_approved" => job[p].phase = "plan"
        /\ /\ job[p].pc \in {"dedupe", "read", "write"} /\ job[p].alone
           /\ job[p].result = "plan_approved" /\ job[p].feature \in Exclusive
           => /\ art[job[p].feature].plan = "complete"
              /\ orphan[job[p].feature] = None

PipelineInv ==
    PipelineTypeOK /\ TakeTurns /\ ExclusiveStaysValid /\ WritesValid /\ LateBound /\ Backed

(***************************************************************************)
(* The ledger's operators.                                                 *)
(***************************************************************************)
LEMMA NamesDiffer ==
    /\ None \notin PipelineEvent /\ None \notin Phase
    /\ "plan_approved" \in PipelineEvent /\ None # "plan_approved"
    /\ None # "plan"
<1>1. <<"backlog_registered", "plan_approved">> \in Allowed
  BY DEF Allowed, After
<1>2. "plan_approved" \in PipelineEvent
  BY <1>1 DEF PipelineEvent
<1>3. None \notin PipelineEvent /\ None \notin Phase
  BY FeatureAssumption
<1> HIDE DEF PipelineEvent
<1> QED BY <1>2, <1>3 DEF Phase

\* A valid history takes an entry that its last one allows.
LEMMA AppendKeepsValid ==
    ASSUME NEW h \in Seq(Entry), NEW x \in Entry, ValidHistory(h),
           <<LastOf(h), x.event>> \in Allowed
    PROVE  ValidHistory(Append(h, x))
<1> DEFINE n == Append(h, x)
<1>1. n \in Seq(Entry) /\ Len(n) = Len(h) + 1 /\ n[Len(h) + 1] = x
      /\ \A i \in 1 .. Len(h) : n[i] = h[i]
  OBVIOUS
<1>2. ASSUME NEW i \in 1 .. Len(n) PROVE <<PrevOf(n, i), n[i].event>> \in Allowed
  <2>1. CASE i \in 1 .. Len(h)
    <3>1. n[i] = h[i] /\ PrevOf(n, i) = PrevOf(h, i)
      BY <1>1, <2>1 DEF PrevOf
    <3> QED BY <2>1, <3>1 DEF ValidHistory
  <2>2. CASE i = Len(h) + 1 /\ h = <<>>
    <3>1. i = 1 /\ PrevOf(n, i) = None /\ LastOf(h) = None
      BY <2>2 DEF PrevOf, LastOf
    <3> QED BY <1>1, <2>2, <3>1
  <2>3. CASE i = Len(h) + 1 /\ h # <<>>
    <3>1. Len(h) \in 1 .. Len(h) /\ i # 1
      BY <2>3
    <3>2. PrevOf(n, i) = h[Len(h)].event /\ LastOf(h) = h[Len(h)].event
      BY <1>1, <2>3, <3>1 DEF PrevOf, LastOf
    <3> QED BY <1>1, <2>3, <3>2
  <2> QED BY <1>1, <2>1, <2>2, <2>3
<1> HIDE DEF n
<1>3. ValidHistory(n)
  BY <1>2 DEF ValidHistory
<1> QED BY <1>3 DEF n

\* An invalid history stays invalid.
LEMMA AppendKeepsInvalid ==
    ASSUME NEW h \in Seq(Entry), NEW x \in Entry, ~ValidHistory(h)
    PROVE  ~ValidHistory(Append(h, x))
<1> DEFINE n == Append(h, x)
<1>1. Len(n) = Len(h) + 1 /\ \A i \in 1 .. Len(h) : n[i] = h[i]
  OBVIOUS
<1>2. PICK i \in 1 .. Len(h) : <<PrevOf(h, i), h[i].event>> \notin Allowed
  BY DEF ValidHistory
<1>3. n[i] = h[i] /\ PrevOf(n, i) = PrevOf(h, i) /\ i \in 1 .. Len(n)
  BY <1>1 DEF PrevOf
<1> HIDE DEF n
<1>4. ~ValidHistory(n)
  BY <1>2, <1>3 DEF ValidHistory
<1> QED BY <1>4 DEF n


(***************************************************************************)
(* What a step does to the jobs and to the ledger.                         *)
(***************************************************************************)
\* Process p leaves its feature, works on, or takes a feature that is free.
MovesOn(p) ==
    \/ ~Working(p)'
    \/ /\ Working(p) /\ Working(p)'
       /\ job'[p].feature = job[p].feature
    \/ /\ job'[p].feature \in Feature /\ job'[p].pc \in {"run", "read"}
       /\ MayCall(p, job'[p].feature)

\* Its place in the ledger: it writes nothing, and validates before "write",
\* or it writes.
Reads(p) ==
    /\ UNCHANGED <<plog, late>>
    /\ At(p, "write")' =>
         /\ At(p, "read") /\ Accepts(job[p].feature, job[p].event, TRUE)
         /\ job'[p].feature = job[p].feature /\ job'[p].event = job[p].event

Writes(p) == AppendWrite(p) /\ ~At(p, "write")'

\* An event approved by the driver, while nothing else was at work on the plan.
Approving(p) ==
    /\ job[p].pc \in {"dedupe", "read", "write"}
    /\ job[p].alone /\ job[p].result = "plan_approved"

\* It gets there only over a finished plan.
Approves(p) ==
    Approving(p)' =>
        \/ Approving(p) /\ job'[p].feature = job[p].feature
        \/ /\ UNCHANGED <<art, orphan>>
           /\ art[job'[p].feature].plan = "complete"
           /\ orphan[job'[p].feature] = None

\* Only a run changes the artifacts, and those of its own feature.
OwnArtifacts(p) ==
    \/ UNCHANGED <<art, orphan>>
    \/ /\ At(p, "run")
       /\ \A f \in Feature : f # job[p].feature =>
            art'[f] = art[f] /\ orphan'[f] = orphan[f]

\* A step of process p alone.
StepOf(p) ==
    /\ \A q \in Proc : q # p => job'[q] = job[q]
    /\ MovesOn(p)
    /\ Reads(p) \/ Writes(p)
    /\ Approves(p) /\ OwnArtifacts(p)

Typed(p) ==
    /\ torn' \in BOOLEAN
    /\ job' \in [Proc -> Job]
    /\ art' \in [Feature -> Artifacts]
    /\ orphan' \in [Feature -> {None, "plan", "solution"}]
    /\ job'[p].pc \in {"dedupe", "read", "write"} => job'[p].event \in PipelineEvent
    /\ job'[p].result = "plan_approved" => job'[p].phase = "plan"

LEMMA JobMoves ==
    ASSUME PipelineTypeOK, NEW p \in Proc, NEW new \in Job, Set(p, new)
    PROVE  /\ job' \in [Proc -> Job] /\ job'[p] = new
           /\ \A q \in Proc : q # p => job'[q] = job[q]
  BY DEF PipelineTypeOK, Set

LEMMA JobFields ==
    ASSUME NEW r \in Job
    PROVE  /\ \A pc \in PC : [r EXCEPT !.pc = pc] \in Job
           /\ \A x \in Result : [r EXCEPT !.result = x] \in Job
           /\ \A n \in 0 .. 2 : [r EXCEPT !.runs = n] \in Job
           /\ r.pc \in PC /\ r.feature \in Feature \cup {None}
           /\ r.phase \in Phase \cup {None} /\ r.event \in PipelineEvent \cup {None}
           /\ r.runs \in 0 .. 2 /\ r.result \in Result /\ r.alone \in BOOLEAN
  BY DEF Job

LEMMA IdleJob == Idle \in Job
  BY DEF Idle, Job, PC, Result

\* A reply ends the job.
LEMMA Replies ==
    ASSUME PipelineTypeOK, NEW p \in Proc, NEW r \in Answer, Reply(p, r)
    PROVE  /\ job' \in [Proc -> Job]
           /\ \A q \in Proc : q # p => job'[q] = job[q]
           /\ job'[p].pc = "done" /\ job'[p].result = None /\ job'[p].phase = None
<1> DEFINE s == [Idle EXCEPT !.pc = "done", !.reply = r]
<1>1. Idle.result = None /\ Idle.phase = None
  BY DEF Idle
<1>2. s \in Job /\ s.pc = "done" /\ s.result = None /\ s.phase = None
  BY <1>1, IdleJob DEF Job, PC
<1>3. Set(p, s)
  BY DEF Reply
<1> HIDE DEF s
<1> QED BY <1>2, <1>3, JobMoves

LEMMA PhaseFacts ==
    /\ \A e : EventPhase(e) \in Phase \cup {None}
    /\ \A f : \A want \in Phase \cup {None} : Effective(f, want) \in Phase \cup {None}
<1>1. \A e : EventPhase(e) \in Phase \cup {None}
  BY DEF EventPhase, Phase
<1>2. \A f : CurrentPhase(f, None) \in Phase \cup {None}
  BY <1>1 DEF CurrentPhase, Phase
<1> QED BY <1>1, <1>2 DEF Effective

LEMMA RefusalIsAnswer ==
    \A f, want, approved : Refusal(f, want, approved) \in Answer \cup {None}
<1> SUFFICES ASSUME NEW f, NEW want, NEW approved
             PROVE  Refusal(f, want, approved) \in Answer \cup {None}
  OBVIOUS
<1> DEFINE a == Exceeds(want, CurrentPhase(f, want))
           b == Drifted(f)
           c == ApprovalMissing(Effective(f, want), approved)
           r == Route(Effective(f, want))
<1> HIDE DEF a, b, c, r
<1>1. Refusal(f, want, approved) =
        IF a THEN "requested_phase_mismatch" ELSE IF b THEN "phase_drift"
        ELSE IF c THEN "approval_required" ELSE IF r = "agent" THEN "direct_command_required"
        ELSE IF r = "legacy" THEN "command_not_driver_managed" ELSE None
  BY DEF Refusal, a, b, c, r
<1> DEFINE x == Refusal(f, want, approved)
<1>2. x \in Answer \cup {None}
  BY <1>1, Zenon DEF Answer
<1> QED BY <1>2 DEF x

(***************************************************************************)
(* Each action is a step of its process.                                   *)
(***************************************************************************)
LEMMA EndStep ==
    ASSUME PipelineInv, NEW p \in Proc, NEW r \in Answer, Reply(p, r), UNCHANGED onlyJob
    PROVE  StepOf(p) /\ Typed(p)
<1>1. /\ job' \in [Proc -> Job] /\ \A q \in Proc : q # p => job'[q] = job[q]
      /\ job'[p].pc = "done" /\ job'[p].result = None
  BY Replies DEF PipelineInv
<1>2. UNCHANGED <<plog, late, torn, art, orphan>>
  BY DEF onlyJob
<1> QED BY <1>1, <1>2, NamesDiffer DEF StepOf, Typed, MovesOn, Working, Reads, At,
           Approves, Approving, OwnArtifacts, PipelineInv, PipelineTypeOK

\* A process goes back to idle.
LEMMA RestStep ==
    ASSUME PipelineInv, NEW p \in Proc, Set(p, Idle), UNCHANGED onlyJob
    PROVE  StepOf(p) /\ Typed(p)
<1>1. job' \in [Proc -> Job] /\ (\A q \in Proc : q # p => job'[q] = job[q])
      /\ job'[p] = Idle
  BY JobMoves, IdleJob DEF PipelineInv
<1>2. UNCHANGED <<plog, late, torn, art, orphan>>
  BY DEF onlyJob
<1>3. job'[p].pc = "idle" /\ job'[p].result = None
  BY <1>1 DEF Idle
<1> QED BY <1>1, <1>2, <1>3, NamesDiffer DEF StepOf, Typed, MovesOn, Working, Reads, At,
           Approves, Approving, OwnArtifacts, PipelineInv, PipelineTypeOK

LEMMA RefuseStep ==
    ASSUME PipelineInv, NEW p \in Proc, NEW f \in Driven,
           NEW want \in Phase \cup {None}, NEW approved \in BOOLEAN,
           DriverRefuses(p, f, want, approved)
    PROVE  StepOf(p) /\ Typed(p)
<1>1. PICK r \in Answer : r = Refusal(f, want, approved)
  BY RefusalIsAnswer DEF DriverRefuses
<1>2. Reply(p, r) /\ UNCHANGED onlyJob
  BY <1>1 DEF DriverRefuses, Reply
<1> QED BY <1>2, EndStep

LEMMA StartStep ==
    ASSUME PipelineInv, NEW p \in Proc, NEW f \in Driven,
           NEW want \in Phase \cup {None}, NEW approved \in BOOLEAN,
           DriverStarts(p, f, want, approved)
    PROVE  StepOf(p) /\ Typed(p)
<1> DEFINE ph == Effective(f, want)
           t == [Idle EXCEPT !.pc = "run", !.feature = f, !.phase = ph]
           s == [t EXCEPT !.runs = 1]
<1>1. f \in Feature /\ ph \in Phase \cup {None}
  BY CallerAssumption, PhaseFacts
<1>2. s \in Job /\ s.pc = "run" /\ s.feature = f /\ s.result = None
  <2>1. Idle.result = None
    BY DEF Idle
  <2> HIDE DEF ph
  <2>2. t \in Job /\ t.pc = "run" /\ t.feature = f /\ t.result = None
    BY <1>1, <2>1, IdleJob DEF Job, PC
  <2> HIDE DEF t
  <2>3. \A n \in 0 .. 2 : [t EXCEPT !.runs = n] \in Job
    BY <2>2, JobFields
  <2>4. s \in Job
    BY <2>3
  <2> QED BY <2>2, <2>4 DEF Job
<1>3. Set(p, s) /\ MayCall(p, f) /\ UNCHANGED <<plog, late, torn, art, orphan>>
  BY DEF DriverStarts, onlyJob
<1> HIDE DEF s
<1>4. job' \in [Proc -> Job] /\ (\A q \in Proc : q # p => job'[q] = job[q])
      /\ job'[p] = s
  BY <1>2, <1>3, JobMoves DEF PipelineInv
<1> QED BY <1>1, <1>2, <1>3, <1>4, NamesDiffer DEF StepOf, Typed, MovesOn, Reads, At,
           Approves, Approving, OwnArtifacts, PipelineInv, PipelineTypeOK

LEMMA CliStep ==
    ASSUME PipelineInv, NEW p \in Proc, NEW f \in Feature, NEW e \in CliEvent,
           NEW ph \in CliPhase, CliCall(p, f, e, ph)
    PROVE  StepOf(p) /\ Typed(p)
<1> DEFINE s == [Idle EXCEPT !.pc = "read", !.feature = f, !.event = e, !.phase = ph]
<1>1. e \in PipelineEvent /\ ph \in Phase \cup {None}
  BY CallerAssumption
<1>2. s \in Job /\ s.pc = "read" /\ s.feature = f /\ s.result = None /\ s.event = e
  <2>1. Idle.result = None
    BY DEF Idle
  <2> QED BY <1>1, <2>1, IdleJob DEF Job, PC
<1>3. Set(p, s) /\ MayCall(p, f) /\ UNCHANGED <<plog, late, torn, art, orphan>>
  BY DEF CliCall, onlyJob
<1> HIDE DEF s
<1>4. job' \in [Proc -> Job] /\ (\A q \in Proc : q # p => job'[q] = job[q])
      /\ job'[p] = s
  BY <1>2, <1>3, JobMoves DEF PipelineInv
<1> QED BY <1>1, <1>2, <1>3, <1>4, NamesDiffer DEF StepOf, Typed, MovesOn, Reads, At,
           Approves, Approving, OwnArtifacts, PipelineInv, PipelineTypeOK

LEMMA AcknowledgeStep ==
    ASSUME PipelineInv, NEW p \in Proc, Acknowledge(p)
    PROVE  StepOf(p) /\ Typed(p)
  BY RestStep DEF Acknowledge

\* An agent's work leaves artifacts of the same kind, in its feature alone.
LEMMA AgentWorkKeeps ==
    ASSUME art \in [Feature -> Artifacts], NEW f \in Feature, NEW ph, AgentWork(f, ph)
    PROVE  /\ art' \in [Feature -> Artifacts]
           /\ \A g \in Feature : g # f => art'[g] = art[g]
<1>1. ASSUME NEW a \in Artifacts, Put(f, a)
      PROVE  /\ art' \in [Feature -> Artifacts]
             /\ \A g \in Feature : g # f => art'[g] = art[g]
  BY <1>1 DEF Put
<1>2. art[f] \in Artifacts
  OBVIOUS
<1>3. CASE PrepareTriage(f)
  <2>1. [art[f] EXCEPT !.plan = "triage", !.dup = FALSE] \in Artifacts
    BY <1>2 DEF Artifacts
  <2> QED BY <1>1, <1>3, <2>1 DEF PrepareTriage
<1>4. CASE ApplyStrategy(f)
  <2>1. [art[f] EXCEPT !.plan = "selected"] \in Artifacts
    BY <1>2 DEF Artifacts
  <2> QED BY <1>1, <1>4, <2>1 DEF ApplyStrategy
<1>5. CASE FillPlan(f)
  <2>1. \A d \in BOOLEAN : [art[f] EXCEPT !.plan = "complete", !.dup = d] \in Artifacts
    BY <1>2 DEF Artifacts
  <2>2. PICK d \in BOOLEAN : Put(f, [art[f] EXCEPT !.plan = "complete", !.dup = d])
    BY <1>5 DEF FillPlan
  <2> QED BY <1>1, <2>1, <2>2
<1>6. CASE PrepareTasking(f)
  <2>1. [art[f] EXCEPT !.tasks = "scaffold"] \in Artifacts
    BY <1>2 DEF Artifacts
  <2> QED BY <1>1, <1>6, <2>1 DEF PrepareTasking
<1>7. CASE FillTasks(f)
  <2>1. [art[f] EXCEPT !.tasks = "filled"] \in Artifacts
    BY <1>2 DEF Artifacts
  <2> QED BY <1>1, <1>7, <2>1 DEF FillTasks
<1>8. CASE RunChain(f)
  <2>1. \A x \in {"high", "settled"} : [art[f] EXCEPT !.est = x] \in Artifacts
    BY <1>2 DEF Artifacts
  <2>2. PICK x \in {"high", "settled"} : Put(f, [art[f] EXCEPT !.est = x])
    BY <1>8 DEF RunChain
  <2> QED BY <1>1, <2>1, <2>2
<1> QED BY <1>3, <1>4, <1>5, <1>6, <1>7, <1>8 DEF AgentWork

LEMMA AgentStep ==
    ASSUME PipelineInv, NEW p \in Proc, AgentWorks(p)
    PROVE  StepOf(p) /\ Typed(p)
<1>1. /\ At(p, "run") /\ AgentWork(job[p].feature, job[p].phase)
      /\ UNCHANGED <<plog, torn, job, orphan, late>>
  BY DEF AgentWorks
<1>2. job[p].feature \in Feature
  BY <1>1 DEF At, Working, PipelineInv, PipelineTypeOK
<1>3. /\ art' \in [Feature -> Artifacts]
      /\ \A g \in Feature : g # job[p].feature => art'[g] = art[g]
  BY <1>1, <1>2, AgentWorkKeeps DEF PipelineInv, PipelineTypeOK
<1> QED BY <1>1, <1>2, <1>3 DEF StepOf, Typed, MovesOn, Working, Reads, At,
           Approves, Approving, OwnArtifacts, PipelineInv, PipelineTypeOK, Backed

\* A run goes on, or on to the check of what it left.
RunOn(p, new) ==
    /\ new.pc \in {"run", "check"} /\ new.feature = job[p].feature
    /\ new.result = "plan_approved" => new.phase = "plan"

LEMMA RunStep ==
    ASSUME PipelineInv, NEW p \in Proc, At(p, "run"), NEW new \in Job, Set(p, new),
           RunOn(p, new), UNCHANGED <<plog, torn, late>>,
           art' \in [Feature -> Artifacts],
           orphan' \in [Feature -> {None, "plan", "solution"}],
           \A f \in Feature : f # job[p].feature => art'[f] = art[f] /\ orphan'[f] = orphan[f]
    PROVE  StepOf(p) /\ Typed(p)
<1>1. job' \in [Proc -> Job] /\ (\A q \in Proc : q # p => job'[q] = job[q])
      /\ job'[p] = new
  BY JobMoves DEF PipelineInv
<1>2. new.pc \in {"run", "check"} /\ new.feature = job[p].feature
      /\ (new.result = "plan_approved" => new.phase = "plan")
  BY DEF RunOn
<1>3. Working(p) /\ Working(p)'
  BY <1>1, <1>2 DEF Working, At
<1>4. torn' \in BOOLEAN
  BY DEF PipelineInv, PipelineTypeOK
<1>5. MovesOn(p)
  BY <1>1, <1>2, <1>3 DEF MovesOn
<1>6. Reads(p) /\ Approves(p)
  BY <1>1, <1>2 DEF Reads, Approves, Approving, At
<1> QED BY <1>1, <1>2, <1>4, <1>5, <1>6 DEF StepOf, Typed, OwnArtifacts, At

\* What holds of a job at its run.
LEMMA AtRun ==
    ASSUME PipelineInv, NEW p \in Proc, Working(p)
    PROVE  /\ job[p] \in Job /\ job[p].feature \in Feature
           /\ job[p].result = "plan_approved" => job[p].phase = "plan"
           /\ art[job[p].feature] \in Artifacts
           /\ art \in [Feature -> Artifacts]
           /\ orphan \in [Feature -> {None, "plan", "solution"}]
  BY DEF PipelineInv, PipelineTypeOK, Backed

\* Only the results of the agent's helpers change.
LEMMA ResultStep ==
    ASSUME PipelineInv, NEW p \in Proc, At(p, "run"), NEW x \in Result,
           Set(p, [job[p] EXCEPT !.result = x]),
           x = "plan_approved" => job[p].phase = "plan",
           NEW a \in Artifacts, art' = [art EXCEPT ![job[p].feature] = a] \/ UNCHANGED art,
           UNCHANGED <<plog, torn, orphan, late>>
    PROVE  StepOf(p) /\ Typed(p)
<1> DEFINE s == [job[p] EXCEPT !.result = x]
<1>1. /\ job[p] \in Job /\ job[p].feature \in Feature
      /\ art \in [Feature -> Artifacts] /\ orphan \in [Feature -> {None, "plan", "solution"}]
  BY AtRun DEF At, Working
<1>2. s \in Job
  BY <1>1, JobFields
<1>3. RunOn(p, s)
  BY <1>1 DEF RunOn, At, Job
<1> HIDE DEF s
<1>4. /\ art' \in [Feature -> Artifacts]
      /\ \A f \in Feature : f # job[p].feature => art'[f] = art[f]
  BY <1>1
<1>5. Set(p, s)
  BY DEF s
<1> QED BY <1>1, <1>2, <1>3, <1>4, <1>5, RunStep

LEMMA FinalizePlanStep ==
    ASSUME PipelineInv, NEW p \in Proc, FinalizePlan(p)
    PROVE  StepOf(p) /\ Typed(p)
<1> DEFINE f == job[p].feature
           a == [art[f] EXCEPT !.spec = TRUE]
<1>1. /\ At(p, "run") /\ job[p].phase = "plan" /\ UNCHANGED <<plog, torn, orphan, late>>
  BY DEF FinalizePlan
<1>2. a \in Artifacts
  <2>1. art[f] \in Artifacts
    BY <1>1, AtRun DEF At, Working
  <2> HIDE DEF f
  <2> QED BY <2>1 DEF Artifacts
<1>3. PICK x \in Result :
        /\ Set(p, [job[p] EXCEPT !.result = x])
        /\ art' = [art EXCEPT ![f] = a] \/ UNCHANGED art
  BY DEF FinalizePlan, Put, Result
<1> HIDE DEF a
<1> QED BY <1>1, <1>2, <1>3, ResultStep

LEMMA FinalizeSolutionStep ==
    ASSUME PipelineInv, NEW p \in Proc, FinalizeSolution(p)
    PROVE  StepOf(p) /\ Typed(p)
<1> DEFINE f == job[p].feature
           a == [art[f] EXCEPT !.registered = TRUE]
<1>1. /\ At(p, "run") /\ UNCHANGED <<plog, torn, orphan, late>>
      /\ art' = [art EXCEPT ![f] = a]
  BY DEF FinalizeSolution, Put
<1>2. a \in Artifacts
  <2>1. art[f] \in Artifacts
    BY <1>1, AtRun DEF At, Working
  <2> HIDE DEF f
  <2> QED BY <2>1 DEF Artifacts
<1>3. job[p] \in Job /\ (job[p].result = "plan_approved" => job[p].phase = "plan")
  BY <1>1, AtRun DEF At, Working
<1>4. PICK x \in {job[p].result, "solution_approved"} : Set(p, [job[p] EXCEPT !.result = x])
  BY DEF FinalizeSolution
<1>5. x \in Result /\ (x = "plan_approved" => job[p].phase = "plan")
  BY <1>3, <1>4 DEF Job, Result
<1> HIDE DEF a
<1> QED BY <1>1, <1>2, <1>4, <1>5, ResultStep

LEMMA HandoffPhase ==
    \A ph : Route(ph) = "handoff" => ph \in {"plan", "solution"}
  BY DEF Route

\* A run that failed runs again or gives up; its agent may go on.
LEMMA RerunStep ==
    ASSUME PipelineInv, NEW p \in Proc, At(p, "run"), Rerun(p),
           UNCHANGED <<plog, torn, art, late>>,
           NEW o \in {None, "plan", "solution"},
           orphan' = [orphan EXCEPT ![job[p].feature] = o]
    PROVE  StepOf(p) /\ Typed(p)
<1>1. /\ job[p] \in Job /\ job[p].feature \in Feature
      /\ job[p].result = "plan_approved" => job[p].phase = "plan"
      /\ art \in [Feature -> Artifacts] /\ orphan \in [Feature -> {None, "plan", "solution"}]
  BY AtRun DEF At, Working
<1>2. /\ orphan' \in [Feature -> {None, "plan", "solution"}]
      /\ \A f \in Feature : f # job[p].feature => art'[f] = art[f] /\ orphan'[f] = orphan[f]
  BY <1>1
<1>3. CASE Set(p, [job[p] EXCEPT !.runs = 2])
  <2> DEFINE s == [job[p] EXCEPT !.runs = 2]
  <2>1. s \in Job
    <3>1. \A n \in 0 .. 2 : [job[p] EXCEPT !.runs = n] \in Job
      BY <1>1, JobFields
    <3> QED BY <3>1
  <2>2. RunOn(p, s)
    BY <1>1 DEF RunOn, At, Job
  <2> HIDE DEF s
  <2>3. Set(p, s)
    BY <1>3 DEF s
  <2> QED BY <1>1, <1>2, <2>1, <2>2, <2>3, RunStep
<1>4. CASE Reply(p, "runtime_failure")
  <2>1. /\ job' \in [Proc -> Job] /\ \A q \in Proc : q # p => job'[q] = job[q]
        /\ job'[p].pc = "done" /\ job'[p].result = None
    BY <1>4, Replies DEF PipelineInv, Answer
  <2> QED BY <1>1, <1>2, <2>1, NamesDiffer DEF StepOf, Typed, MovesOn, Working, Reads, At,
           Approves, Approving, OwnArtifacts, PipelineInv, PipelineTypeOK
<1> QED BY <1>3, <1>4 DEF Rerun

LEMMA ScriptStep ==
    ASSUME PipelineInv, NEW p \in Proc, ScriptFails(p)
    PROVE  StepOf(p) /\ Typed(p)
<1>1. At(p, "run") /\ Rerun(p) /\ UNCHANGED <<plog, torn, art, orphan, late>>
  BY DEF ScriptFails, onlyJob
<1> DEFINE o == orphan[job[p].feature]
<1>2. o \in {None, "plan", "solution"} /\ orphan' = [orphan EXCEPT ![job[p].feature] = o]
  BY <1>1, AtRun DEF At, Working
<1> HIDE DEF o
<1> QED BY <1>1, <1>2, RerunStep

LEMMA RunFailsStep ==
    ASSUME PipelineInv, NEW p \in Proc, NEW timeout \in BOOLEAN, RunFails(p, timeout)
    PROVE  StepOf(p) /\ Typed(p)
<1> DEFINE o == IF timeout THEN job[p].phase ELSE orphan[job[p].feature]
<1>1. /\ At(p, "run") /\ Rerun(p) /\ UNCHANGED <<plog, torn, art, late>>
      /\ orphan' = [orphan EXCEPT ![job[p].feature] = o]
      /\ job[p].phase \in {"plan", "solution"}
  BY HandoffPhase DEF RunFails
<1>2. o \in {None, "plan", "solution"}
  BY <1>1, AtRun DEF At, Working
<1> HIDE DEF o
<1> QED BY <1>1, <1>2, RerunStep

LEMMA RunEndsStep ==
    ASSUME PipelineInv, NEW p \in Proc, RunEnds(p)
    PROVE  StepOf(p) /\ Typed(p)
<1>1. At(p, "run") /\ UNCHANGED <<plog, torn, art, orphan, late>> /\ UNCHANGED onlyJob
  BY DEF RunEnds, onlyJob
<1>2. CASE Set(p, [job[p] EXCEPT !.pc = "check"])
  <2> DEFINE s == [job[p] EXCEPT !.pc = "check"]
  <2>1. /\ job[p] \in Job /\ job[p].feature \in Feature
        /\ job[p].result = "plan_approved" => job[p].phase = "plan"
        /\ art \in [Feature -> Artifacts] /\ orphan \in [Feature -> {None, "plan", "solution"}]
    BY <1>1, AtRun DEF At, Working
  <2>2. s \in Job
    BY <2>1, JobFields DEF PC
  <2>3. RunOn(p, s)
    BY <2>1 DEF RunOn, At, Job
  <2> HIDE DEF s
  <2>4. Set(p, s)
    BY <1>2 DEF s
  <2> QED BY <1>1, <2>1, <2>2, <2>3, <2>4, RunStep
<1>3. CASE Reply(p, "runtime_failure")
  BY <1>1, <1>3, EndStep DEF Answer
<1> QED BY <1>2, <1>3 DEF RunEnds

LEMMA CheckStep ==
    ASSUME PipelineInv, NEW p \in Proc, NEW named \in BOOLEAN, Check(p, named)
    PROVE  StepOf(p) /\ Typed(p)
<1> DEFINE f == job[p].feature
           alone == orphan[f] = None
           s == [job[p] EXCEPT !.pc = "dedupe", !.event = job[p].result, !.alone = alone]
<1>1. At(p, "check") /\ UNCHANGED <<plog, torn, art, orphan, late>> /\ UNCHANGED onlyJob
  BY DEF Check, onlyJob
<1>2. CASE \E r \in Answer : Reply(p, r)
  BY <1>1, <1>2, EndStep
<1>3. CASE /\ ArtifactValid(f, job[p].phase, named)
           /\ job[p].result \in PipelineEvent
           /\ Set(p, s)
  <2>1. /\ job[p] \in Job /\ f \in Feature
        /\ job[p].result = "plan_approved" => job[p].phase = "plan"
    BY <1>1, AtRun DEF At, Working
  <2> HIDE DEF f
  <2>2. alone \in BOOLEAN
    OBVIOUS
  <2> HIDE DEF alone
  <2>3. /\ s \in Job /\ s.pc = "dedupe" /\ s.event = job[p].result /\ s.alone = alone
        /\ s.feature = job[p].feature /\ s.result = job[p].result /\ s.phase = job[p].phase
    BY <1>3, <2>1, <2>2 DEF Job, PC
  <2> HIDE DEF s
  <2>4. /\ job' \in [Proc -> Job] /\ \A q \in Proc : q # p => job'[q] = job[q]
        /\ job'[p] = s
    BY <1>3, <2>3, JobMoves DEF PipelineInv
  <2>5. Approves(p)
    <3> SUFFICES ASSUME Approving(p)'
                 PROVE  art[f].plan = "complete" /\ orphan[f] = None
      BY <1>1, <2>3, <2>4 DEF Approves, f
    <3>1. job[p].result = "plan_approved" /\ alone
      BY <2>3, <2>4 DEF Approving
    <3> QED BY <1>3, <2>1, <3>1 DEF ArtifactValid, alone
  <2>6. MovesOn(p) /\ Reads(p) /\ OwnArtifacts(p)
    BY <1>1, <2>3, <2>4 DEF MovesOn, Working, Reads, At, OwnArtifacts
  <2>7. Typed(p)
    BY <1>1, <1>3, <2>1, <2>3, <2>4 DEF Typed, PipelineInv, PipelineTypeOK
  <2> QED BY <2>4, <2>5, <2>6, <2>7 DEF StepOf
<1>4. \/ \E r \in Answer : Reply(p, r)
      \/ /\ ArtifactValid(f, job[p].phase, named)
         /\ job[p].result \in PipelineEvent
         /\ Set(p, s)
  BY DEF Check, Answer
<1> QED BY <1>2, <1>3, <1>4

\* A step toward the write, with everything but the place as it was.
LEMMA ForwardStep ==
    ASSUME PipelineInv, NEW p \in Proc, UNCHANGED <<plog, torn, art, orphan, late>>,
           NEW pc \in {"read", "write"}, Set(p, [job[p] EXCEPT !.pc = pc]),
           job[p].pc \in {"dedupe", "read"},
           pc = "write" =>
               At(p, "read") /\ Accepts(job[p].feature, job[p].event, TRUE)
    PROVE  StepOf(p) /\ Typed(p)
<1> DEFINE s == [job[p] EXCEPT !.pc = pc]
<1>1. /\ job[p] \in Job /\ job[p].feature \in Feature
      /\ job[p].result = "plan_approved" => job[p].phase = "plan"
      /\ job[p].event \in PipelineEvent
  BY AtRun DEF Working, PipelineInv, PipelineTypeOK
<1>2. /\ s \in Job /\ s.pc = pc /\ s.event = job[p].event /\ s.alone = job[p].alone
      /\ s.feature = job[p].feature /\ s.result = job[p].result /\ s.phase = job[p].phase
  BY <1>1 DEF Job, PC
<1>3. Set(p, s)
  OBVIOUS
<1> HIDE DEF s
<1>4. /\ job' \in [Proc -> Job] /\ \A q \in Proc : q # p => job'[q] = job[q]
      /\ job'[p] = s
  BY <1>2, <1>3, JobMoves DEF PipelineInv
<1>5. MovesOn(p) /\ OwnArtifacts(p)
  BY <1>2, <1>4 DEF MovesOn, Working, OwnArtifacts
<1>6. Reads(p)
  BY <1>2, <1>4 DEF Reads, At
<1>7. Approves(p)
  BY <1>2, <1>4 DEF Approves, Approving
<1>8. Typed(p)
  BY <1>1, <1>2, <1>4 DEF Typed, PipelineInv, PipelineTypeOK
<1> QED BY <1>4, <1>5, <1>6, <1>7, <1>8 DEF StepOf

LEMMA DedupeStep ==
    ASSUME PipelineInv, NEW p \in Proc, Dedupe(p)
    PROVE  StepOf(p) /\ Typed(p)
<1>1. At(p, "dedupe") /\ UNCHANGED <<plog, torn, art, orphan, late>> /\ UNCHANGED onlyJob
  BY DEF Dedupe, onlyJob
<1>2. \/ \E r \in Answer : Reply(p, r)
      \/ Set(p, [job[p] EXCEPT !.pc = "read"])
  BY DEF Dedupe, Answer
<1> QED BY <1>1, <1>2, EndStep, ForwardStep DEF At

LEMMA AppendReadStep ==
    ASSUME PipelineInv, NEW p \in Proc, NEW shaped \in BOOLEAN, AppendRead(p, shaped)
    PROVE  StepOf(p) /\ Typed(p)
<1>1. At(p, "read") /\ UNCHANGED <<plog, torn, art, orphan, late>> /\ UNCHANGED onlyJob
  BY DEF AppendRead, onlyJob
<1>2. \/ \E r \in Answer : Reply(p, r)
      \/ /\ Set(p, [job[p] EXCEPT !.pc = "write"])
         /\ Accepts(job[p].feature, job[p].event, TRUE)
  BY DEF AppendRead, Answer, Accepts
<1> QED BY <1>1, <1>2, EndStep, ForwardStep DEF At

LEMMA AppendWriteStep ==
    ASSUME PipelineInv, NEW p \in Proc, AppendWrite(p)
    PROVE  StepOf(p) /\ Typed(p)
<1>1. /\ Reply(p, "ok") /\ UNCHANGED <<art, orphan, torn>>
  BY DEF AppendWrite, WriteEntry
<1>2. /\ job' \in [Proc -> Job] /\ \A q \in Proc : q # p => job'[q] = job[q]
      /\ job'[p].pc = "done" /\ job'[p].result = None
  BY <1>1, Replies DEF PipelineInv, Answer
<1>3. MovesOn(p) /\ OwnArtifacts(p) /\ Writes(p) /\ Approves(p)
  BY <1>1, <1>2 DEF MovesOn, Working, OwnArtifacts, Writes, At, Approves, Approving
<1>4. Typed(p)
  BY <1>1, <1>2, NamesDiffer DEF Typed, PipelineInv, PipelineTypeOK
<1> QED BY <1>2, <1>3, <1>4 DEF StepOf

LEMMA CrashStep ==
    ASSUME PipelineInv, NEW p \in Proc, Crash(p)
    PROVE  StepOf(p) /\ Typed(p)
<1>1. job' \in [Proc -> Job] /\ (\A q \in Proc : q # p => job'[q] = job[q])
      /\ job'[p] = Idle
  BY JobMoves, IdleJob DEF PipelineInv, Crash
<1>2. job'[p].pc = "idle" /\ job'[p].result = None
  BY <1>1 DEF Idle
<1>3. UNCHANGED <<plog, art, late>> /\ torn' \in BOOLEAN
  BY DEF Crash, TearLine, PipelineInv, PipelineTypeOK
<1>4. MovesOn(p) /\ Reads(p) /\ Approves(p)
  BY <1>2, <1>3 DEF MovesOn, Working, Reads, At, Approves, Approving
<1>5. /\ OwnArtifacts(p)
      /\ orphan' \in [Feature -> {None, "plan", "solution"}]
  <2>1. CASE UNCHANGED orphan
    BY <1>3, <2>1 DEF OwnArtifacts, PipelineInv, PipelineTypeOK
  <2>2. CASE /\ At(p, "run") /\ Route(job[p].phase) = "handoff"
             /\ orphan' = [orphan EXCEPT ![job[p].feature] = job[p].phase]
    <3>1. job[p].phase \in {"plan", "solution"}
      BY <2>2, HandoffPhase
    <3>2. job[p].feature \in Feature /\ orphan \in [Feature -> {None, "plan", "solution"}]
      BY <2>2, AtRun DEF At, Working
    <3> QED BY <1>3, <2>2, <3>1, <3>2 DEF OwnArtifacts
  <2> QED BY <2>1, <2>2 DEF Crash
<1>6. Typed(p)
  BY <1>1, <1>2, <1>3, <1>5, NamesDiffer DEF Typed, PipelineInv, PipelineTypeOK
<1> QED BY <1>1, <1>4, <1>5, <1>6 DEF StepOf

\* A bootstrap works on no feature.
LEMMA BootStep ==
    ASSUME PipelineInv, NEW p \in Proc,
           BootstrapCall(p) \/ BootstrapRun(p) \/ BootstrapEnds(p)
    PROVE  StepOf(p) /\ Typed(p)
<1>1. ASSUME NEW s \in Job, Set(p, s), s.pc = "boot",
             s.result = "plan_approved" => s.phase = "plan", UNCHANGED onlyJob
      PROVE  StepOf(p) /\ Typed(p)
  <2>1. job' \in [Proc -> Job] /\ (\A q \in Proc : q # p => job'[q] = job[q])
        /\ job'[p] = s
    BY <1>1, JobMoves DEF PipelineInv
  <2>2. UNCHANGED <<plog, late, torn, art, orphan>>
    BY <1>1 DEF onlyJob
  <2> QED BY <1>1, <2>1, <2>2 DEF StepOf, Typed, MovesOn, Working, Reads, At,
           Approves, Approving, OwnArtifacts, PipelineInv, PipelineTypeOK
<1>2. CASE BootstrapCall(p)
  <2> DEFINE t == [Idle EXCEPT !.pc = "boot"]
             s == [t EXCEPT !.runs = 2]
  <2>1. t \in Job /\ t.pc = "boot" /\ t.result = None
    <3>1. Idle.result = None
      BY DEF Idle
    <3> QED BY <3>1, IdleJob DEF Job, PC
  <2>2. Set(p, s) /\ UNCHANGED onlyJob
    BY <1>2 DEF BootstrapCall
  <2> HIDE DEF t
  <2>3. s \in Job
    <3>1. \A n \in 0 .. 2 : [t EXCEPT !.runs = n] \in Job
      BY <2>1, JobFields
    <3> QED BY <3>1
  <2>4. s.pc = "boot" /\ s.result = None
    BY <2>1 DEF Job
  <2> HIDE DEF s
  <2> QED BY <1>1, <2>2, <2>3, <2>4, NamesDiffer
<1>3. CASE BootstrapRun(p)
  <2> DEFINE n == job[p].runs - 1
             s == [job[p] EXCEPT !.runs = n]
  <2>1. job[p] \in Job /\ (job[p].result = "plan_approved" => job[p].phase = "plan")
    BY DEF PipelineInv, PipelineTypeOK, Backed
  <2>2. job[p].runs \in 0 .. 2 /\ job[p].runs > 0
    BY <1>3, <2>1, JobFields DEF BootstrapRun
  <2>3. n \in 0 .. 2
    BY <2>2
  <2>4. Set(p, s) /\ UNCHANGED onlyJob /\ job[p].pc = "boot"
    BY <1>3 DEF BootstrapRun, At
  <2> HIDE DEF n
  <2>5. s \in Job
    BY <2>1, <2>3, JobFields
  <2>6. s.pc = "boot" /\ s.result = job[p].result /\ s.phase = job[p].phase
    BY <2>1, <2>4 DEF Job
  <2> HIDE DEF s
  <2> QED BY <1>1, <2>1, <2>4, <2>5, <2>6
<1>4. CASE BootstrapEnds(p)
  BY <1>4, EndStep DEF BootstrapEnds, Answer
<1> QED BY <1>2, <1>3, <1>4

(***************************************************************************)
(* The invariant, part by part, over a step of one process.                *)
(***************************************************************************)
\* What is written is an entry, at the end of one history.
LEMMA WriteEffect ==
    ASSUME PipelineInv, NEW p \in Proc, AppendWrite(p)
    PROVE  LET f == job[p].feature
               x == [event |-> job[p].event, phase |-> job[p].phase]
           IN /\ f \in Feature /\ x \in Entry /\ plog[f] \in Seq(Entry)
              /\ plog'[f] = Append(plog[f], x)
              /\ \A g \in Feature : g # f => plog'[g] = plog[g]
              /\ plog' \in [Feature -> Seq(Entry)]
<1> DEFINE f == job[p].feature
           x == [event |-> job[p].event, phase |-> job[p].phase]
<1>1. /\ f \in Feature /\ job[p] \in Job /\ job[p].event \in PipelineEvent
      /\ plog \in [Feature -> Seq(Entry)]
  BY DEF AppendWrite, At, Working, PipelineInv, PipelineTypeOK
<1>2. job[p].phase \in Phase \cup {None}
  BY <1>1, JobFields
<1>3. x \in Entry
  BY <1>1, <1>2 DEF Entry
<1>4. plog' = [plog EXCEPT ![f] = Append(plog[f], x)]
  BY DEF AppendWrite, WriteEntry
<1> HIDE DEF x, f
<1>5. /\ plog'[f] = Append(plog[f], x) /\ \A g \in Feature : g # f => plog'[g] = plog[g]
      /\ plog' \in [Feature -> Seq(Entry)]
  <2>1. Append(plog[f], x) \in Seq(Entry)
    BY <1>1, <1>3
  <2> QED BY <1>1, <1>4, <2>1
<1> QED BY <1>1, <1>3, <1>5 DEF f, x

LEMMA TypeKept ==
    ASSUME PipelineInv, NEW p \in Proc, StepOf(p), Typed(p)
    PROVE  PipelineTypeOK'
<1>1. plog' \in [Feature -> Seq(Entry)] /\ late' \in Nat
  <2>1. CASE Reads(p)
    BY <2>1 DEF Reads, PipelineInv, PipelineTypeOK
  <2>2. CASE AppendWrite(p)
    <3>1. plog' \in [Feature -> Seq(Entry)]
      BY <2>2, WriteEffect
    <3>2. late' = late \/ late' = late + 1
      BY <2>2 DEF AppendWrite
    <3> QED BY <3>1, <3>2 DEF PipelineInv, PipelineTypeOK
  <2> QED BY <2>1, <2>2 DEF StepOf, Writes
<1>2. ASSUME NEW q \in Proc
      PROVE  /\ Working(q)' => job'[q].feature \in Feature
             /\ job'[q].pc \in {"dedupe", "read", "write"} => job'[q].event \in PipelineEvent
  <2>1. CASE q = p
    <3>1. Working(p)' => job'[p].feature \in Feature
      BY DEF StepOf, MovesOn, PipelineInv, PipelineTypeOK
    <3> QED BY <2>1, <3>1 DEF Typed
  <2>2. CASE q # p
    BY <2>2 DEF StepOf, Working, PipelineInv, PipelineTypeOK
  <2> QED BY <2>1, <2>2
<1> QED BY <1>1, <1>2 DEF Typed, PipelineTypeOK

LEMMA TurnsKept ==
    ASSUME PipelineInv, NEW p \in Proc, StepOf(p)
    PROVE  TakeTurns'
<1>1. \A q \in Proc : q # p => job'[q] = job[q]
  BY DEF StepOf
<1>2. ASSUME NEW q \in Proc, q # p, Working(p)', Working(q)',
             job'[p].feature = job'[q].feature, job'[p].feature \in Exclusive
      PROVE  FALSE
  <2>1. Working(q) /\ job[q].feature = job'[p].feature
    BY <1>1, <1>2 DEF Working
  <2>2. CASE Working(p) /\ job'[p].feature = job[p].feature
    BY <1>2, <2>1, <2>2 DEF PipelineInv, TakeTurns
  <2>3. CASE MayCall(p, job'[p].feature)
    <3>1. Busy(q)
      BY <2>1 DEF Working, Busy
    <3> QED BY <1>2, <2>1, <2>3, <3>1 DEF MayCall
  <2> QED BY <1>2, <2>2, <2>3 DEF StepOf, MovesOn
<1>3. ASSUME NEW q \in Proc, NEW r \in Proc, q # p, r # p, Working(q)', Working(r)',
             job'[q].feature = job'[r].feature, job'[q].feature \in Exclusive
      PROVE  q = r
  BY <1>1, <1>3 DEF Working, PipelineInv, TakeTurns
<1> QED BY <1>2, <1>3 DEF TakeTurns

LEMMA ValidKept ==
    ASSUME PipelineInv, NEW p \in Proc, StepOf(p), TakeTurns'
    PROVE  ExclusiveStaysValid' /\ WritesValid'
<1>1. \A q \in Proc : q # p => job'[q] = job[q]
  BY DEF StepOf
<1>2. CASE Reads(p)
  <2>1. ExclusiveStaysValid'
    BY <1>2 DEF Reads, ExclusiveStaysValid, PipelineInv, ValidHistory, PrevOf
  <2>2. ASSUME NEW q \in Proc, At(q, "write")', job'[q].feature \in Exclusive
        PROVE  <<LastOf(plog[job'[q].feature]), job'[q].event>> \in Allowed
    <3>1. CASE q = p
      BY <1>2, <2>2, <3>1 DEF Reads, Accepts
    <3>2. CASE q # p
      BY <1>1, <2>2, <3>2 DEF At, PipelineInv, WritesValid
    <3> QED BY <3>1, <3>2
  <2>3. plog' = plog
    BY <1>2 DEF Reads
  <2> QED BY <2>1, <2>2, <2>3 DEF WritesValid, LastOf
<1>3. CASE Writes(p)
  <2> DEFINE f == job[p].feature
             x == [event |-> job[p].event, phase |-> job[p].phase]
  <2>1. /\ f \in Feature /\ x \in Entry /\ plog[f] \in Seq(Entry)
        /\ plog'[f] = Append(plog[f], x)
        /\ \A g \in Feature : g # f => plog'[g] = plog[g]
    BY <1>3, WriteEffect DEF Writes
  <2>2. At(p, "write") /\ ~At(p, "write")' /\ x.event = job[p].event
    BY <1>3 DEF Writes, AppendWrite
  <2>3. f \in Exclusive => <<LastOf(plog[f]), x.event>> \in Allowed
    BY <2>2 DEF PipelineInv, WritesValid
  <2> HIDE DEF x
  <2>4. ASSUME NEW g \in Exclusive PROVE ValidHistory(plog'[g])
    <3>1. g \in Feature /\ ValidHistory(plog[g])
      BY CallerAssumption DEF PipelineInv, ExclusiveStaysValid
    <3>2. CASE g = f
      <4>1. f \in Exclusive /\ ValidHistory(plog[f])
        BY <3>1, <3>2
      <4>2. ValidHistory(Append(plog[f], x))
        BY <2>1, <2>3, <4>1, AppendKeepsValid
      <4> QED BY <2>1, <3>2, <4>2
    <3>3. CASE g # f
      BY <2>1, <3>1, <3>3
    <3> QED BY <3>2, <3>3
  <2>5. ExclusiveStaysValid'
    BY <2>4 DEF ExclusiveStaysValid, ValidHistory, PrevOf
  <2>6. ASSUME NEW q \in Proc, At(q, "write")', job'[q].feature \in Exclusive
        PROVE  <<LastOf(plog'[job'[q].feature]), job'[q].event>> \in Allowed
    <3>1. q # p /\ job'[q] = job[q] /\ At(q, "write")
      BY <1>1, <2>2, <2>6 DEF At
    <3>2. job[q].feature \in Feature /\ Working(q) /\ Working(p)
      BY <2>2, <3>1 DEF At, Working, PipelineInv, PipelineTypeOK
    <3>3. job[q].feature # f
      BY <2>6, <3>1, <3>2 DEF PipelineInv, TakeTurns
    <3> QED BY <2>1, <2>6, <3>1, <3>2, <3>3 DEF PipelineInv, WritesValid
  <2> QED BY <2>5, <2>6 DEF WritesValid, LastOf
<1> QED BY <1>2, <1>3 DEF StepOf

LEMMA BoundKept ==
    ASSUME PipelineInv, NEW p \in Proc, StepOf(p)
    PROVE  LateBound'
<1>1. /\ \A q \in Proc : q # p => job'[q] = job[q]
      /\ IsFiniteSet(Proc) /\ Writers \subseteq Proc /\ Writers' \subseteq Proc
  BY CallerAssumption DEF StepOf, Writers
<1>2. /\ IsFiniteSet(Writers) /\ IsFiniteSet(Writers') /\ Cardinality(Proc) \in Nat
      /\ Cardinality(Writers) \in Nat /\ Cardinality(Writers') \in Nat
  BY <1>1, FS_Subset, FS_CardinalityType
<1>3. late \in Nat
  BY DEF PipelineInv, PipelineTypeOK
<1>4. CASE Reads(p)
  <2>1. plog' = plog /\ late' = late
    BY <1>4 DEF Reads
  <2>2. AllValid' = AllValid
    BY <2>1 DEF AllValid, ValidHistory, PrevOf
  <2>3. CASE AllValid
    BY <2>1, <2>2, <2>3 DEF PipelineInv, LateBound
  <2>4. CASE ~AllValid
    <3>1. ~At(p, "write")'
      BY <1>4, <2>4 DEF Reads, Accepts
    <3>2. Writers' \subseteq Writers
      BY <1>1, <3>1 DEF Writers, At
    <3>3. Cardinality(Writers') <= Cardinality(Writers)
      BY <1>2, <3>2, FS_Subset
    <3> QED BY <1>2, <1>3, <2>1, <2>2, <2>4, <3>3 DEF PipelineInv, LateBound
  <2> QED BY <2>3, <2>4
<1>5. CASE Writes(p)
  <2>1. p \in Writers /\ Writers' = Writers \ {p}
    BY <1>1, <1>5 DEF Writes, AppendWrite, Writers, At
  <2>2. Cardinality(Writers') = Cardinality(Writers) - 1
    BY <1>2, <2>1, FS_RemoveElement
  <2>3. late' = IF AllValid THEN late ELSE late + 1
    BY <1>5 DEF Writes, AppendWrite
  <2>4. CASE AllValid
    <3>1. late' = 0
      BY <2>3, <2>4 DEF PipelineInv, LateBound
    <3>2. Cardinality(Writers) <= Cardinality(Proc)
      BY <1>1, FS_Subset
    <3> QED BY <1>2, <2>2, <3>1, <3>2 DEF LateBound
  <2>5. CASE ~AllValid
    <3>1. ~AllValid'
      <4> DEFINE f == job[p].feature
                 x == [event |-> job[p].event, phase |-> job[p].phase]
      <4>1. /\ f \in Feature /\ x \in Entry /\ plog[f] \in Seq(Entry)
            /\ plog'[f] = Append(plog[f], x)
            /\ \A g \in Feature : g # f => plog'[g] = plog[g]
        BY <1>5, WriteEffect DEF Writes
      <4> HIDE DEF x, f
      <4>2. PICK g \in Feature : ~ValidHistory(plog[g])
        BY <2>5 DEF AllValid
      <4>3. ~ValidHistory(plog'[g])
        <5>1. CASE g = f
          BY <4>1, <4>2, <5>1, AppendKeepsInvalid
        <5>2. CASE g # f
          BY <4>1, <4>2, <5>2
        <5> QED BY <5>1, <5>2
      <4> QED BY <4>3 DEF AllValid, ValidHistory, PrevOf
    <3> QED BY <1>2, <1>3, <2>2, <2>3, <2>5, <3>1 DEF PipelineInv, LateBound
  <2> QED BY <2>4, <2>5
<1> QED BY <1>4, <1>5 DEF StepOf

LEMMA BackedKept ==
    ASSUME PipelineInv, NEW p \in Proc, StepOf(p), Typed(p), PipelineTypeOK'
    PROVE  Backed'
<1> SUFFICES ASSUME NEW q \in Proc
             PROVE  /\ job'[q].result = "plan_approved" => job'[q].phase = "plan"
                    /\ Approving(q)' /\ job'[q].feature \in Exclusive =>
                         /\ art'[job'[q].feature].plan = "complete"
                         /\ orphan'[job'[q].feature] = None
  BY DEF Backed, Approving
<1>1. \A r \in Proc : r # p => job'[r] = job[r]
  BY DEF StepOf
<1>2. job'[q].result = "plan_approved" => job'[q].phase = "plan"
  BY <1>1 DEF Typed, PipelineInv, Backed
<1>3. ASSUME Approving(q)', job'[q].feature \in Exclusive
      PROVE  /\ art'[job'[q].feature].plan = "complete"
             /\ orphan'[job'[q].feature] = None
  <2>1. Working(q)' /\ job'[q].feature \in Feature
    BY <1>3 DEF Approving, Working, PipelineTypeOK
  <2>2. CASE q = p /\ UNCHANGED <<art, orphan>>
    BY <1>3, <2>2 DEF StepOf, Approves, Approving, PipelineInv, Backed
  <2>3. CASE q = p /\ At(p, "run")
    BY <1>3, <2>3 DEF StepOf, Approves, Approving, At
  <2>4. CASE q # p
    <3>1. job'[q] = job[q] /\ Approving(q) /\ Working(q)
      BY <1>1, <1>3, <2>1, <2>4 DEF Approving, Working
    <3>2. art[job[q].feature].plan = "complete" /\ orphan[job[q].feature] = None
      BY <1>3, <3>1 DEF Approving, PipelineInv, Backed
    <3>3. art'[job[q].feature] = art[job[q].feature]
          /\ orphan'[job[q].feature] = orphan[job[q].feature]
      <4>1. CASE UNCHANGED <<art, orphan>>
        BY <4>1
      <4>2. CASE /\ At(p, "run")
                 /\ \A f \in Feature : f # job[p].feature =>
                      art'[f] = art[f] /\ orphan'[f] = orphan[f]
        <5>1. job[q].feature # job[p].feature
          BY <1>3, <2>4, <3>1, <4>2 DEF At, Working, PipelineInv, TakeTurns
        <5> QED BY <2>1, <3>1, <4>2, <5>1
      <4> QED BY <4>1, <4>2 DEF StepOf, OwnArtifacts
    <3> QED BY <3>1, <3>2, <3>3
  <2> QED BY <2>2, <2>3, <2>4 DEF StepOf, OwnArtifacts
<1> QED BY <1>2, <1>3

LEMMA OrphanStep ==
    ASSUME PipelineInv, NEW f \in Feature, OrphanWorks(f) \/ OrphanEnds(f)
    PROVE  PipelineInv'
<1>1. UNCHANGED <<plog, torn, job, late>>
  BY DEF OrphanWorks, OrphanEnds
<1>2. /\ art' \in [Feature -> Artifacts]
      /\ orphan' \in [Feature -> {None, "plan", "solution"}]
      /\ \A g \in Feature : orphan[g] = None => art'[g] = art[g] /\ orphan'[g] = None
  <2>1. art \in [Feature -> Artifacts] /\ orphan \in [Feature -> {None, "plan", "solution"}]
    BY DEF PipelineInv, PipelineTypeOK
  <2>2. CASE OrphanWorks(f)
    <3>1. orphan[f] # None /\ AgentWork(f, orphan[f]) /\ orphan' = orphan
      BY <2>2 DEF OrphanWorks
    <3> QED BY <2>1, <3>1, AgentWorkKeeps
  <2>3. CASE OrphanEnds(f)
    BY <2>1, <2>3 DEF OrphanEnds
  <2> QED BY <2>2, <2>3
<1>3. PipelineTypeOK'
  BY <1>1, <1>2 DEF PipelineInv, PipelineTypeOK, Working
<1>4. TakeTurns' /\ WritesValid'
  BY <1>1 DEF PipelineInv, TakeTurns, WritesValid, Working, At, LastOf
<1>5. AllValid' = AllValid /\ Writers' = Writers /\ ExclusiveStaysValid'
  BY <1>1 DEF AllValid, Writers, At, ValidHistory, PrevOf, PipelineInv, ExclusiveStaysValid
<1>6. LateBound'
  BY <1>1, <1>5 DEF PipelineInv, LateBound
<1>7. Backed'
  <2>1. ASSUME NEW p \in Proc, job[p].pc \in {"dedupe", "read", "write"}
        PROVE  job[p].feature \in Feature
    BY <2>1 DEF PipelineInv, PipelineTypeOK, Working
  <2> QED BY <1>1, <1>2, <2>1 DEF PipelineInv, Backed
<1> QED BY <1>3, <1>4, <1>5, <1>6, <1>7 DEF PipelineInv

LEMMA ProcessStep ==
    ASSUME PipelineInv, NEW p \in Proc,
           Call(p) \/ Step(p) \/ AgentWorks(p) \/ Crash(p) \/ Acknowledge(p)
    PROVE  StepOf(p) /\ Typed(p)
<1>1. CASE Call(p)
  BY <1>1, RefuseStep, StartStep, CliStep, BootStep DEF Call
<1>2. CASE Step(p)
  <2>1. CASE FinalizePlan(p) \/ FinalizeSolution(p)
    BY <2>1, FinalizePlanStep, FinalizeSolutionStep
  <2>2. CASE ScriptFails(p) \/ RunFails(p, TRUE) \/ RunFails(p, FALSE) \/ RunEnds(p)
    BY <2>2, ScriptStep, RunFailsStep, RunEndsStep
  <2>3. CASE \E named \in BOOLEAN : Check(p, named)
    BY <2>3, CheckStep
  <2>4. CASE Dedupe(p) \/ AppendWrite(p)
    BY <2>4, DedupeStep, AppendWriteStep
  <2>5. CASE \E shaped \in BOOLEAN : AppendRead(p, shaped)
    BY <2>5, AppendReadStep
  <2>6. CASE BootstrapRun(p) \/ BootstrapEnds(p)
    BY <2>6, BootStep
  <2> QED BY <1>2, <2>1, <2>2, <2>3, <2>4, <2>5, <2>6 DEF Step
<1> QED BY <1>1, <1>2, AgentStep, CrashStep, AcknowledgeStep

LEMMA PipelineStep == PipelineInv /\ [Next]_vars => PipelineInv'
<1> SUFFICES ASSUME PipelineInv, [Next]_vars PROVE PipelineInv'
  OBVIOUS
<1>1. ASSUME NEW p \in Proc,
             Call(p) \/ Step(p) \/ AgentWorks(p) \/ Crash(p) \/ Acknowledge(p)
      PROVE  PipelineInv'
  <2>1. StepOf(p) /\ Typed(p)
    BY <1>1, ProcessStep
  <2>2. PipelineTypeOK' /\ TakeTurns'
    BY <2>1, TypeKept, TurnsKept
  <2>3. ExclusiveStaysValid' /\ WritesValid' /\ LateBound' /\ Backed'
    BY <2>1, <2>2, ValidKept, BoundKept, BackedKept
  <2> QED BY <2>2, <2>3 DEF PipelineInv
<1>2. ASSUME UNCHANGED vars PROVE PipelineInv'
  BY <1>2 DEF vars, PipelineInv, PipelineTypeOK, TakeTurns, ExclusiveStaysValid, WritesValid,
     LateBound, Backed, Working, At, Writers, AllValid, ValidHistory, PrevOf, LastOf
<1> QED BY <1>1, <1>2, OrphanStep DEF Next

LEMMA PipelineInvInit == Init => PipelineInv
<1> SUFFICES ASSUME Init PROVE PipelineInv
  OBVIOUS
<1>1. /\ plog \in [Feature -> StartLogs] /\ torn = FALSE /\ late = 0
      /\ job = [p \in Proc |-> Idle]
      /\ art = [f \in Feature |-> ArtifactsOf(plog[f])]
      /\ orphan = [f \in Feature |-> None]
  BY DEF Init, LedgerInit
<1>2. plog \in [Feature -> Seq(Entry)] /\ \A f \in Feature : ValidHistory(plog[f])
  BY <1>1, StartAssumption
<1>3. \A p \in Proc : job[p].pc = "idle" /\ job[p].result = None
  BY <1>1 DEF Idle
<1>4. art \in [Feature -> Artifacts]
  <2>1. \A h : ArtifactsOf(h) \in Artifacts
    BY DEF ArtifactsOf, Artifacts
  <2> QED BY <1>1, <2>1
<1>5. PipelineTypeOK
  BY <1>1, <1>2, <1>3, <1>4, IdleJob DEF PipelineTypeOK, Working
<1>6. TakeTurns /\ WritesValid /\ Backed
  BY <1>3, NamesDiffer DEF TakeTurns, WritesValid, Backed, Working, At
<1>7. ExclusiveStaysValid
  BY <1>2, CallerAssumption DEF ExclusiveStaysValid
<1>8. LateBound
  BY <1>1, <1>2 DEF LateBound, AllValid
<1> QED BY <1>5, <1>6, <1>7, <1>8 DEF PipelineInv

(***************************************************************************)
(* What holds of every pipeline.                                           *)
(***************************************************************************)
\* The inductive invariant of the driver and its ledger.
THEOREM PipelineInvariant == Spec => []PipelineInv
<1>1. Init => PipelineInv
  BY PipelineInvInit
<1>2. PipelineInv /\ [Next]_vars => PipelineInv'
  BY PipelineStep
<1> QED BY <1>1, <1>2, PTL DEF Spec

\* A feature whose callers take turns keeps a history validate_sequence
\* accepts, whatever the callers of other features do, through retries, reruns
\* and crashes (scripts/pipeline_ledger.py, cmd_append).
THEOREM ExclusiveValid == Spec => []ExclusiveStaysValid
<1>1. PipelineInv => ExclusiveStaysValid
  BY DEF PipelineInv
<1> QED BY <1>1, PipelineInvariant, PTL

\* Once two callers have made a history invalid, at most one entry for each of
\* the other processes is still written, to any feature.
THEOREM PoisonContained == Spec => []PoisonIsContained
<1>1. PipelineInv => PoisonIsContained
  <2> SUFFICES ASSUME PipelineInv PROVE PoisonIsContained
    OBVIOUS
  <2>1. IsFiniteSet(Writers) /\ IsFiniteSet(Proc)
    BY CallerAssumption, FS_Subset DEF Writers
  <2>2. Cardinality(Writers) \in Nat /\ Cardinality(Proc) \in Nat
    BY <2>1, FS_CardinalityType
  <2>3. Cardinality(Proc) # 0
    BY <2>1, CallerAssumption, FS_EmptySet
  <2>4. late \in Nat /\ LateBound
    BY DEF PipelineInv, PipelineTypeOK
  <2>5. CASE AllValid
    BY <2>2, <2>3, <2>4, <2>5 DEF LateBound, PoisonIsContained
  <2>6. CASE ~AllValid
    BY <2>2, <2>4, <2>6 DEF LateBound, PoisonIsContained
  <2> QED BY <2>5, <2>6
<1> QED BY <1>1, PipelineInvariant, PTL

\* When the driver appends the approval of an exclusive feature's plan, plan.md
\* is a completed plan, unless an orphan was at work when it was validated.
THEOREM ApprovalBacked == Spec => ApprovalIsBacked
<1> DEFINE Backing ==
      \A p \in Proc :
          LET f == job[p].feature IN
          At(p, "write") /\ plog' # plog /\ job'[p].pc = "done" /\ f \in Exclusive
          /\ job[p].result = "plan_approved" /\ job[p].alone
          => art[f].plan = "complete"
<1>1. PipelineInv => Backing
  BY DEF PipelineInv, Backed, At
<1>2. PipelineInv /\ [Next]_vars => [Backing]_vars
  BY <1>1
<1>3. Spec => [][Backing]_vars
  BY <1>2, PipelineInvariant, PTL DEF Spec
<1> QED BY <1>3 DEF ApprovalIsBacked
=============================================================================
