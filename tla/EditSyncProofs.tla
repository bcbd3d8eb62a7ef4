--------------------------- MODULE EditSyncProofs ---------------------------
(***************************************************************************)
(* Proofs about edit_code sync, the read gate and the work tree (EditSync, *)
(* ReadGate, WorkTree): any files, readers, hooks and syncs, any edits,    *)
(* commits and failures.                                                   *)
(***************************************************************************)
EXTENDS EditSync, TLAPS, SequenceTheorems

Content == [File -> Nat]
Letters == {"-", "A", "D", "M"}
Step == {"idle", "refresh", "sign", "mark", "gate", "probe", "compare", "healthy", "stale",
         "missing", "failed", "resolve", "query", "answered", "dirty", "validate", "check",
         "add", "staged", "commit", "committed", "push", "closeout", "amend"}
How == {None, "cached", "healthy", "built", "debounced", "refreshed", "behind", "scratchpad"}

Sig == SUBSET (Path \X Letters \X Letters)
MarkerSet == [sig : Sig, head : Nat, gap : SUBSET File]
ProbeSet == [status : {"healthy", "stale", "missing", "failed"}, drift : SUBSET Path]
Job == [pc : Step, ret : {"idle", "resolve", "add"}, q : Query \cup {None}, paths : SUBSET Path,
        sig : Sig \cup MarkerSet, how : How, got : Content \cup {None},
        edits : Nat, blind : BOOLEAN]
Checked == UNION { [want -> Nat] : want \in SUBSET File }
Memory == [scope : SUBSET Path, want : SUBSET Path, clean : BOOLEAN, edits : Nat, ops : Nat,
           valid : Checked \cup {None}, took : SUBSET File, put : Content \cup {None}, sha : Nat]

USE ReadGateAssumption DEF Gone

\* Content numbers and commits are made once.
TreeTypes ==
    /\ work \in Content /\ staged \in Content /\ committed \in Content
    /\ edits \in Nat /\ ops \in Nat
    /\ \A f \in File : committed[f] <= 1 + edits
    /\ \A f \in File : staged[f] <= 1 + edits
    /\ \A f \in File : work[f] <= 1 + edits
    /\ log \in Seq(Nat) /\ log # <<>>
    /\ \A i \in 1 .. Len(log) : log[i] <= ops

GateTypes ==
    /\ seen \in Content \cup {None}
    /\ marker \in MarkerSet \cup {None}
    /\ probe \in ProbeSet \cup {None}
    /\ scratch \in [Query -> [sig : Sig, got : Content] \cup {None}]
    /\ job \in [Proc -> Job]

Clean(f) == committed[f] = staged[f] /\ staged[f] = work[f]
TakenIn(f) == work[f] # Gone => seen[f] = work[f]

\* A marker made at this HEAD tells the truth about the files it leaves out: one
\* that holds what HEAD holds is in the index.
Tells(m) ==
    /\ m.head <= ops
    /\ m.head = HeadCommit =>
         \A f \in File \ (m.gap \cup SigPaths(m.sig)) : work[f] = committed[f] => TakenIn(f)

MarkerInv == marker # None => Tells(marker)

Reading == {"gate", "probe", "compare", "healthy", "stale", "missing", "resolve", "query"}
Refreshing == {"refresh", "sign", "mark"}
For(j, what) == j.pc \in Refreshing /\ j.ret = what

JobShape(p) ==
    LET j == job[p] IN
    /\ j.edits <= edits
    /\ j.pc \in Reading => j.q \in Query
    /\ For(j, "resolve") => j.q \in Query /\ j.how = "refreshed"
    /\ j.pc \in {"compare", "query"} => j.sig \in Sig
    /\ j.pc = "mark" => j.sig \in MarkerSet /\ Tells(j.sig)

\* The reads that FirstEditIsRead speaks of.
Counts(p) == job[p].q \in File /\ ~job[p].blind /\ job[p].edits = edits
Told == {"healthy", "refreshed", "behind"}
Sure(j) == j.how \in Told /\ (j.how = "refreshed" => j.q \in Vector)

ReadOK(p) ==
    LET j == job[p] IN
    Counts(p) =>
        /\ j.pc = "compare" /\ j.q \notin SigPaths(j.sig) => Clean(j.q)
        /\ j.pc = "stale" /\ j.q \notin j.paths => TakenIn(j.q)
        /\ j.pc = "healthy" => TakenIn(j.q)
        /\ j.pc = "refresh" /\ j.ret = "resolve" /\ j.q \in Vector =>
             j.q \in j.paths \/ TakenIn(j.q)
        /\ j.pc \in {"sign", "mark"} /\ j.ret = "resolve" /\ j.q \in Vector => TakenIn(j.q)
        /\ j.pc \in {"resolve", "query"} /\ Sure(j) => TakenIn(j.q)
        /\ j.pc = "answered" /\ Sure(j) =>
             (work[j.q] # Gone => j.got[j.q] = work[j.q])

\* What an undisturbed run of edit_code has seen to, by the step it is at.
BeforeAdd == {"dirty", "validate", "check", "add"} \cup Refreshing
AfterCheck == {"check", "add", "staged", "commit", "committed"} \cup Refreshing
AfterRefresh == {"sign", "mark", "add", "staged", "commit", "committed"}

SyncOK(s) ==
    LET j == job[s]  y == sync[s] IN
    /\ y.edits <= edits /\ y.ops <= ops
    /\ Undisturbed(s) =>
        /\ \/ j.pc \in {"dirty", "validate", "check", "add", "staged", "commit", "committed"}
           \/ For(j, "add")
        /\ j.pc \in BeforeAdd => staged = committed
        /\ j.pc \in AfterCheck => \A f \in y.want \cap File : y.valid[f] = work[f]
        /\ j.pc = "refresh" => j.paths = y.want
        /\ j.pc \in AfterRefresh => \A f \in y.want \cap Vector : TakenIn(f)
        /\ j.pc \in {"staged", "commit"} =>
             \A f \in File : staged[f] = IF f \in FilesAt(y.want) THEN work[f] ELSE committed[f]
        /\ j.pc = "committed" =>
             y.took \subseteq FilesAt(y.want) /\ \A f \in y.want \cap File : y.put[f] = work[f]

EditInv ==
    /\ TreeTypes /\ GateTypes
    /\ sync \in [Syncer -> Memory]
    /\ MarkerInv
    /\ \A p \in Proc : JobShape(p) /\ ReadOK(p)
    /\ \A s \in Syncer : SyncOK(s)
-------------------------------------------------------------------------------
(***************************************************************************)
(* What a step does to the tree and the index, and what outlasts it.       *)
(***************************************************************************)
Quiet ==
    /\ edits' = edits /\ work' = work
    /\ \A f \in File :
         /\ staged'[f] \in {staged[f], work[f]}
         /\ committed'[f] \in {committed[f], staged[f]}
         /\ seen'[f] \in {seen[f], work[f]}

Edited ==
    /\ edits' = edits + 1
    /\ \A f \in File : work'[f] \in {work[f], Gone, 1 + edits'}
    /\ UNCHANGED <<staged, committed, log, ops, seen>>

Moved ==
    /\ ops' >= ops
    /\ ops' = ops => UNCHANGED <<staged, committed, log>>
    /\ UNCHANGED <<log, committed>> \/ HeadCommit' > ops

TreeMove == TreeTypes' /\ (Quiet \/ Edited) /\ Moved

LEMMA HeadFacts ==
    ASSUME TreeTypes
    PROVE  HeadCommit \in Nat /\ HeadCommit <= ops /\ Len(log) \in Nat /\ Len(log) >= 1
<1>1. Len(log) \in Nat /\ Len(log) # 0
  BY EmptySeq, LenProperties DEF TreeTypes
<1> QED
  BY <1>1, ElementOfSeq DEF TreeTypes, HeadCommit

LEMMA LetterFacts ==
    ASSUME NEW from, NEW to
    PROVE  /\ Letter(from, to) \in Letters
           /\ Letter(from, to) = "-" => from = to
BY DEF Letter, Letters

LEMMA LineFacts ==
    ASSUME NEW f \in File
    PROVE  /\ Line(f) \in Path \X Letters \X Letters /\ Line(f)[1] = f
           /\ Line(f)[2] = Letter(committed[f], staged[f])
           /\ f \notin Hidden => Line(f)[3] = Letter(staged[f], work[f])
BY LetterFacts DEF Line, Path, Letters

LEMMA SignaturePaths ==
    ASSUME TreeTypes
    PROVE  /\ Signature \in Sig
           /\ \A f \in File \ Hidden : f \notin SigPaths(Signature) => Clean(f)
<1>1. \A d \in Folder : <<d, "-", "A">> \in Path \X Letters \X Letters
  BY DEF Path, Letters
<1>2. Signature \in Sig
  BY <1>1, LineFacts DEF Signature, Sig, Untracked
<1>3. ASSUME NEW f \in File \ Hidden, f \notin SigPaths(Signature)
      PROVE  Clean(f)
  <2>1. Line(f) \notin Signature
    BY <1>3, LineFacts DEF SigPaths
  <2>2. Line(f)[2] = "-" /\ Line(f)[3] = "-"
    BY <2>1 DEF Signature
  <2> QED
    BY <2>2, LineFacts, LetterFacts DEF Clean
<1> QED
  BY <1>2, <1>3

LEMMA SigPathsFacts ==
    ASSUME NEW sig \in Sig
    PROVE  SigPaths(sig) \subseteq Path
BY DEF Sig, SigPaths

\* What a marker tells stays true, since an edit makes a content that is new and a
\* commit an id that is new.
LEMMA TellsLasts ==
    ASSUME EditInv, TreeMove, NEW m \in MarkerSet, Tells(m)
    PROVE  Tells(m)'
<1>1. HeadCommit \in Nat /\ HeadCommit <= ops /\ m.head \in Nat
  BY HeadFacts DEF EditInv, MarkerSet
<1>2. m.head <= ops'
  BY <1>1 DEF TreeMove, TreeTypes, Moved, Tells, EditInv
<1>3. ASSUME m.head = HeadCommit', NEW f \in File \ (m.gap \cup SigPaths(m.sig)),
             work'[f] = committed'[f], work'[f] # Gone
      PROVE  seen'[f] = work'[f]
  <2>1. log' = log /\ committed' = committed /\ HeadCommit' = HeadCommit
    BY <1>1, <1>3 DEF TreeMove, Moved, Tells, HeadCommit, EditInv, TreeTypes
  <2>2. CASE Quiet
    BY <1>3, <2>1, <2>2 DEF Quiet, Tells, TakenIn
  <2>3. CASE Edited
    <3>1. work'[f] = work[f]
      BY <1>3, <2>1, <2>3 DEF Edited, EditInv, TreeTypes, Content
    <3> QED
      BY <1>3, <2>1, <2>3, <3>1 DEF Edited, Tells, TakenIn
  <2> QED
    BY <2>2, <2>3 DEF TreeMove
<1> QED
  BY <1>2, <1>3 DEF Tells, TakenIn

\* A process that does not move is where it was.
LEMMA WaitingJob ==
    ASSUME EditInv, TreeMove, NEW p \in Proc, job'[p] = job[p]
    PROVE  JobShape(p)' /\ ReadOK(p)'
<1>1. edits \in Nat /\ edits' \in Nat /\ edits' >= edits /\ job[p].edits \in Nat
      /\ JobShape(p) /\ ReadOK(p)
  BY DEF EditInv, TreeMove, TreeTypes, Quiet, Edited, GateTypes, Job
<1>2. job[p].pc = "mark" => Tells(job[p].sig)'
  BY <1>1, TellsLasts DEF JobShape
<1>3. JobShape(p)'
  BY <1>1, <1>2 DEF JobShape, For
<1>4. ReadOK(p)'
  <2> SUFFICES ASSUME Counts(p)'
               PROVE  ReadOK(p)'
    BY DEF ReadOK
  <2>1. Counts(p) /\ edits' = edits
    BY <1>1 DEF Counts, JobShape
  <2>2. Quiet
    BY <1>1, <2>1 DEF TreeMove, Edited
  <2>3. \A f \in File : (Clean(f) => Clean(f)') /\ (TakenIn(f) => TakenIn(f)')
    BY <2>2 DEF Quiet, Clean, TakenIn
  <2> QED
    BY <1>1, <2>1, <2>2, <2>3 DEF ReadOK, Counts, Quiet
<1> QED
  BY <1>3, <1>4

LEMMA WaitingSync ==
    ASSUME EditInv, TreeMove, NEW s \in Syncer, job'[s] = job[s], sync'[s] = sync[s]
    PROVE  SyncOK(s)'
<1>1. SyncOK(s) /\ sync[s] \in Memory
  BY DEF EditInv
<1>2. edits \in Nat /\ edits' \in Nat /\ edits' >= edits
      /\ ops \in Nat /\ ops' \in Nat /\ ops' >= ops
      /\ sync[s].edits \in Nat /\ sync[s].ops \in Nat /\ sync[s].want \subseteq Path
  BY <1>1 DEF EditInv, TreeMove, TreeTypes, Quiet, Edited, Moved, Memory
<1>3. (sync[s].edits <= edits /\ sync[s].ops <= ops)'
  BY <1>1, <1>2 DEF SyncOK
<1>4. ASSUME Undisturbed(s)'
      PROVE  SyncOK(s)'
  <2>1. Undisturbed(s) /\ edits' = edits /\ ops' = ops
    BY <1>1, <1>2, <1>4 DEF Undisturbed, SyncOK
  <2>2. Quiet /\ staged' = staged /\ committed' = committed
    BY <1>2, <2>1 DEF TreeMove, Moved, Edited
  <2>3. \A f \in File : TakenIn(f) => TakenIn(f)'
    BY <2>2 DEF Quiet, TakenIn
  <2>4. work' = work
    BY <2>2 DEF Quiet
  <2> QED
    BY <1>1, <1>2, <1>3, <2>1, <2>2, <2>3, <2>4 DEF SyncOK, For
<1> QED
  BY <1>3, <1>4 DEF SyncOK
-------------------------------------------------------------------------------
(***************************************************************************)
(* The steps of the gate and of the refreshes behind it.                   *)
(***************************************************************************)
OthersWait(p) == \A r \in Proc \ {p} : job'[r] = job[r]

LEMMA SetFacts ==
    ASSUME GateTypes, NEW p \in Proc, NEW new \in Job, Set(p, new)
    PROVE  job' \in [Proc -> Job] /\ job'[p] = new /\ OthersWait(p)
BY DEF Set, OthersWait, GateTypes

LEMMA IdleIsJob ==
    /\ Idle \in Job /\ Idle.pc = "idle" /\ Idle.ret = "idle" /\ Idle.q = None /\ Idle.edits = 0
    /\ Idle.paths = {} /\ Idle.sig = {} /\ Idle.how = None /\ Idle.got = None /\ Idle.blind = FALSE
BY DEF Idle, Job, Step, Sig, How

LEMMA EndsFacts ==
    ASSUME GateTypes, NEW p \in Proc, Ends(p)
    PROVE  job' \in [Proc -> Job] /\ job'[p] = Idle /\ OthersWait(p)
BY IdleIsJob, SetFacts DEF Ends

\* To: only the step changes.
OnlyPc(p, pc) ==
    /\ job'[p].pc = pc /\ job'[p].ret = job[p].ret /\ job'[p].q = job[p].q
    /\ job'[p].paths = job[p].paths /\ job'[p].sig = job[p].sig /\ job'[p].how = job[p].how
    /\ job'[p].got = job[p].got /\ job'[p].edits = job[p].edits /\ job'[p].blind = job[p].blind

LEMMA ToFacts ==
    ASSUME GateTypes, NEW p \in Proc, NEW pc \in Step, To(p, pc)
    PROVE  job' \in [Proc -> Job] /\ OnlyPc(p, pc) /\ OthersWait(p)
<1> DEFINE new == [job[p] EXCEPT !.pc = pc]
<1>1. job[p] \in Job
  BY DEF GateTypes
<1>2. /\ new \in Job /\ new.pc = pc /\ new.ret = job[p].ret /\ new.q = job[p].q
      /\ new.paths = job[p].paths /\ new.sig = job[p].sig /\ new.how = job[p].how
      /\ new.got = job[p].got /\ new.edits = job[p].edits /\ new.blind = job[p].blind
  BY <1>1 DEF Job
<1>3. Set(p, new)
  BY DEF To
<1> HIDE DEF new
<1>4. job' \in [Proc -> Job] /\ job'[p] = new /\ OthersWait(p)
  BY <1>2, <1>3, SetFacts
<1> QED
  BY <1>2, <1>4 DEF OnlyPc

LEMMA StillTree ==
    ASSUME EditInv, UNCHANGED treeVars, \A f \in File : seen'[f] \in {seen[f], work[f]}
    PROVE  TreeMove
<1>1. UNCHANGED <<work, staged, committed, log, edits, ops>>
  BY DEF treeVars
<1>2. TreeTypes'
  BY <1>1 DEF EditInv, TreeTypes
<1>3. Quiet
  BY <1>1 DEF Quiet
<1>4. Moved
  BY <1>1 DEF Moved, EditInv, TreeTypes
<1> QED
  BY <1>2, <1>3, <1>4 DEF TreeMove

\* A process that asks for a refresh out of idleness.
Requested(r) ==
    /\ job[r].pc = "idle"
    /\ job'[r].pc = "refresh" /\ job'[r].ret = "idle" /\ job'[r].q = None /\ job'[r].edits = 0

GateMove(p) ==
    /\ TreeMove /\ GateTypes' /\ MarkerInv'
    /\ JobShape(p)' /\ ReadOK(p)'
    /\ \A r \in Proc \ {p} : job'[r] = job[r] \/ Requested(r)
    /\ \A s \in Syncer \cap {p} :
         Undisturbed(s) /\ job'[s].pc # "idle" /\ sync'[s] = sync[s] => SyncOK(s)'

LEMMA RequestedFacts ==
    ASSUME EditInv, TreeMove, NEW r \in Proc, Requested(r)
    PROVE  JobShape(r)' /\ ReadOK(r)'
<1>1. edits' \in Nat
  BY DEF TreeMove, TreeTypes
<1>2. None \notin File
  BY DEF Queries
<1> QED
  BY <1>1, <1>2 DEF Requested, JobShape, ReadOK, Counts, Reading, For

LEMMA NoSyncFacts ==
    /\ NoSync \in Memory /\ NoSync.clean = FALSE /\ NoSync.edits = 0 /\ NoSync.ops = 0
    /\ NoSync.want = {} /\ NoSync.scope = {}
BY DEF NoSync, Memory

LEMMA ForgottenSync ==
    ASSUME TreeTypes', NEW s \in Syncer, sync'[s] = NoSync
    PROVE  SyncOK(s)'
BY NoSyncFacts DEF SyncOK, Undisturbed, TreeTypes

LEMMA StaysDisturbed ==
    ASSUME EditInv, TreeMove, NEW s \in Syncer, sync'[s] = sync[s], ~Undisturbed(s)
    PROVE  SyncOK(s)'
<1>1. SyncOK(s) /\ sync[s] \in Memory
  BY DEF EditInv
<1>2. edits \in Nat /\ edits' \in Nat /\ edits' >= edits
      /\ ops \in Nat /\ ops' \in Nat /\ ops' >= ops
      /\ sync[s].edits \in Nat /\ sync[s].ops \in Nat
  BY <1>1 DEF EditInv, TreeMove, TreeTypes, Quiet, Edited, Moved, Memory
<1>3. ~Undisturbed(s)'
  BY <1>1, <1>2 DEF Undisturbed, SyncOK
<1> QED
  BY <1>1, <1>2, <1>3 DEF SyncOK

\* A step of a process of the gate, in which a sync whose call ended forgets.
LEMMA GateKeeps ==
    ASSUME EditInv, NEW p \in Proc, GateMove(p), Forgets
    PROVE  EditInv'
<1>1. ASSUME NEW r \in Proc
      PROVE  JobShape(r)' /\ ReadOK(r)'
  <2>1. CASE r = p
    BY <2>1 DEF GateMove
  <2>2. CASE r # p /\ job'[r] = job[r]
    BY <2>2, WaitingJob DEF GateMove
  <2>3. CASE r # p /\ Requested(r)
    BY <2>3, RequestedFacts DEF GateMove
  <2> QED
    BY <2>1, <2>2, <2>3 DEF GateMove
<1>2. ASSUME NEW s \in Syncer
      PROVE  sync'[s] \in Memory /\ SyncOK(s)'
  <2>1. s \in Proc /\ sync[s] \in Memory /\ SyncOK(s)
    BY DEF Proc, EditInv
  <2>2. CASE job'[s].pc = "idle"
    <3>1. sync'[s] = NoSync
      BY <2>2 DEF Forgets
    <3> QED
      BY <3>1, NoSyncFacts, ForgottenSync DEF GateMove, TreeMove
  <2>3. CASE job'[s].pc # "idle"
    <3>1. sync'[s] = sync[s]
      BY <2>3 DEF Forgets
    <3>2. CASE ~Undisturbed(s)
      BY <2>1, <3>1, <3>2, StaysDisturbed DEF GateMove
    <3>3. CASE Undisturbed(s)
      <4>1. ~Requested(s)
        BY <2>1, <3>3 DEF SyncOK, Requested, For, Refreshing
      <4>2. CASE s = p
        BY <2>1, <2>3, <3>1, <3>3, <4>2 DEF GateMove
      <4>3. CASE s # p
        BY <2>1, <3>1, <4>1, <4>3, WaitingSync DEF GateMove
      <4> QED
        BY <4>2, <4>3
    <3> QED
      BY <2>1, <3>1, <3>2, <3>3
  <2> QED
    BY <2>2, <2>3
<1>3. sync' \in [Syncer -> Memory]
  <2>1. sync' = [s \in Syncer |-> sync'[s]]
    BY DEF Forgets
  <2> QED
    BY <1>2, <2>1
<1> QED
  BY <1>1, <1>2, <1>3 DEF EditInv, GateMove, TreeMove

LEMMA IdleIsFine ==
    ASSUME TreeTypes', NEW p \in Proc, job'[p] = Idle
    PROVE  JobShape(p)' /\ ReadOK(p)'
BY IdleIsJob DEF TreeTypes, JobShape, ReadOK, Counts, Reading, For, Refreshing, Queries

LEMMA SameMarker ==
    ASSUME EditInv, TreeMove, marker' = marker
    PROVE  MarkerInv'
BY TellsLasts DEF EditInv, MarkerInv, GateTypes

LEMMA ReturnsFacts ==
    ASSUME GateTypes, NEW p \in Proc, Returns(p)
    PROVE  /\ job' \in [Proc -> Job] /\ OthersWait(p)
           /\ job[p].ret = "idle" => job'[p] = Idle
           /\ job[p].ret # "idle" =>
                /\ job'[p].pc = job[p].ret /\ job'[p].ret = job[p].ret /\ job'[p].q = job[p].q
                /\ job'[p].how = job[p].how /\ job'[p].edits = job[p].edits
                /\ job'[p].blind = job[p].blind
<1>1. job[p] \in Job
  BY DEF GateTypes
<1>2. CASE job[p].ret = "idle"
  BY <1>2, IdleIsJob, SetFacts DEF Returns
<1>3. CASE job[p].ret # "idle"
  <2> DEFINE new == [job[p] EXCEPT !.pc = job[p].ret, !.paths = {}, !.sig = {}]
  <2>1. new \in Job /\ new.pc = job[p].ret /\ new.ret = job[p].ret /\ new.q = job[p].q
        /\ new.how = job[p].how /\ new.edits = job[p].edits /\ new.blind = job[p].blind
    BY <1>1 DEF Job, Step, Sig
  <2>2. Set(p, new)
    BY <1>3 DEF Returns
  <2> HIDE DEF new
  <2>3. job' \in [Proc -> Job] /\ job'[p] = new /\ OthersWait(p)
    BY <2>1, <2>2, SetFacts
  <2> QED
    BY <1>3, <2>1, <2>3
<1> QED
  BY <1>2, <1>3

\* After a refresh, what was asked for is in the index.
LEMMA BackFromRefresh ==
    ASSUME EditInv, NEW p \in Proc, TreeMove, Quiet, UNCHANGED treeVars,
           job[p].pc \in Refreshing, Returns(p),
           Counts(p) /\ job[p].ret = "resolve" /\ job[p].q \in Vector => TakenIn(job[p].q)',
           \A s \in Syncer \cap {p} :
               Undisturbed(s) => \A f \in sync[s].want \cap Vector : TakenIn(f)'
    PROVE  /\ JobShape(p)' /\ ReadOK(p)'
           /\ \A s \in Syncer \cap {p} :
                Undisturbed(s) /\ job'[s].pc # "idle" /\ sync'[s] = sync[s] => SyncOK(s)'
<1>1. /\ job[p].ret = "idle" => job'[p] = Idle
      /\ job[p].ret # "idle" =>
           /\ job'[p].pc = job[p].ret /\ job'[p].ret = job[p].ret /\ job'[p].q = job[p].q
           /\ job'[p].how = job[p].how /\ job'[p].edits = job[p].edits
           /\ job'[p].blind = job[p].blind
  BY ReturnsFacts DEF EditInv
<1>2. UNCHANGED <<work, staged, committed, log, edits, ops>>
  BY DEF treeVars
<1>3. job[p] \in Job /\ JobShape(p) /\ ReadOK(p) /\ job[p].ret \in {"idle", "resolve", "add"}
  BY DEF EditInv, GateTypes, Job
<1>4. JobShape(p)' /\ ReadOK(p)'
  <2>1. CASE job[p].ret = "idle"
    BY <1>1, <2>1, IdleIsFine DEF TreeMove
  <2>2. CASE job[p].ret = "resolve"
    BY <1>1, <1>2, <1>3, <2>2 DEF JobShape, ReadOK, Counts, Sure, Reading, For, Refreshing, TakenIn
  <2>3. CASE job[p].ret = "add"
    BY <1>1, <1>2, <1>3, <2>3 DEF JobShape, ReadOK, Counts, Reading, For, Refreshing, TakenIn
  <2> QED
    BY <1>3, <2>1, <2>2, <2>3
<1>5. ASSUME NEW s \in Syncer \cap {p}, Undisturbed(s), job'[s].pc # "idle", sync'[s] = sync[s]
      PROVE  SyncOK(s)'
  <2>1. SyncOK(s) /\ s = p /\ sync[s].want \subseteq Path
    BY DEF EditInv, Memory
  <2>2. job[s].ret = "add" /\ job'[s].pc = "add" /\ job'[s].ret = "add"
    BY <1>1, <1>5, <2>1 DEF SyncOK, For, Refreshing
  <2>3. Undisturbed(s)'
    BY <1>2, <1>5 DEF Undisturbed
  <2>4. /\ \A f \in sync'[s].want \cap Vector : TakenIn(f)'
        /\ \A f \in sync'[s].want \cap File : sync'[s].valid[f] = work'[f]
    BY <1>2, <1>5, <2>1 DEF SyncOK, AfterCheck
  <2>5. staged' = committed'
    BY <1>2, <1>5, <2>1 DEF SyncOK, BeforeAdd
  <2>6. (sync[s].edits <= edits /\ sync[s].ops <= ops)'
    BY <1>2, <1>5, <2>1 DEF SyncOK
  <2> QED
    BY <2>2, <2>3, <2>4, <2>5, <2>6 DEF SyncOK, BeforeAdd, AfterCheck, AfterRefresh, Refreshing, For
<1> QED
  BY <1>4, <1>5

LEMMA RefreshMoves ==
    ASSUME EditInv, NEW p \in Proc, Refresh(p)
    PROVE  GateMove(p)
<1> DEFINE paths == ToRefresh(job[p].paths)
<1>1. job[p] \in Job /\ JobShape(p) /\ ReadOK(p) /\ paths \subseteq File
      /\ \A f \in (job[p].paths \cap Vector) \ paths : work[f] = 0
  BY DEF EditInv, GateTypes, Job, ToRefresh
<1>2. At(p, "refresh") /\ UNCHANGED <<treeVars, probe, recent, scratch, calls>>
      /\ UNCHANGED <<work, staged, committed, log, edits, ops>>
  BY DEF Refresh, treeVars
<1>3. CASE Ends(p) /\ UNCHANGED <<seen, marker>>
  <2>1. job' \in [Proc -> Job] /\ job'[p] = Idle /\ OthersWait(p)
    BY <1>3, EndsFacts DEF EditInv
  <2>2. TreeMove
    BY <1>2, <1>3, StillTree
  <2>3. GateTypes'
    BY <1>2, <1>3, <2>1 DEF EditInv, GateTypes
  <2> QED
    BY <1>3, <2>1, <2>2, <2>3, IdleIsFine, IdleIsJob, SameMarker DEF GateMove, OthersWait, TreeMove
<1>4. CASE paths = {} /\ Returns(p) /\ UNCHANGED <<seen, marker>>
  <2>1. job' \in [Proc -> Job] /\ OthersWait(p)
    BY <1>4, ReturnsFacts DEF EditInv
  <2>2. TreeMove /\ Quiet
    BY <1>2, <1>4, StillTree DEF Quiet
  <2>3. GateTypes'
    BY <1>2, <1>4, <2>1 DEF EditInv, GateTypes
  <2>4. Counts(p) /\ job[p].ret = "resolve" /\ job[p].q \in Vector => TakenIn(job[p].q)'
    <3>1. job[p].ret = "resolve" => job'[p].q = job[p].q
      BY <1>4, ReturnsFacts DEF EditInv
    <3> QED
      BY <1>1, <1>2, <1>4, <3>1 DEF ReadOK, At, TakenIn, Counts
  <2>5. \A s \in Syncer \cap {p} :
          Undisturbed(s) => \A f \in sync[s].want \cap Vector : TakenIn(f)'
    BY <1>1, <1>2, <1>4 DEF EditInv, SyncOK, At, TakenIn
  <2>6. /\ JobShape(p)' /\ ReadOK(p)'
        /\ \A s \in Syncer \cap {p} :
             Undisturbed(s) /\ job'[s].pc # "idle" /\ sync'[s] = sync[s] => SyncOK(s)'
    BY <1>2, <1>4, <2>2, <2>4, <2>5, BackFromRefresh DEF At, Refreshing
  <2> QED
    BY <1>4, <2>1, <2>2, <2>3, <2>6, SameMarker DEF GateMove, OthersWait
<1>5. CASE /\ paths # {}
           /\ seen' = Indexed(paths)
           /\ marker' = IF marker = None THEN None ELSE [marker EXCEPT !.gap = @ \cup paths]
           /\ To(p, "sign")
  <2>1. job' \in [Proc -> Job] /\ OthersWait(p) /\ OnlyPc(p, "sign")
    BY <1>5, ToFacts DEF EditInv, Step
  <2>2. /\ seen' \in Content
        /\ \A f \in File : seen'[f] \in {seen[f], work[f]}
        /\ \A f \in paths : seen'[f] = work[f]
    BY <1>1, <1>5 DEF Indexed, EditInv, GateTypes, TreeTypes, Content
  <2>3. TreeMove /\ Quiet
    BY <1>2, <2>2, StillTree DEF Quiet
  <2>4. marker # None => /\ marker' \in MarkerSet /\ marker'.sig = marker.sig
                         /\ marker'.head = marker.head /\ marker.gap \subseteq marker'.gap
    <3>1. CASE marker # None
      <4>1. marker \in MarkerSet /\ marker' = [marker EXCEPT !.gap = @ \cup paths]
        BY <1>5, <3>1 DEF EditInv, GateTypes
      <4> QED
        BY <1>1, <4>1 DEF MarkerSet
    <3> QED
      BY <3>1
  <2>5. marker' \in MarkerSet \cup {None} /\ MarkerInv'
    <3>1. CASE marker = None
      BY <1>5, <3>1 DEF MarkerInv
    <3>2. CASE marker # None
      <4>1. marker \in MarkerSet /\ Tells(marker)
        BY <3>2 DEF EditInv, GateTypes, MarkerInv
      <4>2. \A m \in MarkerSet : Tells(m) => Tells(m)'
        BY <2>3, TellsLasts
      <4>3. \A m \in MarkerSet :
              /\ m.sig = marker'.sig /\ m.head = marker'.head /\ m.gap \subseteq marker'.gap
              /\ Tells(m)'
              => Tells(marker)'
        BY DEF Tells
      <4> QED
        BY <2>4, <3>2, <4>1, <4>2, <4>3 DEF MarkerInv
    <3> QED
      BY <3>1, <3>2
  <2>6. GateTypes'
    BY <1>2, <2>1, <2>2, <2>5 DEF EditInv, GateTypes
  <2>7. For(job[p], "resolve") /\ Counts(p) /\ job[p].q \in Vector => TakenIn(job[p].q)'
    BY <1>1, <1>2, <2>1, <2>2 DEF ReadOK, For, At, TakenIn, OnlyPc, Counts
  <2>8. JobShape(p)' /\ ReadOK(p)'
    BY <1>1, <1>2, <2>1, <2>7 DEF At, OnlyPc, JobShape, ReadOK, Counts, Reading, For, Refreshing
  <2>9. ASSUME NEW s \in Syncer \cap {p}, Undisturbed(s), sync'[s] = sync[s]
        PROVE  SyncOK(s)'
    <3>1. SyncOK(s) /\ s = p /\ sync[s].want \subseteq Path
      BY DEF EditInv, Memory
    <3>2. Undisturbed(s)' /\ (sync[s].edits <= edits /\ sync[s].ops <= ops)'
      BY <1>2, <2>9, <3>1 DEF Undisturbed, SyncOK
    <3>3. /\ \A f \in sync'[s].want \cap Vector : TakenIn(f)'
          /\ \A f \in sync'[s].want \cap File : sync'[s].valid[f] = work'[f]
      BY <1>1, <1>2, <2>2, <2>9, <3>1 DEF SyncOK, AfterCheck, Refreshing, At, TakenIn
    <3>4. staged' = committed'
      BY <1>2, <2>9, <3>1 DEF SyncOK, BeforeAdd, At, Refreshing
    <3>5. For(job[s], "add")' /\ job'[s].pc = "sign"
      BY <1>2, <2>1, <2>9, <3>1 DEF SyncOK, For, Refreshing, OnlyPc, At
    <3> QED
      BY <3>2, <3>3, <3>4, <3>5 DEF SyncOK
  <2> QED
    BY <2>1, <2>3, <2>5, <2>6, <2>8, <2>9 DEF GateMove, OthersWait
<1> QED
  BY <1>3, <1>4, <1>5 DEF Refresh

\* Before and after a step from "sign" or "mark" on what the index has taken in.
LEMMA SyncGoesOn ==
    ASSUME EditInv, NEW s \in Syncer, UNCHANGED <<work, staged, committed, log, edits, ops, seen>>,
           Undisturbed(s), sync'[s] = sync[s], job[s].pc = "sign", job'[s].pc = "mark",
           job'[s].ret = job[s].ret
    PROVE  SyncOK(s)'
<1>1. SyncOK(s) /\ sync[s].want \subseteq Path
  BY DEF EditInv, Memory
<1>2. Undisturbed(s)'
  BY DEF Undisturbed
<1> QED
  BY <1>1, <1>2 DEF SyncOK, For, Refreshing, BeforeAdd, AfterCheck, AfterRefresh, TakenIn

LEMMA NewMarkerFacts ==
    ASSUME TreeTypes
    PROVE  NewMarker(Signature) \in MarkerSet /\ Tells(NewMarker(Signature))
<1>1. HeadCommit \in Nat /\ HeadCommit <= ops
  BY HeadFacts
<1>2. Signature \in Sig
  BY SignaturePaths
<1>3. NewMarker(Signature) \in MarkerSet
  BY <1>1, <1>2 DEF NewMarker, MarkerSet
<1>4. NewMarker(Signature).head = HeadCommit
      /\ NewMarker(Signature).gap = { f \in File : seen[f] # work[f] }
  BY DEF NewMarker
<1> QED
  BY <1>1, <1>3, <1>4 DEF Tells, TakenIn

LEMMA SignMoves ==
    ASSUME EditInv, NEW p \in Proc, Sign(p)
    PROVE  GateMove(p)
<1> DEFINE new == [job[p] EXCEPT !.pc = "mark", !.sig = NewMarker(Signature)]
<1>1. job[p] \in Job /\ JobShape(p) /\ ReadOK(p) /\ job[p].pc = "sign"
  BY DEF EditInv, GateTypes, Sign, At
<1>2. UNCHANGED <<work, staged, committed, log, edits, ops, seen, marker, probe, scratch>>
      /\ UNCHANGED treeVars
  BY DEF Sign, treeVars
<1>3. NewMarker(Signature) \in MarkerSet /\ Tells(NewMarker(Signature))
  BY NewMarkerFacts DEF EditInv
<1>4. /\ new \in Job /\ new.pc = "mark" /\ new.sig = NewMarker(Signature)
      /\ new.ret = job[p].ret /\ new.q = job[p].q /\ new.how = job[p].how
      /\ new.edits = job[p].edits /\ new.blind = job[p].blind
  BY <1>1, <1>3 DEF Job, Step
<1>5. Set(p, new)
  BY DEF Sign
<1> HIDE DEF new
<1>6. job' \in [Proc -> Job] /\ job'[p] = new /\ OthersWait(p)
  BY <1>4, <1>5, SetFacts DEF EditInv
<1>7. TreeMove
  BY <1>2, StillTree
<1>8. GateTypes'
  BY <1>2, <1>6 DEF EditInv, GateTypes
<1>9. JobShape(p)' /\ ReadOK(p)'
  <2>1. job'[p].sig \in MarkerSet /\ Tells(job[p].sig)'
    <3>1. \A m \in MarkerSet : Tells(m) => Tells(m)'
      BY <1>7, TellsLasts
    <3>2. \A m \in MarkerSet : m = job'[p].sig /\ Tells(m)' => Tells(job[p].sig)'
      BY DEF Tells
    <3> QED
      BY <1>3, <1>4, <1>6, <3>1, <3>2
  <2> QED
    BY <1>1, <1>2, <1>4, <1>6, <2>1 DEF JobShape, ReadOK, Counts, Reading, For, Refreshing, TakenIn
<1>10. ASSUME NEW s \in Syncer \cap {p}, Undisturbed(s), sync'[s] = sync[s]
       PROVE  SyncOK(s)'
  BY <1>1, <1>2, <1>4, <1>6, <1>10, SyncGoesOn
<1> QED
  BY <1>2, <1>6, <1>7, <1>8, <1>9, <1>10, SameMarker DEF GateMove, OthersWait

LEMMA MarkMoves ==
    ASSUME EditInv, NEW p \in Proc, Mark(p)
    PROVE  GateMove(p)
<1>1. job[p] \in Job /\ JobShape(p) /\ ReadOK(p) /\ job[p].pc = "mark"
      /\ job[p].sig \in MarkerSet /\ Tells(job[p].sig)
  BY DEF EditInv, GateTypes, Mark, At, JobShape
<1>2. UNCHANGED <<work, staged, committed, log, edits, ops, seen, scratch>> /\ UNCHANGED treeVars
  BY DEF Mark, treeVars
<1>3. marker' = job[p].sig /\ probe' = Found("healthy", {}) /\ Returns(p)
  BY DEF Mark
<1>4. job' \in [Proc -> Job] /\ OthersWait(p)
      /\ (job[p].ret = "resolve" => job'[p].q = job[p].q)
  BY <1>3, ReturnsFacts DEF EditInv
<1>5. TreeMove /\ Quiet
  BY <1>2, StillTree DEF Quiet
<1>6. MarkerInv'
  <2>1. \A m \in MarkerSet : Tells(m) => Tells(m)'
    BY <1>5, TellsLasts
  <2>2. \A m \in MarkerSet : m = marker' /\ Tells(m)' => Tells(marker)'
    BY DEF Tells
  <2> QED
    BY <1>1, <1>3, <2>1, <2>2 DEF MarkerInv
<1>7. GateTypes'
  <2>1. probe' \in ProbeSet
    BY <1>3 DEF Found, ProbeSet
  <2> QED
    BY <1>1, <1>2, <1>3, <1>4, <2>1 DEF EditInv, GateTypes
<1>8. Counts(p) /\ job[p].ret = "resolve" /\ job[p].q \in Vector => TakenIn(job[p].q)'
  BY <1>1, <1>2, <1>4 DEF ReadOK, Counts, TakenIn
<1>9. \A s \in Syncer \cap {p} :
        Undisturbed(s) => \A f \in sync[s].want \cap Vector : TakenIn(f)'
  BY <1>1, <1>2 DEF EditInv, SyncOK, AfterRefresh, TakenIn
<1>10. /\ JobShape(p)' /\ ReadOK(p)'
       /\ \A s \in Syncer \cap {p} :
            Undisturbed(s) /\ job'[s].pc # "idle" /\ sync'[s] = sync[s] => SyncOK(s)'
  BY <1>1, <1>2, <1>3, <1>5, <1>8, <1>9, BackFromRefresh DEF Refreshing
<1> QED
  BY <1>4, <1>5, <1>6, <1>7, <1>10 DEF GateMove, OthersWait

\* Steps at which no sync is.
LEMMA NoSyncThere ==
    ASSUME EditInv, NEW p \in Proc, job[p].pc \in Reading \cup {"idle", "failed", "answered"}
    PROVE  p \in Syncer => ~Undisturbed(p)
BY DEF EditInv, SyncOK, Reading, For, Refreshing

\* A step that changes only where p is in its read.
ReadMove(p) ==
    /\ UNCHANGED <<treeVars, seen>>
    /\ marker' = marker
    /\ probe' \in ProbeSet \cup {None}
    /\ scratch' \in [Query -> [sig : Sig, got : Content] \cup {None}]
    /\ job' \in [Proc -> Job]
    /\ job[p].pc \in Reading \cup {"idle", "failed", "answered"}
    /\ \A r \in Proc \ {p} : job'[r] = job[r] \/ Requested(r)
    /\ JobShape(p)' /\ ReadOK(p)'

LEMMA ReadMoves ==
    ASSUME EditInv, NEW p \in Proc, ReadMove(p)
    PROVE  GateMove(p)
<1>1. TreeMove
  BY StillTree DEF ReadMove
<1>2. GateTypes'
  BY DEF ReadMove, EditInv, GateTypes
<1>3. MarkerInv'
  BY <1>1, SameMarker DEF ReadMove
<1>4. p \in Syncer => ~Undisturbed(p)
  BY NoSyncThere DEF ReadMove
<1> QED
  BY <1>1, <1>2, <1>3, <1>4 DEF GateMove, ReadMove

LEMMA RequestFacts ==
    ASSUME NEW paths \in SUBSET Path
    PROVE  LET new == [Idle EXCEPT !.pc = "refresh", !.paths = paths] IN
           /\ new \in Job /\ new.pc = "refresh" /\ new.ret = "idle" /\ new.q = None
           /\ new.edits = 0
BY IdleIsJob DEF Job, Step

LEMMA HookCallMoves ==
    ASSUME EditInv, NEW h \in Hook, NEW paths \in SUBSET File, HookCall(h, paths)
    PROVE  GateMove(h)
<1> DEFINE new == [Idle EXCEPT !.pc = "refresh", !.paths = paths]
<1>1. h \in Proc /\ job[h].pc = "idle" /\ UNCHANGED <<treeVars, seen, marker, probe, scratch>>
  BY DEF HookCall, At, Proc
<1>2. new \in Job /\ new.pc = "refresh" /\ new.ret = "idle" /\ new.q = None /\ new.edits = 0
  BY RequestFacts DEF Path
<1>3. Set(h, new)
  BY DEF HookCall, RequestOn, Set
<1> HIDE DEF new
<1>4. job' \in [Proc -> Job] /\ job'[h] = new /\ OthersWait(h)
  BY <1>1, <1>2, <1>3, SetFacts DEF EditInv
<1>5. Requested(h)
  BY <1>1, <1>2, <1>4 DEF Requested
<1>6. JobShape(h)' /\ ReadOK(h)'
  BY <1>1, <1>5, StillTree, RequestedFacts
<1> QED
  BY <1>1, <1>4, <1>6, ReadMoves DEF ReadMove, OthersWait, EditInv, GateTypes

LEMMA ContextCallMoves ==
    ASSUME EditInv, NEW p \in Proc, NEW q \in Query, ContextCall(p, q)
    PROVE  GateMove(p)
<1> DEFINE new == [Idle EXCEPT !.pc = "gate", !.q = q]
<1>1. job[p].pc = "idle" /\ UNCHANGED <<treeVars, seen, marker, probe, scratch>>
      /\ UNCHANGED edits
  BY DEF ContextCall, At, treeVars
<1>2. new \in Job /\ new.pc = "gate" /\ new.ret = "idle" /\ new.q = q /\ new.edits = 0
  BY IdleIsJob DEF Job, Step
<1>3. Set(p, new)
  BY DEF ContextCall
<1> HIDE DEF new
<1>4. job' \in [Proc -> Job] /\ job'[p] = new /\ OthersWait(p)
  BY <1>2, <1>3, SetFacts DEF EditInv
<1>5. JobShape(p)' /\ ReadOK(p)'
  BY <1>1, <1>2, <1>4 DEF JobShape, ReadOK, For, Refreshing, Reading, EditInv, TreeTypes
<1> QED
  BY <1>1, <1>4, <1>5, ReadMoves DEF ReadMove, OthersWait, EditInv, GateTypes

\* On to the answer, past a refresh.
LEMMA OnToResolve ==
    ASSUME EditInv, NEW p \in Proc, NEW how \in How,
           UNCHANGED <<treeVars, seen, marker, scratch>>, probe' \in ProbeSet \cup {None},
           job[p].pc \in Reading \cup {"idle", "failed", "answered"},
           job[p].q \in Query,
           how \in Told /\ Counts(p) => TakenIn(job[p].q),
           job' \in [Proc -> Job],
           job'[p] = [job[p] EXCEPT !.pc = "resolve", !.paths = {}, !.how = how],
           \A r \in Proc \ {p} : job'[r] = job[r] \/ Requested(r)
    PROVE  GateMove(p)
<1> DEFINE new == [job[p] EXCEPT !.pc = "resolve", !.paths = {}, !.how = how]
<1>1. job[p] \in Job /\ JobShape(p)
  BY DEF EditInv, GateTypes
<1>2. new.pc = "resolve" /\ new.ret = job[p].ret /\ new.q = job[p].q /\ new.how = how
      /\ new.edits = job[p].edits /\ new.blind = job[p].blind
  BY <1>1 DEF Job
<1>3. job'[p] = new
  OBVIOUS
<1> HIDE DEF new
<1>4. UNCHANGED <<work, edits>>
  BY DEF treeVars
<1>5. JobShape(p)' /\ ReadOK(p)'
  BY <1>1, <1>2, <1>3, <1>4
     DEF JobShape, ReadOK, For, Refreshing, Reading, Counts, Sure, TakenIn
<1> QED
  BY <1>5, ReadMoves DEF ReadMove, EditInv, GateTypes

\* What the steps of a read leave alone.
LEMMA GateMoves ==
    ASSUME EditInv, NEW p \in Proc, Gate(p)
    PROVE  GateMove(p)
<1>1. job[p] \in Job /\ JobShape(p) /\ job[p].pc = "gate"
      /\ UNCHANGED <<treeVars, seen, marker, probe, scratch>> /\ UNCHANGED edits
      /\ job[p].q \in Query
  BY DEF EditInv, GateTypes, Gate, At, treeVars, JobShape, Reading
<1>2. CASE Set(p, [job[p] EXCEPT !.pc = "resolve", !.paths = {}, !.how = "cached"])
  <2> DEFINE new == [job[p] EXCEPT !.pc = "resolve", !.paths = {}, !.how = "cached"]
  <2>1. new \in Job
    BY <1>1 DEF Job, Step, How
  <2>2. job' \in [Proc -> Job] /\ job'[p] = new /\ OthersWait(p)
    BY <1>2, <2>1, SetFacts DEF EditInv
  <2>3. "cached" \in How /\ "cached" \notin Told
    BY DEF How, Told
  <2> QED
    BY <1>1, <2>2, <2>3, OnToResolve DEF OthersWait, EditInv, GateTypes, Reading
<1>3. CASE To(p, "probe")
  <2>1. job' \in [Proc -> Job] /\ OnlyPc(p, "probe") /\ OthersWait(p)
    BY <1>3, ToFacts DEF EditInv, Step
  <2>2. JobShape(p)' /\ ReadOK(p)'
    BY <1>1, <2>1 DEF JobShape, ReadOK, For, Refreshing, Reading, OnlyPc
  <2> QED
    BY <1>1, <2>1, <2>2, ReadMoves DEF ReadMove, OthersWait, Reading, EditInv, GateTypes
<1> QED
  BY <1>2, <1>3 DEF Gate

LEMMA ProbeMoves ==
    ASSUME EditInv, NEW p \in Proc, Probe(p)
    PROVE  GateMove(p)
<1>1. job[p] \in Job /\ JobShape(p) /\ job[p].pc = "probe"
      /\ UNCHANGED <<treeVars, seen, marker, probe, scratch>>
      /\ UNCHANGED <<edits, work, staged, committed>>
      /\ job[p].q \in Query /\ edits \in Nat
  BY DEF EditInv, GateTypes, TreeTypes, Probe, At, treeVars, JobShape, Reading
<1>2. PICK sig \in {Signature, {}} :
         Set(p, [job[p] EXCEPT !.pc = "compare", !.sig = sig, !.edits = edits,
                               !.blind = sig # Signature \/ job[p].q \in Hidden])
  BY DEF Probe
<1>3. sig \in Sig /\ \A f \in File \ Hidden : f \notin SigPaths(Signature) => Clean(f)
  BY SignaturePaths DEF EditInv, Sig
<1> DEFINE new == [job[p] EXCEPT !.pc = "compare", !.sig = sig, !.edits = edits,
                                !.blind = sig # Signature \/ job[p].q \in Hidden]
<1>4. new \in Job /\ new.pc = "compare" /\ new.ret = job[p].ret /\ new.q = job[p].q
      /\ new.edits = edits /\ new.sig = sig
      /\ new.blind = (sig # Signature \/ job[p].q \in Hidden)
  BY <1>1, <1>3 DEF Job, Step
<1>5. Set(p, new)
  BY <1>2
<1> HIDE DEF new
<1>6. job' \in [Proc -> Job] /\ job'[p] = new /\ OthersWait(p)
  BY <1>4, <1>5, SetFacts DEF EditInv
<1>7. JobShape(p)' /\ ReadOK(p)'
  <2>1. JobShape(p)'
    BY <1>1, <1>3, <1>4, <1>6 DEF JobShape, For, Refreshing, Reading
  <2>2. ASSUME Counts(p)', job'[p].q \notin SigPaths(job'[p].sig)
        PROVE  Clean(job[p].q)'
    <3>1. sig = Signature /\ job'[p].q = job[p].q /\ job[p].q \in File \ Hidden
      BY <1>4, <1>6, <2>2 DEF Counts
    <3>2. Clean(job[p].q)
      BY <1>3, <1>4, <1>6, <2>2, <3>1
    <3> QED
      BY <1>1, <3>1, <3>2 DEF Clean
  <2> QED
    BY <1>4, <1>6, <2>1, <2>2 DEF ReadOK
<1> QED
  BY <1>1, <1>6, <1>7, ReadMoves DEF ReadMove, OthersWait, Reading, EditInv, GateTypes

\* What a marker that is not blind to a file says of it is so.
LEMMA MarkerIsRight ==
    ASSUME EditInv, NEW p \in Proc, Counts(p), job[p].pc = "compare", marker # None,
           marker.head = HeadCommit, job[p].q \notin marker.gap \cup SigPaths(marker.sig),
           job[p].q \notin SigPaths(job[p].sig)
    PROVE  TakenIn(job[p].q)
<1>1. Clean(job[p].q) /\ job[p].q \in File
  BY DEF EditInv, ReadOK, Counts
<1>2. Tells(marker)
  BY DEF EditInv, MarkerInv
<1> QED
  BY <1>1, <1>2 DEF Clean, Tells

LEMMA CompareMoves ==
    ASSUME EditInv, NEW p \in Proc, Compare(p)
    PROVE  GateMove(p)
<1>1. job[p] \in Job /\ JobShape(p) /\ job[p].pc = "compare"
      /\ UNCHANGED <<treeVars, seen, marker, scratch>>
      /\ UNCHANGED <<edits, work, staged, committed>>
      /\ job[p].q \in Query /\ job[p].sig \in Sig
  BY DEF EditInv, GateTypes, Compare, At, treeVars, JobShape, Reading
<1> DEFINE Blind == job[p].blind \/ marker = None \/ marker.head # HeadCommit
                      \/ job[p].q \in marker.gap \cup SigPaths(marker.sig)
<1> DEFINE Findings == IF marker # None
                         THEN {IF job[p].sig = marker.sig THEN Found("healthy", {})
                               ELSE Found("stale", Drift(job[p].sig, marker.sig))}
                         ELSE IF probe # None THEN {probe} ELSE {Status, Found("failed", {})}
<1>2. PICK found \in Findings :
        /\ probe' = found
        /\ Set(p, [job[p] EXCEPT !.pc = found.status, !.paths = found.drift, !.sig = {},
                                 !.blind = Blind])
  BY <1>1 DEF Compare, Job
<1>3. found \in ProbeSet
  <2>1. \A st \in {"healthy", "stale", "missing", "failed"}, d \in SUBSET Path :
          Found(st, d) \in ProbeSet
    BY DEF Found, ProbeSet
  <2>2. CASE marker # None
    <3>1. marker.sig \in Sig
      BY <2>2 DEF EditInv, GateTypes, MarkerSet
    <3>2. Drift(job[p].sig, marker.sig) \subseteq Path
      BY <1>1, <3>1, SigPathsFacts DEF Drift
    <3> QED
      BY <2>1, <2>2, <3>2
  <2>3. CASE marker = None /\ probe # None
    BY <2>3 DEF EditInv, GateTypes
  <2>4. CASE marker = None /\ probe = None
    <3>1. Status \in ProbeSet
      BY <2>1 DEF Status, Path
    <3> QED
      BY <2>1, <2>4, <3>1
  <2> QED
    BY <2>2, <2>3, <2>4
<1> DEFINE new == [job[p] EXCEPT !.pc = found.status, !.paths = found.drift, !.sig = {},
                                !.blind = Blind]
<1>4. Blind \in BOOLEAN
  BY <1>1 DEF Job
<1> HIDE DEF Blind
<1>5. /\ new \in Job /\ new.pc = found.status /\ new.paths = found.drift
      /\ new.ret = job[p].ret /\ new.q = job[p].q /\ new.edits = job[p].edits
      /\ new.blind = Blind /\ new.sig = {}
  BY <1>1, <1>3, <1>4 DEF Job, Step, ProbeSet, Sig
<1>6. Set(p, new)
  BY <1>2
<1> HIDE DEF new
<1>7. job' \in [Proc -> Job] /\ job'[p] = new /\ OthersWait(p)
  BY <1>5, <1>6, SetFacts DEF EditInv
<1>8. found.status \in {"healthy", "stale", "missing", "failed"}
  BY <1>3 DEF ProbeSet
<1>9. JobShape(p)'
  BY <1>1, <1>5, <1>7, <1>8 DEF JobShape, For, Refreshing, Reading
<1>10. ASSUME Counts(p)', found.status = "healthy"
              \/ (found.status = "stale" /\ job[p].q \notin found.drift)
       PROVE  TakenIn(job[p].q)'
  <2>1. /\ Counts(p) /\ marker # None /\ marker.head = HeadCommit
        /\ job[p].q \notin marker.gap \cup SigPaths(marker.sig)
    BY <1>1, <1>5, <1>7, <1>10 DEF Counts, Blind
  <2>2. job[p].q \notin SigPaths(job[p].sig)
    <3>1. CASE job[p].sig = marker.sig
      BY <2>1, <3>1
    <3>2. CASE job[p].sig # marker.sig
      <4>1. found = Found("stale", Drift(job[p].sig, marker.sig))
        BY <1>2, <2>1, <3>2
      <4>2. job[p].q \notin Drift(job[p].sig, marker.sig)
        BY <1>10, <4>1 DEF Found
      <4> QED
        BY <2>1, <4>2 DEF Drift
    <3> QED
      BY <3>1, <3>2
  <2>3. TakenIn(job[p].q)
    BY <1>1, <2>1, <2>2, MarkerIsRight
  <2> QED
    BY <1>1, <1>5, <1>7, <2>3 DEF TakenIn
<1>11. ReadOK(p)'
  BY <1>5, <1>7, <1>8, <1>10 DEF ReadOK
<1> QED
  BY <1>1, <1>2, <1>3, <1>7, <1>9, <1>11, ReadMoves
     DEF ReadMove, OthersWait, Reading, EditInv, GateTypes

LEMMA HealthyMoves ==
    ASSUME EditInv, NEW p \in Proc, Healthy(p)
    PROVE  GateMove(p)
<1> DEFINE new == [job[p] EXCEPT !.pc = "resolve", !.paths = {}, !.how = "healthy"]
<1>1. job[p] \in Job /\ JobShape(p) /\ ReadOK(p) /\ job[p].pc = "healthy" /\ job[p].q \in Query
      /\ UNCHANGED <<treeVars, seen, marker, probe, scratch>> /\ Set(p, new)
  BY DEF EditInv, GateTypes, Healthy, At, JobShape, Reading
<1>2. new \in Job /\ "healthy" \in How
  BY <1>1 DEF Job, Step, How
<1>3. job' \in [Proc -> Job] /\ job'[p] = new /\ OthersWait(p)
  BY <1>1, <1>2, SetFacts DEF EditInv
<1>4. Counts(p) => TakenIn(job[p].q)
  BY <1>1 DEF ReadOK
<1> QED
  BY <1>1, <1>2, <1>3, <1>4, OnToResolve DEF OthersWait, EditInv, GateTypes, Reading

\* The end of a read.
LEMMA EndMoves ==
    ASSUME EditInv, NEW p \in Proc, Ends(p), UNCHANGED <<treeVars, seen, marker, probe, scratch>>,
           job[p].pc \in Reading \cup {"idle", "failed", "answered"}
    PROVE  GateMove(p)
<1>1. job' \in [Proc -> Job] /\ job'[p] = Idle /\ OthersWait(p)
  BY EndsFacts DEF EditInv
<1>2. JobShape(p)' /\ ReadOK(p)'
  BY <1>1, StillTree, IdleIsFine DEF TreeMove
<1> QED
  BY <1>1, <1>2, ReadMoves DEF ReadMove, OthersWait, EditInv, GateTypes

LEMMA ProbeFailedMoves ==
    ASSUME EditInv, NEW p \in Proc, ProbeFailed(p)
    PROVE  GateMove(p)
BY EndMoves DEF ProbeFailed, At

LEMMA AnsweredMoves ==
    ASSUME EditInv, NEW p \in Proc, Answered(p)
    PROVE  GateMove(p)
BY EndMoves DEF Answered, At

LEMMA BootstrapMoves ==
    ASSUME EditInv, NEW p \in Proc, Bootstrap(p)
    PROVE  GateMove(p)
<1>1. job[p] \in Job /\ JobShape(p) /\ job[p].pc = "missing" /\ job[p].q \in Query
      /\ UNCHANGED <<treeVars, marker, scratch>> /\ UNCHANGED <<edits, work>>
  BY DEF EditInv, GateTypes, Bootstrap, At, treeVars, JobShape, Reading
<1>2. seen' \in {seen, work} /\ seen' \in Content \cup {None}
  BY DEF Bootstrap, EditInv, GateTypes, TreeTypes
<1>3. TreeMove
  BY <1>1, <1>2, StillTree
<1>4. probe' \in ProbeSet \cup {None}
  BY DEF Bootstrap, EditInv, GateTypes, Found, ProbeSet
<1> DEFINE new == [job[p] EXCEPT !.pc = "resolve", !.paths = {}, !.how = "built"]
<1>5. Ends(p) \/ Set(p, new)
  BY DEF Bootstrap
<1>6. /\ new \in Job /\ new.pc = "resolve" /\ new.ret = job[p].ret /\ new.q = job[p].q
      /\ new.how = "built" /\ new.edits = job[p].edits
  BY <1>1 DEF Job, Step, How
<1> HIDE DEF new
<1>7. job' \in [Proc -> Job] /\ OthersWait(p) /\ (job'[p] = Idle \/ job'[p] = new)
  BY <1>5, <1>6, EndsFacts, SetFacts DEF EditInv
<1>8. JobShape(p)' /\ ReadOK(p)'
  <2>1. CASE job'[p] = Idle
    BY <1>3, <2>1, IdleIsFine DEF TreeMove
  <2>2. CASE job'[p] = new
    BY <1>1, <1>6, <2>2 DEF JobShape, ReadOK, For, Refreshing, Reading, Told, Sure
  <2> QED
    BY <1>7, <2>1, <2>2
<1>9. GateTypes'
  BY <1>1, <1>2, <1>4, <1>7 DEF EditInv, GateTypes
<1>10. p \in Syncer => ~Undisturbed(p)
  BY <1>1, NoSyncThere DEF Reading
<1> QED
  BY <1>1, <1>3, <1>7, <1>8, <1>9, <1>10, SameMarker DEF GateMove, OthersWait

LEMMA RefreshFirstMoves ==
    ASSUME EditInv, NEW p \in Proc, RefreshFirst(p)
    PROVE  GateMove(p)
<1>1. job[p] \in Job /\ JobShape(p) /\ job[p].pc = "stale" /\ job[p].q \in Query
      /\ UNCHANGED <<treeVars, seen, marker, probe, scratch>> /\ UNCHANGED <<edits, work>>
  BY DEF EditInv, GateTypes, RefreshFirst, At, treeVars, JobShape, Reading
<1>2. ReadOK(p)
  BY DEF EditInv
<1>3. CASE Set(p, [job[p] EXCEPT !.pc = "resolve", !.paths = {}, !.how = "debounced"])
  <2> DEFINE new == [job[p] EXCEPT !.pc = "resolve", !.paths = {}, !.how = "debounced"]
  <2>1. new \in Job /\ "debounced" \in How /\ "debounced" \notin Told
    BY <1>1 DEF Job, Step, How, Told
  <2>2. job' \in [Proc -> Job] /\ job'[p] = new /\ OthersWait(p)
    BY <1>3, <2>1, SetFacts DEF EditInv
  <2> QED
    BY <1>1, <2>1, <2>2, OnToResolve DEF OthersWait, EditInv, GateTypes, Reading
<1>4. CASE Set(p, [job[p] EXCEPT !.pc = "refresh", !.ret = "resolve", !.how = "refreshed"])
  <2> DEFINE new == [job[p] EXCEPT !.pc = "refresh", !.ret = "resolve", !.how = "refreshed"]
  <2>1. /\ new \in Job /\ new.pc = "refresh" /\ new.ret = "resolve" /\ new.q = job[p].q
        /\ new.paths = job[p].paths /\ new.edits = job[p].edits /\ new.how = "refreshed"
        /\ new.blind = job[p].blind
    BY <1>1 DEF Job, Step, How
  <2>2. Set(p, new)
    BY <1>4
  <2> HIDE DEF new
  <2>3. job' \in [Proc -> Job] /\ job'[p] = new /\ OthersWait(p)
    BY <2>1, <2>2, SetFacts DEF EditInv
  <2>4. JobShape(p)' /\ ReadOK(p)'
    BY <1>1, <1>2, <2>1, <2>3 DEF JobShape, ReadOK, For, Refreshing, Reading, Counts, TakenIn
  <2> QED
    BY <1>1, <2>3, <2>4, ReadMoves DEF ReadMove, OthersWait, Reading, EditInv, GateTypes
<1> QED
  BY <1>3, <1>4 DEF RefreshFirst

LEMMA RefreshBehindMoves ==
    ASSUME EditInv, NEW p \in Proc, RefreshBehind(p)
    PROVE  GateMove(p)
<1> DEFINE on == [job[p] EXCEPT !.pc = "resolve", !.paths = {}, !.how = "behind"]
           paths == IF job[p].paths = {} THEN {job[p].q} \cap File ELSE job[p].paths
<1>1. job[p] \in Job /\ JobShape(p) /\ ReadOK(p) /\ job[p].pc = "stale" /\ job[p].q \in Query
      /\ UNCHANGED <<treeVars, seen, marker, probe, scratch>> /\ paths \in SUBSET Path
  BY DEF EditInv, GateTypes, RefreshBehind, At, JobShape, Reading, Job, Path
<1>2. job[p].q \in File => job[p].q \notin job[p].paths
  BY DEF RefreshBehind, MustWait, Overlap, FilesAt
<1>3. on \in Job /\ "behind" \in How
  BY <1>1 DEF Job, Step, How
<1>4. Counts(p) => TakenIn(job[p].q)
  BY <1>1, <1>2 DEF ReadOK, Counts
<1>5. CASE Set(p, on)
  <2>1. job' \in [Proc -> Job] /\ job'[p] = on /\ OthersWait(p)
    BY <1>3, <1>5, SetFacts DEF EditInv
  <2> QED
    BY <1>1, <1>3, <1>4, <2>1, OnToResolve DEF OthersWait, EditInv, GateTypes, Reading
<1>6. CASE \E h \in Hook : At(h, "idle") /\ job' = [RequestOn(h, paths) EXCEPT ![p] = on]
  <2>1. PICK h \in Hook : At(h, "idle") /\ job' = [RequestOn(h, paths) EXCEPT ![p] = on]
    BY <1>6
  <2> DEFINE new == [Idle EXCEPT !.pc = "refresh", !.paths = paths]
  <2> HIDE DEF paths
  <2>2. new \in Job /\ new.pc = "refresh" /\ new.ret = "idle" /\ new.q = None /\ new.edits = 0
    BY <1>1, RequestFacts
  <2>3. h \in Proc /\ h # p /\ job[h].pc = "idle"
    BY <1>1, <2>1 DEF At, Proc
  <2>4. job' = [[job EXCEPT ![h] = new] EXCEPT ![p] = on]
    BY <2>1 DEF RequestOn
  <2> HIDE DEF new, on
  <2>5. /\ job' \in [Proc -> Job] /\ job'[p] = on /\ job'[h] = new
        /\ \A r \in Proc \ {p, h} : job'[r] = job[r]
    BY <1>3, <2>2, <2>3, <2>4 DEF EditInv, GateTypes
  <2>6. Requested(h)
    BY <2>2, <2>3, <2>5 DEF Requested
  <2> QED
    BY <1>1, <1>3, <1>4, <2>5, <2>6, OnToResolve DEF EditInv, GateTypes, Reading, on
<1> QED
  BY <1>5, <1>6 DEF RefreshBehind

LEMMA ResolveMoves ==
    ASSUME EditInv, NEW p \in Proc, Resolve(p)
    PROVE  GateMove(p)
<1> DEFINE e == scratch[job[p].q]
<1>1. job[p] \in Job /\ JobShape(p) /\ ReadOK(p) /\ job[p].pc = "resolve" /\ job[p].q \in Query
      /\ UNCHANGED <<treeVars, seen, marker, probe, scratch>> /\ UNCHANGED <<edits, work>>
  BY DEF EditInv, GateTypes, Resolve, At, JobShape, Reading, treeVars
<1>2. CASE /\ e # None
           /\ Set(p, [job[p] EXCEPT !.pc = "answered", !.got = e.got, !.how = "scratchpad"])
  <2> DEFINE new == [job[p] EXCEPT !.pc = "answered", !.got = e.got, !.how = "scratchpad"]
  <2>1. e.got \in Content
    BY <1>1, <1>2 DEF EditInv, GateTypes
  <2>2. /\ new \in Job /\ new.pc = "answered" /\ new.how = "scratchpad"
        /\ new.edits = job[p].edits
    BY <1>1, <2>1 DEF Job, Step, How
  <2>3. Set(p, new)
    BY <1>2
  <2> HIDE DEF new
  <2>4. job' \in [Proc -> Job] /\ job'[p] = new /\ OthersWait(p)
    BY <2>2, <2>3, SetFacts DEF EditInv
  <2>5. JobShape(p)' /\ ReadOK(p)'
    BY <1>1, <2>2, <2>4 DEF JobShape, ReadOK, For, Refreshing, Reading, Told, Sure
  <2> QED
    BY <1>1, <2>4, <2>5, ReadMoves DEF ReadMove, OthersWait, Reading, EditInv, GateTypes
<1>3. CASE Set(p, [job[p] EXCEPT !.pc = "query", !.sig = Signature])
  <2> DEFINE new == [job[p] EXCEPT !.pc = "query", !.sig = Signature]
  <2>1. Signature \in Sig
    BY SignaturePaths DEF EditInv
  <2>2. /\ new \in Job /\ new.pc = "query" /\ new.how = job[p].how /\ new.sig = Signature
        /\ new.edits = job[p].edits /\ new.q = job[p].q /\ new.blind = job[p].blind
    BY <1>1, <2>1 DEF Job, Step
  <2>3. Set(p, new)
    BY <1>3
  <2> HIDE DEF new
  <2>4. job' \in [Proc -> Job] /\ job'[p] = new /\ OthersWait(p)
    BY <2>2, <2>3, SetFacts DEF EditInv
  <2>5. JobShape(p)' /\ ReadOK(p)'
    BY <1>1, <2>1, <2>2, <2>4
     DEF JobShape, ReadOK, For, Refreshing, Reading, Counts, Sure, TakenIn
  <2> QED
    BY <1>1, <2>4, <2>5, ReadMoves DEF ReadMove, OthersWait, Reading, EditInv, GateTypes
<1> QED
  BY <1>2, <1>3 DEF Resolve

LEMMA SearchMoves ==
    ASSUME EditInv, NEW p \in Proc, Search(p)
    PROVE  GateMove(p)
<1>1. job[p] \in Job /\ JobShape(p) /\ ReadOK(p) /\ job[p].pc = "query" /\ job[p].q \in Query
      /\ UNCHANGED <<treeVars, seen, marker, probe>> /\ UNCHANGED <<edits, work>>
      /\ job[p].sig \in Sig
  BY DEF EditInv, GateTypes, Search, At, JobShape, Reading, treeVars
<1>2. CASE Ends(p) /\ UNCHANGED scratch
  BY <1>1, <1>2, EndMoves DEF Reading
<1>3. CASE /\ seen # None
           /\ scratch' = [scratch EXCEPT ![job[p].q] = [sig |-> job[p].sig, got |-> seen]]
           /\ Set(p, [job[p] EXCEPT !.pc = "answered", !.got = seen, !.sig = {}])
  <2> DEFINE new == [job[p] EXCEPT !.pc = "answered", !.got = seen, !.sig = {}]
  <2>1. seen \in Content
    BY <1>3 DEF EditInv, GateTypes
  <2>2. /\ new \in Job /\ new.pc = "answered" /\ new.how = job[p].how /\ new.got = seen
        /\ new.edits = job[p].edits /\ new.q = job[p].q /\ new.blind = job[p].blind
    BY <1>1, <2>1 DEF Job, Step, Sig
  <2>3. Set(p, new)
    BY <1>3
  <2> HIDE DEF new
  <2>4. job' \in [Proc -> Job] /\ job'[p] = new /\ OthersWait(p)
    BY <2>2, <2>3, SetFacts DEF EditInv
  <2>5. JobShape(p)' /\ ReadOK(p)'
    BY <1>1, <2>2, <2>4
     DEF JobShape, ReadOK, For, Refreshing, Reading, Counts, Sure, TakenIn
  <2>6. scratch' \in [Query -> [sig : Sig, got : Content] \cup {None}]
    BY <1>1, <1>3, <2>1 DEF EditInv, GateTypes
  <2> QED
    BY <1>1, <2>4, <2>5, <2>6, ReadMoves DEF ReadMove, OthersWait, Reading, EditInv, GateTypes
<1> QED
  BY <1>2, <1>3 DEF Search

LEMMA GateStepMoves ==
    ASSUME EditInv, NEW p \in Proc, GateStep(p)
    PROVE  GateMove(p)
BY RefreshMoves, SignMoves, MarkMoves, ContextCallMoves, GateMoves, ProbeMoves, CompareMoves,
   HealthyMoves, ProbeFailedMoves, BootstrapMoves, RefreshFirstMoves, RefreshBehindMoves,
   ResolveMoves, SearchMoves, AnsweredMoves DEF GateStep
-------------------------------------------------------------------------------
(***************************************************************************)
(* The steps of edit_code, and of everybody else.                          *)
(***************************************************************************)
LEMMA AddMoves ==
    ASSUME EditInv, NEW files, Add(files), seen' = seen
    PROVE  /\ TreeMove /\ UNCHANGED <<work, committed, log, edits>> /\ ops' = ops + 1
           /\ \A f \in File : staged'[f] = IF f \in files THEN work[f] ELSE staged[f]
<1>1. /\ UNCHANGED <<work, committed, log, edits>> /\ ops' = ops + 1
      /\ staged' \in Content
      /\ \A f \in File : staged'[f] = IF f \in files THEN work[f] ELSE staged[f]
  BY DEF Add, EditInv, TreeTypes, Content
<1>2. TreeTypes'
  BY <1>1 DEF EditInv, TreeTypes
<1>3. Quiet /\ Moved
  BY <1>1 DEF Quiet, Moved, EditInv, TreeTypes
<1> QED
  BY <1>1, <1>2, <1>3 DEF TreeMove

LEMMA CommitMoves ==
    ASSUME EditInv, CommitStaged, seen' = seen
    PROVE  TreeMove /\ UNCHANGED <<work, staged, edits>> /\ ops' = ops + 1 /\ committed' = staged
<1>1. /\ UNCHANGED <<work, staged, edits>> /\ ops' = ops + 1 /\ committed' = staged
      /\ log' = Append(log, ops') /\ ops \in Nat /\ log \in Seq(Nat) /\ Len(log) \in Nat
  BY LenProperties DEF CommitStaged, EditInv, TreeTypes
<1>2. /\ log' \in Seq(Nat) /\ Len(log') = Len(log) + 1 /\ log' # <<>>
      /\ \A i \in 1 .. Len(log') : log'[i] = IF i = Len(log') THEN ops' ELSE log[i]
  BY <1>1, AppendProperties
<1>3. HeadCommit' = ops'
  BY <1>1, <1>2 DEF HeadCommit
<1>4. TreeTypes'
  BY <1>1, <1>2 DEF EditInv, TreeTypes
<1>5. Quiet /\ Moved
  BY <1>1, <1>3 DEF Quiet, Moved, EditInv, TreeTypes
<1> QED
  BY <1>1, <1>4, <1>5 DEF TreeMove

LEMMA AmendMoves ==
    ASSUME EditInv, AmendHead, seen' = seen
    PROVE  TreeMove
<1>1. /\ UNCHANGED <<work, staged, edits>> /\ ops' = ops + 1 /\ committed' = staged
      /\ log' = [log EXCEPT ![Len(log)] = ops'] /\ ops \in Nat /\ log \in Seq(Nat)
      /\ Len(log) \in Nat /\ Len(log) >= 1 /\ log # <<>>
  BY HeadFacts DEF AmendHead, EditInv, TreeTypes
<1>2. /\ log' \in Seq(Nat) /\ Len(log') = Len(log)
      /\ \A i \in 1 .. Len(log') : log'[i] = IF i = Len(log) THEN ops' ELSE log[i]
  BY <1>1, ExceptSeq
<1>3. HeadCommit' = ops' /\ log' # <<>>
  BY <1>1, <1>2 DEF HeadCommit
<1>4. TreeTypes'
  <2>1. \A i \in 1 .. Len(log) : log[i] \in Nat /\ log[i] <= ops
    BY <1>1, ElementOfSeq DEF EditInv, TreeTypes
  <2>2. ASSUME NEW i \in 1 .. Len(log')
        PROVE  log'[i] <= ops'
    <3>1. i \in 1 .. Len(log) /\ log'[i] = IF i = Len(log) THEN ops' ELSE log[i]
      BY <1>2
    <3>2. ops' = ops + 1 /\ ops \in Nat
      BY <1>1
    <3> QED
      BY <2>1, <3>1, <3>2
  <2>3. committed' \in Content /\ ops' \in Nat
    BY <1>1 DEF EditInv, TreeTypes
  <2>4. UNCHANGED <<work, staged, edits>> /\ committed' = staged
    BY <1>1
  <2> QED
    BY <1>2, <1>3, <2>2, <2>3, <2>4 DEF EditInv, TreeTypes
<1>5. Quiet /\ Moved
  BY <1>1, <1>3 DEF Quiet, Moved, EditInv, TreeTypes
<1> QED
  BY <1>4, <1>5 DEF TreeMove

LEMMA OthersMove ==
    ASSUME EditInv, NEW f \in File, Others(f), seen' = seen
    PROVE  TreeMove
<1>1. CASE EditFile(f) \/ DeleteFile(f)
  <2>1. /\ edits' = edits + 1 /\ UNCHANGED <<staged, committed, log, ops>>
        /\ work' = [work EXCEPT ![f] = 1 + edits'] \/ work' = [work EXCEPT ![f] = 0]
    BY <1>1 DEF EditFile, DeleteFile
  <2>2. TreeTypes'
    <3>1. edits \in Nat /\ work \in Content /\ \A g \in File : work[g] <= 1 + edits
      BY DEF EditInv, TreeTypes
    <3>2. work' \in Content /\ \A g \in File : work'[g] <= 1 + edits'
      BY <2>1, <3>1 DEF Content
    <3>3. \A g \in File : staged[g] <= 1 + edits' /\ committed[g] <= 1 + edits'
      BY <2>1 DEF EditInv, TreeTypes, Content
    <3> QED
      BY <2>1, <3>1, <3>2, <3>3 DEF EditInv, TreeTypes
  <2>3. Edited /\ Moved
    BY <2>1 DEF Edited, Moved, EditInv, TreeTypes, Content
  <2> QED
    BY <2>2, <2>3 DEF TreeMove
<1>2. CASE StageByHand(f)
  BY <1>2, AddMoves DEF StageByHand
<1> QED
  BY <1>1, <1>2 DEF Others

SyncMove(s) ==
    /\ TreeMove
    /\ UNCHANGED <<seen, marker, probe, scratch>>
    /\ job' \in [Proc -> Job] /\ OthersWait(s)
    /\ sync' \in [Syncer -> Memory] /\ \A t \in Syncer \ {s} : sync'[t] = sync[t]
    /\ JobShape(s)' /\ ReadOK(s)' /\ SyncOK(s)'

LEMMA SyncKeeps ==
    ASSUME EditInv, NEW s \in Syncer, SyncMove(s)
    PROVE  EditInv'
<1>1. GateTypes' /\ TreeTypes'
  BY DEF SyncMove, EditInv, GateTypes, TreeMove
<1>2. MarkerInv'
  BY SameMarker DEF SyncMove
<1>3. \A r \in Proc : JobShape(r)' /\ ReadOK(r)'
  BY WaitingJob DEF SyncMove, OthersWait
<1>4. \A t \in Syncer : SyncOK(t)'
  BY WaitingSync DEF SyncMove, OthersWait, Proc
<1> QED
  BY <1>1, <1>2, <1>3, <1>4 DEF EditInv, SyncMove

LEMMA SetSyncFacts ==
    ASSUME EditInv, NEW s \in Syncer, NEW new \in Memory, SetSync(s, new)
    PROVE  /\ sync' \in [Syncer -> Memory] /\ sync'[s] = new
           /\ \A t \in Syncer \ {s} : sync'[t] = sync[t]
BY DEF SetSync, EditInv

\* A process inside edit_code is in no read.
Editing == {"dirty", "validate", "check", "add", "staged", "commit", "committed", "push",
            "closeout", "amend"}

LEMMA EditingJob ==
    ASSUME TreeTypes', NEW s \in Syncer, job'[s].edits <= edits',
           job'[s].pc \in Editing \/ (job'[s].pc = "refresh" /\ job'[s].ret = "add")
    PROVE  JobShape(s)' /\ ReadOK(s)'
BY DEF JobShape, ReadOK, Editing, Reading, For, Refreshing

\* Nobody who does nothing is in the middle of a sync.
LEMMA StopMoves ==
    ASSUME EditInv, NEW s \in Syncer, TreeMove, UNCHANGED <<seen, marker, probe, scratch>>,
           Ends(s), SetSync(s, NoSync)
    PROVE  SyncMove(s)
<1>1. s \in Proc
  BY DEF Proc
<1>2. job' \in [Proc -> Job] /\ job'[s] = Idle /\ OthersWait(s)
  BY <1>1, EndsFacts DEF EditInv
<1>3. /\ sync' \in [Syncer -> Memory] /\ sync'[s] = NoSync
      /\ \A t \in Syncer \ {s} : sync'[t] = sync[t]
  BY NoSyncFacts, SetSyncFacts
<1> QED
  BY <1>1, <1>2, <1>3, IdleIsFine, ForgottenSync DEF SyncMove, TreeMove

\* The call stops, and nothing else happens.
LEMMA StopsMoves ==
    ASSUME EditInv, NEW s \in Syncer, Stops(s)
    PROVE  SyncMove(s)
BY StillTree, StopMoves DEF Stops, Same

\* On to the next step, with or without more in memory.
LEMMA NextStep ==
    ASSUME EditInv, NEW s \in Syncer, NEW pc \in Step, TreeMove,
           UNCHANGED <<seen, marker, probe, scratch>>,
           pc \in Editing, To(s, pc), NEW new \in Memory, sync' = [sync EXCEPT ![s] = new],
           SyncOK(s)'
    PROVE  SyncMove(s)
<1>1. s \in Proc
  BY DEF Proc
<1>2. job' \in [Proc -> Job] /\ OnlyPc(s, pc) /\ OthersWait(s)
  BY <1>1, ToFacts DEF EditInv
<1>3. sync' \in [Syncer -> Memory] /\ \A t \in Syncer \ {s} : sync'[t] = sync[t]
  BY SetSyncFacts DEF SetSync
<1>4. job'[s].edits <= edits'
  <2>1. job[s].edits <= edits /\ job[s].edits \in Nat /\ edits \in Nat /\ edits' \in Nat
        /\ edits' >= edits
    BY <1>1 DEF EditInv, JobShape, TreeMove, TreeTypes, Quiet, Edited, GateTypes, Job
  <2> QED
    BY <1>2, <2>1 DEF OnlyPc
<1> QED
  BY <1>2, <1>3, <1>4, EditingJob DEF SyncMove, TreeMove, OnlyPc

\* What is known of a run when it is at a step.
LEMMA RunFacts ==
    ASSUME EditInv, NEW s \in Syncer
    PROVE  /\ s \in Proc /\ job[s] \in Job /\ JobShape(s) /\ SyncOK(s) /\ sync[s] \in Memory
           /\ sync[s].want \subseteq Path /\ sync[s].scope \subseteq Path
           /\ sync[s].edits \in Nat /\ sync[s].ops \in Nat
           /\ sync[s].edits <= edits /\ sync[s].ops <= ops
           /\ edits \in Nat /\ ops \in Nat
BY DEF EditInv, Proc, GateTypes, TreeTypes, Memory, SyncOK

LEMMA SyncCallMoves ==
    ASSUME EditInv, NEW s \in Syncer, NEW scope \in SUBSET Path, SyncCall(s, scope)
    PROVE  SyncMove(s)
<1> DEFINE new == [Idle EXCEPT !.pc = "dirty"]
           mem == [NoSync EXCEPT !.scope = scope, !.clean = staged = committed,
                                 !.edits = edits, !.ops = ops]
<1>1. UNCHANGED <<treeVars, seen, marker, probe, scratch>>
      /\ UNCHANGED <<work, staged, committed, edits, ops>>
      /\ Set(s, new) /\ SetSync(s, mem)
  BY DEF SyncCall, Calls, treeVars
<1>2. new \in Job /\ new.pc = "dirty" /\ new.edits = 0
  BY IdleIsJob DEF Job, Step
<1>3. mem \in Memory /\ mem.clean = (staged = committed) /\ mem.edits = edits /\ mem.ops = ops
      /\ mem.want = {}
  BY NoSyncFacts DEF Memory, EditInv, TreeTypes
<1> HIDE DEF new, mem
<1>4. job' \in [Proc -> Job] /\ job'[s] = new /\ OthersWait(s)
  BY <1>1, <1>2, RunFacts, SetFacts DEF EditInv
<1>5. sync' \in [Syncer -> Memory] /\ sync'[s] = mem /\ \A t \in Syncer \ {s} : sync'[t] = sync[t]
  BY <1>1, <1>3, SetSyncFacts
<1>6. TreeMove
  BY <1>1, StillTree
<1>7. JobShape(s)' /\ ReadOK(s)'
  BY <1>1, <1>2, <1>4, <1>6, RunFacts, EditingJob DEF Editing, TreeMove
<1>8. SyncOK(s)'
  <2>1. Undisturbed(s)' => staged' = committed'
    BY <1>1, <1>3, <1>5 DEF Undisturbed
  <2>2. edits <= edits' /\ ops <= ops'
    BY <1>1, RunFacts
  <2> QED
    BY <1>1, <1>2, <1>3, <1>4, <1>5, <2>1, <2>2
     DEF SyncOK, Undisturbed, AfterCheck, AfterRefresh, BeforeAdd, Refreshing
<1> QED
  BY <1>1, <1>4, <1>5, <1>6, <1>7, <1>8 DEF SyncMove

LEMMA ProbeDirtyMoves ==
    ASSUME EditInv, NEW s \in Syncer, ProbeDirty(s)
    PROVE  SyncMove(s)
<1>1. PICK want \in {InScope(sync[s].scope), sync[s].scope} :
        IF want = {} THEN Stops(s)
        ELSE /\ To(s, "validate")
             /\ SetSync(s, [sync[s] EXCEPT !.want = want, !.scope = {}])
             /\ UNCHANGED <<treeVars, closed>> /\ Same
  BY DEF ProbeDirty
<1>2. CASE Stops(s)
  BY <1>2, StopsMoves
<1>3. CASE /\ To(s, "validate")
           /\ SetSync(s, [sync[s] EXCEPT !.want = want, !.scope = {}])
           /\ UNCHANGED <<treeVars, closed>> /\ Same
  <2> DEFINE new == [sync[s] EXCEPT !.want = want, !.scope = {}]
  <2>0. want \in SUBSET Path
    BY RunFacts, SignaturePaths, SigPathsFacts DEF InScope, DirtyPaths, EditInv
  <2>1. new \in Memory /\ new.clean = sync[s].clean /\ new.edits = sync[s].edits
        /\ new.ops = sync[s].ops
    BY <2>0, RunFacts DEF Memory
  <2>2. sync' = [sync EXCEPT ![s] = new]
    BY <1>3 DEF SetSync
  <2> HIDE DEF new
  <2>3. sync'[s] = new
    BY <2>1, <2>2, SetSyncFacts DEF SetSync
  <2>4. UNCHANGED <<work, staged, committed, edits, ops>> /\ UNCHANGED <<treeVars, seen>>
        /\ UNCHANGED <<seen, marker, probe, scratch>>
    BY <1>3 DEF Same, treeVars
  <2>5. OnlyPc(s, "validate") /\ job[s].pc = "dirty"
    BY <1>3, RunFacts, ToFacts DEF Step, EditInv, ProbeDirty, At
  <2>6. SyncOK(s)'
    BY <2>1, <2>3, <2>4, <2>5, RunFacts
       DEF SyncOK, Undisturbed, AfterCheck, AfterRefresh, BeforeAdd, Refreshing, OnlyPc
  <2> QED
    BY <1>3, <2>1, <2>2, <2>4, <2>6, StillTree, NextStep DEF Step, Editing
<1> QED
  BY <1>1, <1>2, <1>3

LEMMA ValidateMoves ==
    ASSUME EditInv, NEW s \in Syncer, Validate(s)
    PROVE  SyncMove(s)
<1>1. CASE Stops(s)
  BY <1>1, StopsMoves
<1>2. CASE /\ Passes(s, "validate", "check")
           /\ SetSync(s, [sync[s] EXCEPT !.valid = [f \in sync[s].want \cap File |-> work[f]]])
  <2> DEFINE valid == [f \in sync[s].want \cap File |-> work[f]]
             new == [sync[s] EXCEPT !.valid = valid]
  <2>1. valid \in Checked /\ \A f \in sync[s].want \cap File : valid[f] = work[f]
    <3>1. valid \in [sync[s].want \cap File -> Nat]
      BY RunFacts DEF EditInv, TreeTypes, Content
    <3> QED
      BY <3>1, RunFacts DEF Checked
  <2> HIDE DEF valid
  <2>2. new \in Memory /\ new.clean = sync[s].clean /\ new.edits = sync[s].edits
        /\ new.ops = sync[s].ops /\ new.want = sync[s].want /\ new.valid = valid
    BY <2>1, RunFacts DEF Memory
  <2>3. sync' = [sync EXCEPT ![s] = new]
    BY <1>2 DEF SetSync, valid
  <2> HIDE DEF new
  <2>4. sync'[s] = new
    BY <2>2, <2>3, SetSyncFacts DEF SetSync
  <2>5. UNCHANGED <<work, staged, committed, edits, ops>> /\ UNCHANGED <<treeVars, seen>>
        /\ UNCHANGED <<seen, marker, probe, scratch>>
    BY <1>2 DEF Passes, Same, treeVars
  <2>6. OnlyPc(s, "check") /\ job[s].pc = "validate" /\ To(s, "check")
    BY <1>2, RunFacts, ToFacts DEF Step, EditInv, Passes, At
  <2>7. SyncOK(s)'
    BY <2>1, <2>2, <2>4, <2>5, <2>6, RunFacts
       DEF SyncOK, Undisturbed, AfterCheck, AfterRefresh, BeforeAdd, Refreshing, OnlyPc
  <2> QED
    BY <2>2, <2>3, <2>5, <2>6, <2>7, StillTree, NextStep DEF Step, Editing
<1> QED
  BY <1>1, <1>2 DEF Validate

LEMMA RefreshWantedMoves ==
    ASSUME EditInv, NEW s \in Syncer, RefreshWanted(s)
    PROVE  SyncMove(s)
<1> DEFINE new == [job[s] EXCEPT !.pc = "refresh", !.ret = "add", !.paths = sync[s].want]
<1>1. UNCHANGED <<treeVars, seen, marker, probe, scratch>>
      /\ UNCHANGED <<work, staged, committed, edits, ops>>
      /\ Set(s, new) /\ sync' = sync /\ job[s].pc = "check"
  BY DEF RefreshWanted, Same, treeVars, At
<1>2. new \in Job /\ new.pc = "refresh" /\ new.ret = "add" /\ new.paths = sync[s].want
      /\ new.edits = job[s].edits
  BY RunFacts DEF Job, Step
<1> HIDE DEF new
<1>3. job' \in [Proc -> Job] /\ job'[s] = new /\ OthersWait(s)
  BY <1>1, <1>2, RunFacts, SetFacts DEF EditInv
<1>4. TreeMove
  BY <1>1, StillTree
<1>5. JobShape(s)' /\ ReadOK(s)'
  BY <1>1, <1>2, <1>3, <1>4, RunFacts, EditingJob DEF JobShape, TreeMove
<1>6. SyncOK(s)'
  BY <1>1, <1>2, <1>3, RunFacts
     DEF SyncOK, Undisturbed, AfterCheck, AfterRefresh, BeforeAdd, Refreshing, For
<1> QED
  BY <1>1, <1>3, <1>4, <1>5, <1>6 DEF SyncMove, EditInv

\* A step of a run that keeps the tree and what it remembers.
LEMMA JustOn ==
    ASSUME EditInv, NEW s \in Syncer, NEW pc \in Step \cap Editing,
           UNCHANGED treeVars, Same, To(s, pc), sync' = sync, SyncOK(s)'
    PROVE  SyncMove(s)
<1>1. sync' = [sync EXCEPT ![s] = sync[s]]
  BY DEF EditInv
<1> QED
  BY <1>1, RunFacts, StillTree, NextStep DEF Same

LEMMA GitAddMoves ==
    ASSUME EditInv, NEW s \in Syncer, GitAdd(s)
    PROVE  SyncMove(s)
<1>1. CASE Stops(s)
  BY <1>1, StopsMoves
<1>2. CASE /\ Add(ToStage(s))
           /\ To(s, "staged")
           /\ SetSync(s, [sync[s] EXCEPT !.ops = @ + 1])
           /\ UNCHANGED closed /\ Same
  <2> DEFINE new == [sync[s] EXCEPT !.ops = @ + 1]
  <2>1. new \in Memory /\ new.clean = sync[s].clean /\ new.edits = sync[s].edits
        /\ new.ops = sync[s].ops + 1 /\ new.want = sync[s].want /\ new.valid = sync[s].valid
    BY RunFacts DEF Memory
  <2>2. sync' = [sync EXCEPT ![s] = new]
    BY <1>2 DEF SetSync
  <2> HIDE DEF new
  <2>3. sync'[s] = new
    BY <2>1, <2>2, SetSyncFacts DEF SetSync
  <2>4. /\ TreeMove /\ UNCHANGED <<work, committed, log, edits>> /\ ops' = ops + 1
        /\ \A f \in File : staged'[f] = IF f \in FilesAt(sync[s].want) THEN work[f] ELSE staged[f]
        /\ UNCHANGED <<seen, marker, probe, scratch>>
    BY <1>2, AddMoves DEF Same, ToStage
  <2>5. OnlyPc(s, "staged") /\ job[s].pc = "add" /\ To(s, "staged")
    BY <1>2, RunFacts, ToFacts DEF Step, EditInv, GitAdd, At
  <2>6. SyncOK(s)'
    <3>1. (sync[s].edits <= edits /\ sync[s].ops <= ops)'
      BY <2>1, <2>3, <2>4, RunFacts
    <3>2. ASSUME Undisturbed(s)'
          PROVE  /\ \A f \in sync[s].want \cap File : sync[s].valid[f] = work[f]
                 /\ \A f \in sync[s].want \cap Vector : TakenIn(f)
                 /\ staged = committed
      <4>1. Undisturbed(s)
        BY <2>1, <2>3, <2>4, <3>2, RunFacts DEF Undisturbed
      <4> QED
        BY <2>5, <4>1, RunFacts DEF SyncOK, AfterCheck, AfterRefresh, BeforeAdd
    <3>3. ASSUME Undisturbed(s)'
          PROVE  /\ \A f \in sync'[s].want \cap File : sync'[s].valid[f] = work'[f]
                 /\ \A f \in sync'[s].want \cap Vector : TakenIn(f)'
                 /\ \A f \in File :
                      staged'[f] = IF f \in FilesAt(sync'[s].want) THEN work'[f] ELSE committed'[f]
      BY <2>1, <2>3, <2>4, <3>2, <3>3 DEF TakenIn
    <3> QED
      BY <2>5, <3>1, <3>3 DEF SyncOK, OnlyPc, BeforeAdd, Refreshing
  <2> QED
    BY <2>1, <2>2, <2>4, <2>5, <2>6, NextStep DEF Step, Editing
<1> QED
  BY <1>1, <1>2 DEF GitAdd

LEMMA CheckStagedMoves ==
    ASSUME EditInv, NEW s \in Syncer, CheckStaged(s)
    PROVE  SyncMove(s)
<1>1. CASE Stops(s)
  BY <1>1, StopsMoves
<1>2. CASE Passes(s, "staged", "commit") /\ UNCHANGED sync
  <2>1. UNCHANGED treeVars /\ Same /\ To(s, "commit") /\ sync' = sync /\ job[s].pc = "staged"
        /\ UNCHANGED <<work, staged, committed, edits, ops, seen>>
    BY <1>2 DEF Passes, At, treeVars, Same
  <2>2. OnlyPc(s, "commit")
    BY <2>1, RunFacts, ToFacts DEF Step, EditInv
  <2>3. SyncOK(s)'
    BY <2>1, <2>2, RunFacts
       DEF SyncOK, Undisturbed, AfterCheck, AfterRefresh, BeforeAdd, Refreshing, OnlyPc, TakenIn
  <2> QED
    BY <2>1, <2>3, JustOn DEF Step, Editing
<1> QED
  BY <1>1, <1>2 DEF CheckStaged

LEMMA GitCommitMoves ==
    ASSUME EditInv, NEW s \in Syncer, GitCommit(s)
    PROVE  SyncMove(s)
<1>1. CASE Stops(s)
  BY <1>1, StopsMoves
<1>2. CASE /\ staged # committed
           /\ CommitStaged
           /\ To(s, "committed")
           /\ SetSync(s, [sync[s] EXCEPT !.ops = @ + 1, !.put = staged, !.sha = ops',
                                         !.took = { f \in File : staged[f] # committed[f] }])
           /\ UNCHANGED closed /\ Same
  <2> DEFINE took == { f \in File : staged[f] # committed[f] }
             sha == ops'
             new == [sync[s] EXCEPT !.ops = @ + 1, !.put = staged, !.sha = sha, !.took = took]
  <2>1. /\ TreeMove /\ UNCHANGED <<work, staged, edits>> /\ ops' = ops + 1 /\ committed' = staged
        /\ UNCHANGED <<seen, marker, probe, scratch>>
    BY <1>2, CommitMoves DEF Same
  <2>2. /\ new \in Memory /\ new.clean = sync[s].clean /\ new.edits = sync[s].edits
        /\ new.ops = sync[s].ops + 1 /\ new.want = sync[s].want /\ new.valid = sync[s].valid
        /\ new.put = staged /\ new.took = took
    <3>1. took \subseteq File /\ sha \in Nat /\ staged \in Content
      BY <2>1, RunFacts DEF EditInv, TreeTypes
    <3>2. sync[s] \in Memory /\ sync[s].ops + 1 \in Nat
      BY RunFacts
    <3> HIDE DEF took, sha
    <3>3. new \in Memory
      BY <3>1, <3>2 DEF Memory
    <3> QED
      BY <3>2, <3>3 DEF Memory
  <2>3. sync' = [sync EXCEPT ![s] = new]
    BY <1>2 DEF SetSync
  <2> HIDE DEF new
  <2>4. sync'[s] = new
    BY <2>2, <2>3, SetSyncFacts DEF SetSync
  <2>5. OnlyPc(s, "committed") /\ job[s].pc = "commit" /\ To(s, "committed")
    BY <1>2, RunFacts, ToFacts DEF Step, EditInv, GitCommit, At
  <2>6. SyncOK(s)'
    <3>1. (sync[s].edits <= edits /\ sync[s].ops <= ops)'
      BY <2>1, <2>2, <2>4, RunFacts
    <3>2. ASSUME Undisturbed(s)'
          PROVE  /\ \A f \in sync[s].want \cap File : sync[s].valid[f] = work[f]
                 /\ \A f \in sync[s].want \cap Vector : TakenIn(f)
                 /\ \A f \in File :
                      staged[f] = IF f \in FilesAt(sync[s].want) THEN work[f] ELSE committed[f]
      <4>1. Undisturbed(s)
        BY <2>1, <2>2, <2>4, <3>2, RunFacts DEF Undisturbed
      <4> QED
        BY <2>5, <4>1, RunFacts DEF SyncOK, AfterCheck, AfterRefresh
    <3>3. ASSUME Undisturbed(s)'
          PROVE  /\ \A f \in sync'[s].want \cap File :
                      sync'[s].valid[f] = work'[f] /\ sync'[s].put[f] = work'[f]
                 /\ \A f \in sync'[s].want \cap Vector : TakenIn(f)'
                 /\ sync'[s].took \subseteq FilesAt(sync'[s].want)
      <4>1. sync[s].want \cap File \subseteq FilesAt(sync[s].want)
        BY DEF FilesAt
      <4>2. sync'[s].took \subseteq FilesAt(sync'[s].want)
        BY <2>2, <2>4, <3>2, <3>3
      <4> QED
        BY <2>1, <2>2, <2>4, <3>2, <3>3, <4>1, <4>2, RunFacts DEF TakenIn
    <3> QED
      BY <2>5, <3>1, <3>3 DEF SyncOK, OnlyPc, BeforeAdd, Refreshing
  <2> QED
    BY <2>1, <2>2, <2>3, <2>5, <2>6, NextStep DEF Step, Editing
<1> QED
  BY <1>1, <1>2 DEF GitCommit

\* A run that only has to push remembers nothing.
LEMMA PushStep ==
    ASSUME EditInv, NEW s \in Syncer, TreeMove, UNCHANGED <<seen, marker, probe, scratch>>,
           To(s, "push"), SetSync(s, NoSync)
    PROVE  SyncMove(s)
<1>1. sync' = [sync EXCEPT ![s] = NoSync] /\ sync'[s] = NoSync
  BY NoSyncFacts, SetSyncFacts DEF SetSync
<1>2. SyncOK(s)'
  BY <1>1, ForgottenSync DEF TreeMove
<1> QED
  BY <1>1, <1>2, NoSyncFacts, NextStep DEF Step, Editing

LEMMA AfterCommitMoves ==
    ASSUME EditInv, NEW s \in Syncer, AfterCommit(s)
    PROVE  SyncMove(s)
<1>1. CASE Stops(s)
  BY <1>1, StopsMoves
<1>2. CASE Passes(s, "committed", "push") /\ SetSync(s, NoSync)
  BY <1>2, StillTree, PushStep DEF Passes, Same
<1> QED
  BY <1>1, <1>2 DEF AfterCommit

LEMMA GitPushMoves ==
    ASSUME EditInv, NEW s \in Syncer, GitPush(s)
    PROVE  SyncMove(s)
<1>1. /\ UNCHANGED <<work, staged, committed, log, edits, ops>>
      /\ UNCHANGED <<seen, marker, probe, scratch>> /\ Ends(s) /\ SetSync(s, NoSync)
  BY DEF GitPush, Same
<1>2. TreeMove
  <2>1. TreeTypes'
    BY <1>1 DEF EditInv, TreeTypes
  <2> QED
    BY <1>1, <2>1 DEF TreeMove, Quiet, Moved, EditInv, TreeTypes
<1> QED
  BY <1>1, <1>2, StopMoves

LEMMA VerdictCallMoves ==
    ASSUME EditInv, NEW s \in Syncer, VerdictCall(s)
    PROVE  SyncMove(s)
<1> DEFINE new == [Idle EXCEPT !.pc = "closeout"]
           mem == [NoSync EXCEPT !.sha = HeadCommit]
<1>1. UNCHANGED <<treeVars, seen, marker, probe, scratch>> /\ UNCHANGED edits
      /\ Set(s, new) /\ SetSync(s, mem)
  BY DEF VerdictCall, Calls, treeVars
<1>2. new \in Job /\ new.pc = "closeout" /\ new.edits = 0
  BY IdleIsJob DEF Job, Step
<1>3. mem \in Memory /\ mem.clean = FALSE /\ mem.edits = 0 /\ mem.ops = 0
  BY NoSyncFacts, HeadFacts DEF Memory, EditInv
<1> HIDE DEF new, mem
<1>4. job' \in [Proc -> Job] /\ job'[s] = new /\ OthersWait(s)
  BY <1>1, <1>2, RunFacts, SetFacts DEF EditInv
<1>5. sync' \in [Syncer -> Memory] /\ sync'[s] = mem /\ \A t \in Syncer \ {s} : sync'[t] = sync[t]
  BY <1>1, <1>3, SetSyncFacts
<1>6. TreeMove
  BY <1>1, StillTree
<1>7. JobShape(s)' /\ ReadOK(s)'
  BY <1>1, <1>2, <1>4, <1>6, RunFacts, EditingJob DEF Editing, TreeMove
<1>8. SyncOK(s)'
  BY <1>3, <1>5, <1>6 DEF SyncOK, Undisturbed, TreeMove, TreeTypes
<1> QED
  BY <1>1, <1>4, <1>5, <1>6, <1>7, <1>8 DEF SyncMove

LEMMA CloseOutMoves ==
    ASSUME EditInv, NEW s \in Syncer, CloseOut(s)
    PROVE  SyncMove(s)
<1>1. CASE Stops(s)
  BY <1>1, StopsMoves
<1>2. CASE To(s, "amend") /\ UNCHANGED <<treeVars, sync>> /\ Same
  <2>1. sync' = sync /\ UNCHANGED treeVars /\ TreeMove
    BY <1>2, StillTree DEF Same
  <2>2. ~Undisturbed(s)
    BY RunFacts DEF SyncOK, CloseOut, At, For, Refreshing
  <2>3. SyncOK(s)'
    BY <2>1, <2>2, StaysDisturbed
  <2> QED
    BY <1>2, <2>1, <2>3, JustOn DEF Step, Editing
<1> QED
  BY <1>1, <1>2 DEF CloseOut

LEMMA AmendSyncMoves ==
    ASSUME EditInv, NEW s \in Syncer, Amend(s)
    PROVE  SyncMove(s)
<1>1. UNCHANGED <<seen, marker, probe, scratch>>
  BY DEF Amend, Same
<1>2. TreeMove
  BY <1>1, AmendMoves, StillTree DEF Amend
<1>3. SetSync(s, NoSync)
  BY DEF Amend
<1>4. CASE Ends(s)
  BY <1>1, <1>2, <1>3, <1>4, StopMoves
<1>5. CASE To(s, "push")
  BY <1>1, <1>2, <1>3, <1>5, PushStep
<1> QED
  BY <1>4, <1>5 DEF Amend

LEMMA SyncStepMoves ==
    ASSUME EditInv, NEW s \in Syncer, SyncStep(s)
    PROVE  SyncMove(s)
BY ProbeDirtyMoves, ValidateMoves, RefreshWantedMoves, GitAddMoves, CheckStagedMoves,
   GitCommitMoves, AfterCommitMoves, GitPushMoves, VerdictCallMoves, CloseOutMoves,
   AmendSyncMoves DEF SyncStep
-------------------------------------------------------------------------------
LEMMA EditStart == Init => EditInv
<1> SUFFICES ASSUME Init
             PROVE  EditInv
  OBVIOUS
<1>1. TreeTypes
  <2>1. log = <<0>> /\ Len(log) = 1 /\ log[1] = 0
    BY DEF Init, TreeInit
  <2>2. /\ work = [f \in File |-> 1] /\ committed = staged /\ edits = 0 /\ ops = 0
        /\ staged \in Content /\ \A f \in File : staged[f] <= 1
    BY DEF Init, TreeInit, Content
  <2> QED
    BY <2>1, <2>2 DEF TreeTypes, Content
<1>2. GateTypes
  BY IdleIsJob DEF Init, GateInit, GateTypes
<1>3. sync \in [Syncer -> Memory] /\ \A s \in Syncer : sync[s] = NoSync
  BY NoSyncFacts DEF Init
<1>4. MarkerInv
  BY DEF Init, GateInit, MarkerInv
<1>5. ASSUME NEW p \in Proc
      PROVE  JobShape(p) /\ ReadOK(p)
  <2>1. job[p] = Idle
    BY DEF Init, GateInit
  <2> QED
    BY <1>1, <2>1, IdleIsJob DEF TreeTypes, JobShape, ReadOK, Reading, For, Refreshing
<1>6. \A s \in Syncer : SyncOK(s)
  BY <1>1, <1>3, NoSyncFacts DEF SyncOK, Undisturbed, TreeTypes
<1> QED
  BY <1>1, <1>2, <1>3, <1>4, <1>5, <1>6 DEF EditInv

\* Where nobody moves, only the tree or what is remembered for a while.
LEMMA NobodyMoves ==
    ASSUME EditInv, TreeMove, UNCHANGED <<seen, marker, job, sync>>,
           probe' \in ProbeSet \cup {None},
           scratch' \in [Query -> [sig : Sig, got : Content] \cup {None}]
    PROVE  EditInv'
<1>1. GateTypes' /\ TreeTypes' /\ sync' \in [Syncer -> Memory]
  BY DEF EditInv, GateTypes, TreeMove
<1>2. MarkerInv'
  BY SameMarker
<1>3. \A r \in Proc : JobShape(r)' /\ ReadOK(r)'
  BY WaitingJob
<1>4. \A t \in Syncer : SyncOK(t)'
  BY WaitingSync
<1> QED
  BY <1>1, <1>2, <1>3, <1>4 DEF EditInv

LEMMA EditSteps == EditInv /\ [Next]_vars => EditInv'
<1> SUFFICES ASSUME EditInv, [Next]_vars
             PROVE  EditInv'
  OBVIOUS
<1>0. /\ probe \in ProbeSet \cup {None}
      /\ scratch \in [Query -> [sig : Sig, got : Content] \cup {None}]
  BY DEF EditInv, GateTypes
<1>1. ASSUME NEW p \in Proc, GateStep(p), Forgets
      PROVE  EditInv'
  BY <1>1, GateStepMoves, GateKeeps
<1>2. ASSUME NEW h \in Hook, NEW paths \in SUBSET File, HookCall(h, paths), Forgets
      PROVE  EditInv'
  <2>1. h \in Proc
    BY DEF Proc
  <2> QED
    BY <1>2, <2>1, HookCallMoves, GateKeeps
<1>3. CASE Forget /\ UNCHANGED <<closed, sync>>
  <2>1. UNCHANGED <<treeVars, seen, marker, job, sync>>
    BY <1>3 DEF Forget
  <2>2. probe' \in ProbeSet \cup {None}
        /\ scratch' \in [Query -> [sig : Sig, got : Content] \cup {None}]
    BY <1>0, <1>3 DEF Forget
  <2> QED
    BY <2>1, <2>2, StillTree, NobodyMoves
<1>4. ASSUME NEW s \in Syncer, NEW scope \in SUBSET Path, SyncCall(s, scope)
      PROVE  EditInv'
  BY <1>4, SyncCallMoves, SyncKeeps
<1>5. ASSUME NEW s \in Syncer, SyncStep(s)
      PROVE  EditInv'
  BY <1>5, SyncStepMoves, SyncKeeps
<1>6. ASSUME NEW f \in File, Others(f), UNCHANGED <<gateVars, closed, sync>>
      PROVE  EditInv'
  BY <1>0, <1>6, OthersMove, NobodyMoves DEF gateVars
<1>7. CASE CommitByHand /\ UNCHANGED <<gateVars, closed, sync>>
  BY <1>0, <1>7, CommitMoves, NobodyMoves DEF gateVars, CommitByHand
<1>8. CASE UNCHANGED vars
  <2>1. UNCHANGED <<treeVars, seen, marker, probe, scratch, job, sync>>
    BY <1>8 DEF vars, gateVars
  <2> QED
    BY <1>0, <2>1, StillTree, NobodyMoves
<1> QED
  BY <1>1, <1>2, <1>3, <1>4, <1>5, <1>6, <1>7, <1>8 DEF Next

\* The inductive invariant of the work tree, the gate and edit_code: contents and
\* commits are new each time, a marker of this HEAD tells the truth, and what each
\* read and each sync has seen to at its step (read_code_health.py, edit_code.py).
THEOREM EditInvariant == Spec => []EditInv
<1> QED
  BY EditStart, EditSteps, PTL DEF Spec

\* FirstEditIsRead: the first edit of a file since a marker was made with it clean and
\* indexed reaches the reads that this marker lets through or sends to a refresh - of
\* files that git names by themselves, and whose suffix the refresh takes.
THEOREM FirstEditReachesReads == Spec => []FirstEditIsRead
<1>1. EditInv => FirstEditIsRead
  BY DEF EditInv, FirstEditIsRead, ReadOK, Counts, Sure, Told, Gated
<1> QED
  BY <1>1, EditInvariant, PTL

\* CommitIsWhatWasChecked: a run of edit_code sync that nobody disturbed commits the
\* files of its scope and no others: what git named, as it was validated, and as the
\* index took it if its suffix is one that the refresh takes.
THEOREM CommitIsValidated == Spec => []CommitIsWhatWasChecked
<1>1. EditInv => CommitIsWhatWasChecked
  BY DEF EditInv, CommitIsWhatWasChecked, SyncOK, At, AfterCheck, AfterRefresh, TakenIn
<1> QED
  BY <1>1, EditInvariant, PTL
===============================================================================
