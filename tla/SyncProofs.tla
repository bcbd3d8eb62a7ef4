----------------------------- MODULE SyncProofs -----------------------------
(***************************************************************************)
(* Proofs about the projections of tasks.md into ClickUp and Trello (Sync  *)
(* and Trello): any number of syncs at once, any tasks, groups and titles, *)
(* any calls that fail, syncs that die and manifests that are lost.        *)
(***************************************************************************)
EXTENDS Trello, TLAPS, FiniteSetTheorems, SequenceTheorems, WellFoundedInduction

Id == Item \cup {NoItem}
Key == Group \cup {None}
Label == Title \cup {None}
CardSet == [key : Node, in : Id, title : Label]
Run == [pc : Phase, plan : Plan \cup {None}, man : Manifest, left : SUBSET Node,
        at : Node \cup {None}, alone : BOOLEAN]

Walk == {"next", "create", "rename", "save"}

\* The walk never leaves a task behind whose group it has still to visit.
Shape(j) ==
    /\ j.pc # "idle" => j.plan \in Plan
    /\ j.pc \in Walk =>
         /\ j.left \subseteq Planned(j.plan)
         /\ \A t \in Planned(j.plan) \cap Task : t \notin j.left => j.plan.at[t] \notin j.left
    /\ j.pc \in {"create", "rename", "save"} =>
         /\ j.at \in j.left
         /\ j.at \in Task => j.plan.at[j.at] \notin j.left
    /\ j.pc \in {"rename", "save"} => j.man.ids[j.at] # NoItem
    /\ j.pc = "rename" => j.at \in Task

SyncTypes ==
    /\ plan \in Plan
    /\ board \in Seq(CardSet) /\ Len(board) <= MaxItems
    /\ saved \in Manifest \cup {None}
    /\ job \in [Syncer -> Run]
    /\ starts \subseteq [task : Task, card : Item, status : {"ready", "done"}]
    /\ settled \in BOOLEAN
    /\ \A s \in Syncer : Shape(job[s])

USE Distinct, NoManifest
-------------------------------------------------------------------------------
Others(s) == \A r \in Syncer \ {s} : job'[r] = job[r]

LEMMA PutFacts ==
    ASSUME job \in [Syncer -> Run], NEW s \in Syncer, NEW j \in Run, Put(s, j)
    PROVE  job' \in [Syncer -> Run] /\ job'[s] = j /\ Others(s)
BY DEF Put, Others

LEMMA IdleIsRun == Idle \in Run /\ Shape(Idle) /\ Idle.pc = "idle" /\ Idle.man = Blank
<1>1. Blank \in Manifest
  BY DEF Blank, Manifest, Meta, NoMeta, NoItem
<1> QED
  BY <1>1 DEF Idle, Run, Phase, Shape, Walk

LEMMA EndFacts ==
    ASSUME job \in [Syncer -> Run], NEW s \in Syncer, End(s)
    PROVE  job' \in [Syncer -> Run] /\ job'[s] = Idle /\ Others(s)
BY IdleIsRun, PutFacts DEF End

LEMMA NamedFacts ==
    ASSUME SyncTypes, NEW n, NEW c, NEW i \in Named(n, c)
    PROVE  i \in DOMAIN board /\ i \in Item /\ board[i].key = n /\ board[i].in = c
<1>1. i \in DOMAIN board /\ board[i].key = n /\ board[i].in = c
  BY DEF Named
<1>2. DOMAIN board = 1 .. Len(board) /\ Len(board) \in Nat
  BY LenProperties DEF SyncTypes
<1> QED
  BY <1>1, <1>2 DEF SyncTypes, Item

\* What is recognised is one of what was found, or nothing.
LEMMA SoleFacts ==
    ASSUME NEW S
    PROVE  Sole(S) = NoItem \/ Sole(S) \in S
<1>1. CASE Cardinality(S) = 1
  <2>1. S # {}
    BY <1>1, FS_EmptySet
  <2> QED
    BY <1>1, <2>1 DEF Sole
<1> QED
  BY <1>1 DEF Sole

LEMMA PlannedFacts ==
    ASSUME NEW p \in Plan
    PROVE  /\ Planned(p) \subseteq Node
           /\ \A t \in Task : t \in Planned(p) => p.at[t] \in Group
           /\ \A t \in Task : p.at[t] \in Key /\ p.title[t] \in Title
BY DEF Planned, Plan, Node, Root, Key

LEMMA RecordedFacts ==
    ASSUME NEW m \in Manifest, NEW p \in Plan, NEW n \in Planned(p), NEW i \in Item
    PROVE  LET r == Recorded(m, p, n, i) IN
           /\ r \in Manifest
           /\ r.ids = [m.ids EXCEPT ![n] = i]
           /\ \A t \in Task : r.meta[t].id = IF t = n THEN i ELSE m.meta[t].id
<1> DEFINE ids == [m.ids EXCEPT ![n] = i]
           r == Recorded(m, p, n, i)
<1>1. ids \in [Node -> Id] /\ m.meta \in [Task -> Meta] /\ m.list \in Id /\ n \in Node
  BY PlannedFacts DEF Manifest, Id
<1>2. r.ids = ids
  BY DEF Recorded
<1>3. r.list \in Id
  BY <1>1 DEF Recorded, Id
<1>4. CASE n \in Task
  <2> DEFINE e == [id |-> i, parent |-> ids[p.at[n]], group |-> p.at[n], title |-> p.title[n]]
  <2>1. p.at[n] \in Group /\ p.title[n] \in Title
    BY <1>4, PlannedFacts
  <2>2. e \in Meta
    BY <1>1, <2>1 DEF Meta, Node, Id
  <2>3. r.meta = [m.meta EXCEPT ![n] = e]
    BY <1>4 DEF Recorded
  <2>4. e.id = i
    OBVIOUS
  <2> HIDE DEF e
  <2>5. r.meta \in [Task -> Meta] /\ \A t \in Task : r.meta[t].id = IF t = n THEN i
                                                               ELSE m.meta[t].id
    BY <1>1, <1>4, <2>2, <2>3, <2>4
  <2>6. r = [ids |-> r.ids, meta |-> r.meta, list |-> r.list]
    BY DEF Recorded
  <2> HIDE DEF r
  <2>7. r \in Manifest
    BY <1>1, <1>2, <1>3, <2>5, <2>6 DEF Manifest, Id
  <2>8. r.ids = [m.ids EXCEPT ![n] = i]
    BY <1>2
  <2> QED
    BY <2>5, <2>7, <2>8 DEF r
<1>5. CASE n \notin Task
  <2>1. r.meta = m.meta
    BY <1>5 DEF Recorded
  <2>2. r = [ids |-> r.ids, meta |-> r.meta, list |-> r.list]
    BY DEF Recorded
  <2> HIDE DEF r
  <2>3. r \in Manifest
    BY <1>1, <1>2, <1>3, <2>1, <2>2 DEF Manifest, Id
  <2>4. r.ids = [m.ids EXCEPT ![n] = i]
    BY <1>2
  <2>5. \A t \in Task : r.meta[t].id = IF t = n THEN i ELSE m.meta[t].id
    BY <1>5, <2>1
  <2> QED
    BY <2>3, <2>4, <2>5 DEF r
<1> QED
  BY <1>4, <1>5

LEMMA PrunedFacts ==
    ASSUME NEW m \in Manifest, NEW p
    PROVE  LET r == Pruned(p, m) IN
           /\ r \in Manifest
           /\ \A n \in Node : r.ids[n] = IF n \in Planned(p) THEN m.ids[n] ELSE NoItem
           /\ \A t \in Task : r.meta[t].id = IF t \in Planned(p) THEN m.meta[t].id ELSE NoItem
<1> DEFINE ids == [n \in Node |-> IF n \in Planned(p) THEN m.ids[n] ELSE NoItem]
           meta == [t \in Task |-> IF t \in Planned(p) THEN m.meta[t] ELSE NoMeta]
           r == Pruned(p, m)
<1>1. NoMeta \in Meta /\ NoMeta.id = NoItem
  BY DEF NoMeta, Meta
<1>2. ids \in [Node -> Id] /\ meta \in [Task -> Meta]
  BY <1>1 DEF Manifest, Id
<1>3. r = [[m EXCEPT !.ids = ids] EXCEPT !.meta = meta]
  BY DEF Pruned
<1> DEFINE u == [m EXCEPT !.ids = ids]
<1>4. u \in Manifest /\ u.ids = ids
  BY <1>2 DEF Manifest, Id
<1>5. [u EXCEPT !.meta = meta] \in Manifest /\ [u EXCEPT !.meta = meta].meta = meta
      /\ [u EXCEPT !.meta = meta].ids = u.ids
  <2> HIDE DEF u
  <2> QED
    BY <1>2, <1>4 DEF Manifest
<1> QED
  BY <1>1, <1>3, <1>4, <1>5

\* Every id a search of the board yields is that of a card of the name.
LEMMA DiscoveredFacts ==
    ASSUME SyncTypes, NEW p \in Plan, NEW f \in Id, NEW l \in Id,
           f # NoItem => f \in Named("folder", NoItem),
           l # NoItem => l \in Named("list", f)
    PROVE  LET ids == Discovered(p, f, l).ids IN
           /\ ids \in [Node -> Id]
           /\ \A n \in Node : ids[n] # NoItem => \E c : ids[n] \in Named(n, c)
<1> DEFINE group == [g \in Group |-> IF l = NoItem \/ g \notin p.groups THEN {} ELSE Named(g, l)]
           task == [t \in Task |-> IF p.at[t] = None \/ Cardinality(group[p.at[t]]) # 1 THEN {}
                                   ELSE Named(t, Sole(group[p.at[t]]))]
           e(n) == CASE n = "folder" -> f [] n = "list" -> l
                     [] n \in Group -> Sole(group[n])
                     [] n \in Task -> Sole(task[n])
<1>1. Discovered(p, f, l).ids = [n \in Node |-> e(n)]
  BY DEF Discovered
<1>2. ASSUME NEW n \in Node PROVE e(n) = NoItem \/ \E c : e(n) \in Named(n, c)
  <2>1. CASE n = "folder"
    <3>1. e(n) = f
      BY <2>1 DEF Root
    <3> HIDE DEF e
    <3> QED
      BY <2>1, <3>1
  <2>2. CASE n = "list"
    <3>1. e(n) = l
      BY <2>2 DEF Root
    <3> HIDE DEF e
    <3> QED
      BY <2>2, <3>1
  <2>3. CASE n \in Group
    <3>1. n # "folder" /\ n # "list" /\ e(n) = Sole(group[n])
      BY <2>3 DEF Root
    <3>2. group[n] = {} \/ group[n] = Named(n, l)
      BY <2>3
    <3> HIDE DEF group, e
    <3> QED
      BY <3>1, <3>2, SoleFacts
  <2>4. CASE n \in Task
    <3>1. n # "folder" /\ n # "list" /\ n \notin Group /\ e(n) = Sole(task[n])
      BY <2>4 DEF Root
    <3> DEFINE c == Sole(group[p.at[n]])
    <3>2. task[n] = {} \/ task[n] = Named(n, c)
      BY <2>4
    <3> HIDE DEF task, e, c
    <3> QED
      BY <3>1, <3>2, SoleFacts
  <2> QED
    BY <2>1, <2>2, <2>3, <2>4 DEF Node, Root
<1> HIDE DEF e
<1>3. \A n \in Node : e(n) \in Id
  BY <1>2, NamedFacts DEF Id
<1> QED
  BY <1>1, <1>2, <1>3
-------------------------------------------------------------------------------
(***************************************************************************)
(* The moves of a sync: what the actions of Sync do to its job, to the     *)
(* board and to the manifest.                                              *)
(***************************************************************************)
Bears(i, n) == i \in DOMAIN board /\ board[i].key = n

Goes(s, pc) ==
    /\ job'[s].pc = pc /\ job'[s].plan = job[s].plan /\ job'[s].alone = job[s].alone
    /\ Others(s)

OnlyJobs == UNCHANGED <<plan, board, saved, starts, settled>>

Begun(s) ==
    LET q == job'[s] IN
    /\ At(s, "idle") /\ OnlyJobs
    /\ q.pc = IF saved = None THEN "discover" ELSE "prune"
    /\ q.plan = plan /\ q.man = IF saved = None THEN Blank ELSE saved
    /\ q.alone = \A r \in Syncer \ {s} : At(r, "idle")
    /\ \A r \in Syncer \ {s} :
         /\ job'[r].pc = job[r].pc /\ job'[r].plan = job[r].plan /\ job'[r].man = job[r].man
         /\ job'[r].left = job[r].left /\ job'[r].at = job[r].at
         /\ job'[r].alone = At(r, "idle")

Ended(s) == job'[s] = Idle /\ Others(s) /\ OnlyJobs

Found(s) ==
    /\ At(s, "discover") /\ Goes(s, "prune") /\ OnlyJobs
    /\ job'[s].man.meta = job[s].man.meta
    /\ \A n \in Node : job'[s].man.ids[n] # NoItem => Bears(job'[s].man.ids[n], n)

Dropped(s) ==
    /\ At(s, "prune") /\ Goes(s, "next") /\ UNCHANGED <<plan, board, starts, settled>>
    /\ job'[s].man = Pruned(job[s].plan, job[s].man) /\ job'[s].left = Planned(job[s].plan)
    /\ saved' = IF job'[s].man = job[s].man THEN saved ELSE job'[s].man

\* Node n is card i from here on; then it is to be renamed, to be saved, or done with.
Kept(s, n, i) ==
    LET j == job[s]  q == job'[s] IN
    /\ At(s, "next") /\ Due(s, n) /\ Bears(i, n) /\ OnlyJobs
    /\ q.man = Recorded(j.man, j.plan, n, i)
    /\ \/ Goes(s, "rename") /\ q.at = n /\ q.left = j.left /\ n \in Task
       \/ /\ ~Outdated(j.plan, n, i, Container(j.plan, j.man.ids, n))
          /\ \/ Goes(s, "save") /\ q.at = n /\ q.left = j.left
             \/ Goes(s, "next") /\ q.at = j.at /\ q.left = j.left \ {n}

Wanted(s, n) ==
    LET j == job[s]  q == job'[s] IN
    /\ At(s, "next") /\ Due(s, n) /\ Goes(s, "create") /\ OnlyJobs
    /\ q.at = n /\ q.left = j.left /\ q.man = j.man
    /\ Named(n, Container(j.plan, j.man.ids, n)) = {}

Answers(s, m) ==
    \/ job'[s] = Idle /\ Others(s)
    \/ /\ Goes(s, "save") /\ job'[s].at = job[s].at /\ job'[s].left = job[s].left
       /\ job'[s].man = m

Made(s) ==
    LET j == job[s] IN
    /\ At(s, "create") /\ UNCHANGED <<plan, saved, starts>> /\ settled' = FALSE
    /\ Len(board) < MaxItems /\ board' = Append(board, Card(j.plan, j.man.ids, j.at))
    /\ Answers(s, Recorded(j.man, j.plan, j.at, Len(board) + 1))

Renamed(s) ==
    LET j == job[s] IN
    /\ At(s, "rename") /\ UNCHANGED <<plan, saved, starts>> /\ settled' = FALSE
    /\ board' = [board EXCEPT ![j.man.ids[j.at]].title = j.plan.title[j.at]]
    /\ Answers(s, j.man)

Stored(s) ==
    LET j == job[s]  q == job'[s] IN
    /\ At(s, "save") /\ Goes(s, "next") /\ UNCHANGED <<plan, board, starts>>
    /\ saved' = j.man /\ settled' = FALSE
    /\ q.man = j.man /\ q.left = j.left \ {j.at} /\ q.at = None

Finished(s) ==
    LET j == job[s] IN
    /\ At(s, "next") /\ j.left = {} /\ UNCHANGED <<plan, board, starts>>
    /\ saved' = j.man /\ settled' = (plan = j.plan /\ j.alone)
    /\ job'[s] = Idle /\ Others(s)

SyncMove(s) ==
    \/ Begun(s) \/ Ended(s) \/ Found(s) \/ Dropped(s) \/ Made(s) \/ Renamed(s) \/ Stored(s)
    \/ Finished(s)
    \/ \E n \in Node : Wanted(s, n) \/ \E i \in Item : Kept(s, n, i)

LEMMA EndMoves ==
    ASSUME SyncTypes, NEW s \in Syncer, End(s), OnlyJobs
    PROVE  job' \in [Syncer -> Run] /\ Ended(s)
BY EndFacts DEF Ended, SyncTypes

LEMMA BootstrapMoves ==
    ASSUME SyncTypes, NEW s \in Syncer, BootstrapCall(s)
    PROVE  job' \in [Syncer -> Run] /\ Begun(s)
<1> DEFINE q == [Idle EXCEPT !.plan = plan,
                             !.pc = IF saved = None THEN "discover" ELSE "prune",
                             !.man = IF saved = None THEN Blank ELSE saved,
                             !.alone = \A r \in Syncer \ {s} : At(r, "idle")]
           o(r) == [job[r] EXCEPT !.alone = At(r, "idle")]
<1>1. job' = [r \in Syncer |-> IF r # s THEN o(r) ELSE q]
  BY DEF BootstrapCall
<1>2. q \in Run
  <2>1. Idle \in Run /\ (IF saved = None THEN Blank ELSE saved) \in Manifest
    BY IdleIsRun DEF SyncTypes, Run
  <2> QED
    BY <2>1 DEF Run, SyncTypes, Phase
<1>3. /\ q.pc = IF saved = None THEN "discover" ELSE "prune"
      /\ q.plan = plan /\ q.man = IF saved = None THEN Blank ELSE saved
      /\ q.alone = \A r \in Syncer \ {s} : At(r, "idle")
  BY DEF Idle
<1>4. ASSUME NEW r \in Syncer \ {s}
      PROVE  /\ o(r) \in Run
             /\ o(r).pc = job[r].pc /\ o(r).plan = job[r].plan /\ o(r).man = job[r].man
             /\ o(r).left = job[r].left /\ o(r).at = job[r].at
             /\ o(r).alone = At(r, "idle")
  <2>1. job[r] \in Run /\ At(r, "idle") \in BOOLEAN
    BY DEF SyncTypes, At
  <2> DEFINE j == job[r]  b == At(r, "idle")
  <2> HIDE DEF j, b
  <2>2. LET x == [j EXCEPT !.alone = b] IN
        x \in Run /\ x.pc = j.pc /\ x.plan = j.plan /\ x.man = j.man /\ x.left = j.left
        /\ x.at = j.at /\ x.alone = b
    BY <2>1 DEF Run, j, b
  <2> QED
    BY <2>2 DEF j, b
<1> HIDE DEF q, o
<1>5. job' \in [Syncer -> Run]
  BY <1>1, <1>2, <1>4
<1>6. job'[s] = q /\ \A r \in Syncer \ {s} : job'[r] = o(r)
  BY <1>1
<1>7. At(s, "idle") /\ OnlyJobs
  BY DEF BootstrapCall, OnlyJob, OnlyJobs
<1> QED
  BY <1>3, <1>4, <1>5, <1>6, <1>7 DEF Begun

LEMMA DiscoverMoves ==
    ASSUME SyncTypes, NEW s \in Syncer, Discover(s)
    PROVE  job' \in [Syncer -> Run] /\ (Ended(s) \/ Found(s))
<1>1. OnlyJobs /\ At(s, "discover") /\ job[s] \in Run /\ job[s].plan \in Plan
  BY DEF Discover, OnlyJob, OnlyJobs, SyncTypes, Shape, At
<1>2. PICK f \in OneOf(Named("folder", NoItem)) :
      \E l \in IF f = NoItem THEN {NoItem} ELSE OneOf(Named("list", f)) :
        LET found == Discovered(job[s].plan, f, l)
        IN IF found.unique
           THEN Put(s, [job[s] EXCEPT !.pc = "prune", !.man.ids = found.ids])
           ELSE End(s)
  BY DEF Discover
<1>3. PICK l \in IF f = NoItem THEN {NoItem} ELSE OneOf(Named("list", f)) :
        LET found == Discovered(job[s].plan, f, l)
        IN IF found.unique
           THEN Put(s, [job[s] EXCEPT !.pc = "prune", !.man.ids = found.ids])
           ELSE End(s)
  BY <1>2
<1>4. /\ f # NoItem => f \in Named("folder", NoItem)
      /\ l # NoItem => l \in Named("list", f)
  BY DEF OneOf
<1>5. f \in Id /\ l \in Id
  BY <1>4, NamedFacts DEF Id
<1> DEFINE found == Discovered(job[s].plan, f, l)
           ids == found.ids
           j == job[s]
           q == [j EXCEPT !.pc = "prune", !.man.ids = ids]
<1>6. ids \in [Node -> Id] /\ \A n \in Node : ids[n] # NoItem => Bears(ids[n], n)
  BY <1>1, <1>4, <1>5, DiscoveredFacts, NamedFacts DEF Bears
<1>7. CASE End(s)
  BY <1>1, <1>7, EndMoves
<1>8. CASE Put(s, q)
  <2> HIDE DEF ids
  <2>1. j \in Run /\ j.man \in Manifest
    BY <1>1 DEF Run
  <2> HIDE DEF j
  <2>2. [j.man EXCEPT !.ids = ids] \in Manifest
        /\ [j.man EXCEPT !.ids = ids].ids = ids /\ [j.man EXCEPT !.ids = ids].meta = j.man.meta
    BY <1>6, <2>1 DEF Manifest, Id
  <2>3. q \in Run /\ q.pc = "prune" /\ q.plan = j.plan /\ q.alone = j.alone
        /\ q.man = [j.man EXCEPT !.ids = ids]
    BY <2>1, <2>2 DEF Run, Phase
  <2> HIDE DEF q
  <2>4. job' \in [Syncer -> Run] /\ job'[s] = q /\ Others(s)
    BY <1>8, <2>3, PutFacts DEF SyncTypes
  <2> QED
    BY <1>1, <1>6, <2>2, <2>3, <2>4 DEF Found, Goes, j
<1> QED
  BY <1>3, <1>7, <1>8

LEMMA PruneMoves ==
    ASSUME SyncTypes, NEW s \in Syncer, Prune(s)
    PROVE  job' \in [Syncer -> Run] /\ Dropped(s) /\ saved' \in Manifest \cup {None}
<1> DEFINE j == job[s]
           m == Pruned(j.plan, j.man)
           q == [j EXCEPT !.pc = "next", !.man = m, !.left = Planned(j.plan)]
<1>1. j \in Run /\ j.plan \in Plan /\ At(s, "prune") /\ Put(s, q)
      /\ saved' = (IF m = j.man THEN saved ELSE m) /\ UNCHANGED <<plan, board, starts, settled>>
  BY DEF Prune, SyncTypes, Shape, At
<1> HIDE DEF j
<1>2. j.man \in Manifest /\ Planned(j.plan) \in SUBSET Node
  BY <1>1, PlannedFacts DEF Run
<1>3. m \in Manifest
  BY <1>2, PrunedFacts
<1> DEFINE x == Planned(j.plan)
<1>4. q \in Run /\ q.pc = "next" /\ q.plan = j.plan /\ q.alone = j.alone /\ q.man = m
      /\ q.left = x
  <2> HIDE DEF m, x
  <2> QED
    BY <1>1, <1>2, <1>3 DEF Run, Phase, x
<1>5. saved' \in Manifest \cup {None}
  BY <1>1, <1>3 DEF SyncTypes
<1> HIDE DEF q
<1>6. job' \in [Syncer -> Run] /\ job'[s] = q /\ Others(s)
  BY <1>1, <1>4, PutFacts DEF SyncTypes
<1> QED
  BY <1>1, <1>4, <1>5, <1>6 DEF Dropped, Goes, j

LEMMA KeepMoves ==
    ASSUME SyncTypes, NEW s \in Syncer, NEW n \in Node, NEW i \in Item, At(s, "next"),
           Due(s, n), Bears(i, n), Keep(s, n, i), OnlyJobs
    PROVE  job' \in [Syncer -> Run] /\ Kept(s, n, i)
<1> DEFINE j == job[s]
           m == Recorded(j.man, j.plan, n, i)
           c == Container(j.plan, j.man.ids, n)
           a == [j EXCEPT !.man = m, !.pc = "rename", !.at = n]
           b == [j EXCEPT !.man = m, !.pc = "save", !.at = n]
           d == [j EXCEPT !.man = m, !.left = @ \ {n}]
<1>1. j \in Run /\ j.plan \in Plan /\ n \in j.left /\ j.pc = "next"
      /\ j.left \subseteq Planned(j.plan) /\ j.man \in Manifest
  BY DEF SyncTypes, Shape, At, Due, Walk, Run
<1>2. m \in Manifest
  BY <1>1, RecordedFacts
<1>3. \/ Put(s, a) /\ Outdated(j.plan, n, i, c)
      \/ (Put(s, b) \/ Put(s, d)) /\ ~Outdated(j.plan, n, i, c)
  BY DEF Keep, Ids
<1> HIDE DEF j
<1>4. /\ a \in Run /\ a.pc = "rename" /\ a.plan = j.plan /\ a.alone = j.alone /\ a.man = m
      /\ a.at = n /\ a.left = j.left
  <2> HIDE DEF m
  <2> QED
    BY <1>1, <1>2 DEF Run, Phase
<1>5. /\ b \in Run /\ b.pc = "save" /\ b.plan = j.plan /\ b.alone = j.alone /\ b.man = m
      /\ b.at = n /\ b.left = j.left
  <2> HIDE DEF m
  <2> QED
    BY <1>1, <1>2 DEF Run, Phase
<1>6. /\ d \in Run /\ d.pc = "next" /\ d.plan = j.plan /\ d.alone = j.alone /\ d.man = m
      /\ d.at = j.at /\ d.left = j.left \ {n}
  <2> HIDE DEF m
  <2> QED
    BY <1>1, <1>2 DEF Run, Phase
<1> HIDE DEF a, b, d
<1>7. job \in [Syncer -> Run]
  BY DEF SyncTypes
<1>8. CASE Put(s, a) /\ Outdated(j.plan, n, i, c)
  <2>1. job' \in [Syncer -> Run] /\ job'[s] = a /\ Others(s)
    BY <1>4, <1>7, <1>8, PutFacts
  <2>2. n \in Task
    BY <1>8 DEF Outdated
  <2> QED
    BY <1>4, <2>1, <2>2 DEF Kept, Goes, j
<1>9. CASE Put(s, b) /\ ~Outdated(j.plan, n, i, c)
  <2>1. job' \in [Syncer -> Run] /\ job'[s] = b /\ Others(s)
    BY <1>5, <1>7, <1>9, PutFacts
  <2> QED
    BY <1>5, <1>9, <2>1 DEF Kept, Goes, j
<1>10. CASE Put(s, d) /\ ~Outdated(j.plan, n, i, c)
  <2>1. job' \in [Syncer -> Run] /\ job'[s] = d /\ Others(s)
    BY <1>6, <1>7, <1>10, PutFacts
  <2> QED
    BY <1>1, <1>6, <1>10, <2>1 DEF Kept, Goes, j
<1> QED
  BY <1>3, <1>8, <1>9, <1>10

USE DEF OnlyJobs

LEMMA VisitMoves ==
    ASSUME SyncTypes, NEW s \in Syncer, NEW n \in Node, Visit(s, n),
           \A m \in Node : Known(s, m) # NoItem => Bears(Known(s, m), m)
    PROVE  /\ job' \in [Syncer -> Run]
           /\ Ended(s) \/ Wanted(s, n) \/ \E i \in Item : Kept(s, n, i)
<1> DEFINE j == job[s]
           seen == Named(n, Container(j.plan, Ids(s), n))
           q == [j EXCEPT !.pc = "create", !.at = n]
<1>1. At(s, "next") /\ Due(s, n) /\ OnlyJobs /\ job \in [Syncer -> Run] /\ j \in Run
  BY DEF Visit, OnlyJob, SyncTypes
<1>2. CASE Known(s, n) # NoItem
  <2>1. Keep(s, n, Known(s, n))
    BY <1>2 DEF Visit
  <2>2. Known(s, n) \in Item
    BY <1>1, <1>2 DEF Known, Ids, Run, Manifest, Id
  <2> QED
    BY <1>1, <1>2, <2>1, <2>2, KeepMoves
<1>3. CASE Known(s, n) = NoItem /\ seen = {}
  <2>1. Put(s, q)
    BY <1>3 DEF Visit
  <2> HIDE DEF j
  <2>2. q \in Run /\ q.pc = "create" /\ q.at = n /\ q.plan = j.plan /\ q.alone = j.alone
        /\ q.left = j.left /\ q.man = j.man
    BY <1>1 DEF Run, Phase
  <2> HIDE DEF q
  <2>3. job' \in [Syncer -> Run] /\ job'[s] = q /\ Others(s)
    BY <1>1, <2>1, <2>2, PutFacts
  <2> QED
    BY <1>1, <1>3, <2>2, <2>3 DEF Wanted, Goes, j, Ids
<1>4. CASE End(s)
  BY <1>1, <1>4, EndMoves
<1>5. CASE \E i \in seen : Keep(s, n, i)
  <2>1. PICK i \in seen : Keep(s, n, i)
    BY <1>5
  <2>2. i \in Item /\ Bears(i, n)
    BY NamedFacts DEF Bears
  <2> QED
    BY <1>1, <2>1, <2>2, KeepMoves
<1> QED
  BY <1>2, <1>3, <1>4, <1>5 DEF Visit

\* What is left of an answered or unanswered call.
LEMMA AnswerMoves ==
    ASSUME SyncTypes, NEW s \in Syncer, job[s].pc # "idle", NEW m \in Manifest,
           NEW x \in Run, x = [job[s] EXCEPT !.pc = "save", !.man = m],
           Put(s, x) \/ End(s)
    PROVE  job' \in [Syncer -> Run] /\ Answers(s, m)
<1> DEFINE j == job[s]
<1>1. j \in Run /\ job \in [Syncer -> Run]
  BY DEF SyncTypes
<1>2. x.pc = "save" /\ x.man = m /\ x.plan = j.plan /\ x.alone = j.alone /\ x.at = j.at
      /\ x.left = j.left
  BY <1>1 DEF Run
<1>3. CASE Put(s, x)
  <2>1. job' \in [Syncer -> Run] /\ job'[s] = x /\ Others(s)
    BY <1>1, <1>3, PutFacts
  <2> QED
    BY <1>2, <2>1 DEF Answers, Goes
<1>4. CASE End(s)
  BY <1>1, <1>4, EndFacts DEF Answers
<1> QED
  BY <1>3, <1>4

LEMMA CreateMoves ==
    ASSUME SyncTypes, NEW s \in Syncer, Create(s)
    PROVE  job' \in [Syncer -> Run] /\ board' \in Seq(CardSet) /\ Len(board') <= MaxItems
           /\ Made(s)
<1> DEFINE j == job[s]
           m == Recorded(j.man, j.plan, j.at, Len(board) + 1)
           e == Card(j.plan, j.man.ids, j.at)
           q == [j EXCEPT !.pc = "save", !.man = m]
<1>1. j \in Run /\ j.plan \in Plan /\ j.at \in Planned(j.plan) /\ j.man \in Manifest
      /\ j.pc = "create" /\ job \in [Syncer -> Run]
  BY DEF SyncTypes, Shape, At, Create, Walk, Run
<1>2. Len(board) + 1 \in Item /\ Len(board) < MaxItems
  BY LenProperties DEF Create, SyncTypes, Item
<1>3. m \in Manifest
  BY <1>1, <1>2, RecordedFacts
<1>4. Put(s, q) \/ End(s)
  <2>1. [j EXCEPT !.pc = "save", !.man = Recorded(@, j.plan, j.at, Len(board) + 1)] = q
    OBVIOUS
  <2> QED
    BY <2>1 DEF Create
<1>5. q \in Run
  <2> HIDE DEF m, j
  <2> QED
    BY <1>1, <1>3 DEF Run, Phase
<1>6. job' \in [Syncer -> Run] /\ Answers(s, m)
  BY <1>1, <1>3, <1>4, <1>5, AnswerMoves
<1>7. board' = Append(board, e) /\ settled' = FALSE /\ UNCHANGED <<plan, saved, starts>>
      /\ At(s, "create")
  BY DEF Create, Ids
<1>8. e \in CardSet
  <2>1. j.at \in Node /\ (j.at \in Task => j.plan.title[j.at] \in Title)
        /\ (j.at \in Task => j.plan.at[j.at] \in Group)
    BY <1>1, PlannedFacts
  <2>2. Container(j.plan, j.man.ids, j.at) \in Id
    BY <1>1, <2>1 DEF Container, Manifest, Id, Node, Root
  <2> QED
    BY <2>1, <2>2 DEF Card, CardSet, Label
<1>9. board' \in Seq(CardSet) /\ Len(board') <= MaxItems
  BY <1>2, <1>7, <1>8, AppendProperties, LenProperties DEF SyncTypes
<1> QED
  BY <1>2, <1>6, <1>7, <1>9 DEF Made

LEMMA RenameMoves ==
    ASSUME SyncTypes, NEW s \in Syncer, Rename(s)
    PROVE  job' \in [Syncer -> Run] /\ board' \in Seq(CardSet) /\ Len(board') <= MaxItems
           /\ Renamed(s)
<1> DEFINE j == job[s]
           q == [j EXCEPT !.pc = "save"]
           i == j.man.ids[j.at]
           x == j.plan.title[j.at]
<1>1. j \in Run /\ j.plan \in Plan /\ j.at \in Task /\ j.man \in Manifest
      /\ j.pc = "rename" /\ job \in [Syncer -> Run]
  BY DEF SyncTypes, Shape, At, Rename, Run
<1>2. q \in Run /\ q = [j EXCEPT !.pc = "save", !.man = j.man]
  <2> HIDE DEF j
  <2> QED
    BY <1>1 DEF Run, Phase
<1>3. Put(s, q) \/ End(s)
  BY DEF Rename
<1>4. job' \in [Syncer -> Run] /\ Answers(s, j.man)
  BY <1>1, <1>2, <1>3, AnswerMoves
<1>5. board' = [board EXCEPT ![i].title = x] /\ settled' = FALSE
      /\ UNCHANGED <<plan, saved, starts>> /\ At(s, "rename")
  BY DEF Rename, Ids
<1>6. board' \in Seq(CardSet) /\ Len(board') = Len(board)
  <2>1. x \in Label
    BY <1>1, PlannedFacts DEF Label
  <2>2. CASE i \in 1 .. Len(board)
    <3>1. board[i] \in CardSet
      BY <2>2, ElementOfSeq DEF SyncTypes
    <3> DEFINE e == [board[i] EXCEPT !.title = x]
    <3>2. e \in CardSet
      BY <2>1, <3>1 DEF CardSet
    <3>3. board' = [board EXCEPT ![i] = e]
      BY <1>5
    <3> HIDE DEF e
    <3> QED
      BY <2>2, <3>2, <3>3, ExceptSeq DEF SyncTypes
  <2>3. CASE i \notin 1 .. Len(board)
    <3>1. DOMAIN board = 1 .. Len(board)
      BY LenProperties DEF SyncTypes
    <3> DEFINE e == [board[i] EXCEPT !.title = x]
    <3>2. board' = [board EXCEPT ![i] = e]
      BY <1>5
    <3> HIDE DEF e
    <3>3. board = [k \in 1 .. Len(board) |-> board[k]]
      BY <3>1, LenProperties DEF SyncTypes
    <3>4. board' = board
      BY <2>3, <3>1, <3>2, <3>3
    <3> QED
      BY <3>4 DEF SyncTypes
  <2> QED
    BY <2>2, <2>3
<1> QED
  BY <1>4, <1>5, <1>6 DEF Renamed, SyncTypes

LEMMA SaveMoves ==
    ASSUME SyncTypes, NEW s \in Syncer
    PROVE  /\ Save(s) => /\ job' \in [Syncer -> Run] /\ saved' \in Manifest
                         /\ Stored(s)
           /\ Finish(s) => /\ job' \in [Syncer -> Run] /\ saved' \in Manifest
                           /\ settled' \in BOOLEAN /\ Finished(s)
           /\ Fail(s) => job' \in [Syncer -> Run] /\ Ended(s)
<1> DEFINE j == job[s]
<1>1. j \in Run /\ job \in [Syncer -> Run] /\ j.man \in Manifest
  BY DEF SyncTypes, Run
<1>2. ASSUME Save(s)
      PROVE  job' \in [Syncer -> Run] /\ saved' \in Manifest /\ Stored(s)
  <2> DEFINE q == [j EXCEPT !.pc = "next", !.left = @ \ {job[s].at}, !.at = None]
  <2>1. Put(s, q) /\ saved' = j.man /\ settled' = FALSE /\ UNCHANGED <<plan, board, starts>>
        /\ At(s, "save")
    BY <1>2 DEF Save
  <2>2. /\ q \in Run /\ q.pc = "next" /\ q.plan = j.plan /\ q.alone = j.alone
        /\ q.man = j.man /\ q.left = j.left \ {j.at} /\ q.at = None
    BY <1>1 DEF Run, Phase
  <2> HIDE DEF q
  <2>3. job' \in [Syncer -> Run] /\ job'[s] = q /\ Others(s)
    BY <1>1, <2>1, <2>2, PutFacts
  <2> QED
    BY <1>1, <2>1, <2>2, <2>3 DEF Stored, Goes
<1>3. ASSUME Finish(s)
      PROVE  /\ job' \in [Syncer -> Run] /\ saved' \in Manifest
             /\ settled' \in BOOLEAN /\ Finished(s)
  BY <1>1, <1>3, EndFacts DEF Finish, Finished, Run
<1>4. ASSUME Fail(s) PROVE job' \in [Syncer -> Run] /\ Ended(s)
  BY <1>4, EndMoves DEF Fail
<1> QED
  BY <1>2, <1>3, <1>4
-------------------------------------------------------------------------------
(***************************************************************************)
(* The types, and the order of the walk.                                   *)
(***************************************************************************)
LEMMA ShapeMoves ==
    ASSUME SyncTypes, NEW s \in Syncer, SyncMove(s), job' \in [Syncer -> Run]
    PROVE  \A r \in Syncer : Shape(job'[r])
<1> DEFINE j == job[s]
           q == job'[s]
<1>1. /\ j \in Run /\ q \in Run /\ Shape(j) /\ plan \in Plan
      /\ \A r \in Syncer : Shape(job[r])
  BY DEF SyncTypes
<1>2. ASSUME Shape(q), Others(s) PROVE \A r \in Syncer : Shape(job'[r])
  BY <1>1, <1>2 DEF Others
<1>3. CASE Begun(s)
  <2>1. Shape(q)
    BY <1>1, <1>3 DEF Begun, Shape, Walk
  <2>2. ASSUME NEW r \in Syncer \ {s} PROVE Shape(job'[r])
    BY <1>1, <1>3 DEF Begun, Shape
  <2> QED
    BY <2>1, <2>2
<1>4. ASSUME q = Idle, Others(s) PROVE \A r \in Syncer : Shape(job'[r])
  BY <1>2, <1>4, IdleIsRun
<1>5. CASE Found(s)
  <2>1. Shape(q)
    BY <1>1, <1>5 DEF Found, Goes, Shape, Walk, At
  <2> QED
    BY <1>2, <1>5, <2>1 DEF Found, Goes
<1>6. CASE Dropped(s)
  <2>1. q.pc = "next" /\ q.plan = j.plan /\ q.left = Planned(j.plan) /\ j.plan \in Plan
    BY <1>1, <1>6 DEF Dropped, Goes, Shape, At
  <2>2. Shape(q)
    BY <2>1 DEF Shape, Walk
  <2> QED
    BY <1>2, <1>6, <2>2 DEF Dropped, Goes
<1>7. ASSUME NEW n \in Node, Due(s, n), At(s, "next"), q.plan = j.plan, q.left = j.left,
             q.at = n, q.pc \in {"create", "rename", "save"},
             q.pc \in {"rename", "save"} => q.man.ids[n] # NoItem, q.pc = "rename" => n \in Task
      PROVE  Shape(q)
  <2>1. n \in j.left /\ (n \in Task => j.plan.at[n] \notin j.left)
    BY <1>7 DEF Due
  <2> QED
    BY <1>1, <1>7, <2>1 DEF Shape, Walk, At
<1>8. ASSUME NEW n \in Node, Wanted(s, n) PROVE Shape(q) /\ Others(s)
  BY <1>7, <1>8 DEF Wanted, Goes
<1>9. ASSUME NEW n \in Node, NEW i \in Item, Kept(s, n, i) PROVE Shape(q) /\ Others(s)
  <2>1. n \in j.left /\ (n \in Task => j.plan.at[n] \notin j.left) /\ j.pc = "next"
        /\ n \in Planned(j.plan) /\ j.plan \in Plan /\ j.man \in Manifest
    BY <1>1, <1>9 DEF Kept, Due, At, Shape, Walk, Run
  <2>2. q.man.ids[n] = i /\ i # NoItem
    <3>1. q.man.ids = [j.man.ids EXCEPT ![n] = i]
      BY <1>9, <2>1, RecordedFacts DEF Kept
    <3> QED
      BY <2>1, <3>1 DEF Manifest, Item, NoItem
  <2>3. CASE q.pc # "next"
    BY <1>7, <1>9, <2>2, <2>3 DEF Kept, Goes
  <2>4. CASE q.pc = "next"
    <3>1. q.left = j.left \ {n} /\ q.plan = j.plan
      BY <1>9, <2>4 DEF Kept, Goes
    <3>2. \A t \in Planned(q.plan) \cap Task : t \notin q.left => q.plan.at[t] \notin q.left
      BY <1>1, <2>1, <3>1 DEF Shape, Walk
    <3>3. q.left \subseteq Planned(q.plan) /\ q.plan \in Plan
      BY <1>1, <2>1, <3>1 DEF Shape, Walk
    <3>4. Others(s)
      BY <1>9 DEF Kept, Goes
    <3> QED
      BY <2>4, <3>2, <3>3, <3>4 DEF Shape, Walk
  <2> QED
    BY <1>9, <2>3, <2>4 DEF Kept, Goes
<1>10. CASE Made(s)
  <2>1. CASE q = Idle /\ Others(s)
    BY <1>4, <2>1
  <2>2. CASE q # Idle \/ ~Others(s)
    <3>1. q.pc = "save" /\ q.plan = j.plan /\ q.at = j.at /\ q.left = j.left /\ Others(s)
          /\ q.man = Recorded(j.man, j.plan, j.at, Len(board) + 1) /\ j.pc = "create"
      BY <1>10, <2>2 DEF Made, Answers, Goes, At
    <3>2. j.at \in Planned(j.plan) /\ j.plan \in Plan /\ j.man \in Manifest
      BY <1>1, <3>1 DEF Shape, Walk, Run
    <3>3. Len(board) + 1 \in Item
      BY <1>10, LenProperties DEF Made, SyncTypes, Item
    <3>4. q.man.ids[j.at] = Len(board) + 1 /\ Len(board) + 1 # NoItem
      <4>1. q.man.ids = [j.man.ids EXCEPT ![j.at] = Len(board) + 1] /\ j.at \in Node
        BY <3>1, <3>2, <3>3, RecordedFacts, PlannedFacts
      <4> QED
        BY <3>2, <3>3, <4>1 DEF Manifest, Item, NoItem
    <3>5. Shape(q)
      BY <1>1, <3>1, <3>4 DEF Shape, Walk
    <3> QED
      BY <1>2, <3>1, <3>5
  <2> QED
    BY <2>1, <2>2
<1>11. CASE Renamed(s)
  <2>1. CASE q = Idle /\ Others(s)
    BY <1>4, <2>1
  <2>2. CASE q # Idle \/ ~Others(s)
    <3>1. q.pc = "save" /\ q.plan = j.plan /\ q.at = j.at /\ q.left = j.left /\ Others(s)
          /\ q.man = j.man /\ j.pc = "rename"
      BY <1>11, <2>2 DEF Renamed, Answers, Goes, At
    <3>2. Shape(q)
      BY <1>1, <3>1 DEF Shape, Walk
    <3> QED
      BY <1>2, <3>1, <3>2
  <2> QED
    BY <2>1, <2>2
<1>12. CASE Stored(s)
  <2>1. q.pc = "next" /\ q.plan = j.plan /\ q.left = j.left \ {j.at} /\ j.pc = "save"
        /\ Others(s)
    BY <1>12 DEF Stored, Goes, At
  <2>2. \A t \in Planned(q.plan) \cap Task : t \notin q.left => q.plan.at[t] \notin q.left
    BY <1>1, <2>1 DEF Shape, Walk
  <2>3. Shape(q)
    BY <1>1, <2>1, <2>2 DEF Shape, Walk
  <2> QED
    BY <1>2, <2>1, <2>3
<1> QED
  BY <1>2, <1>3, <1>4, <1>5, <1>6, <1>8, <1>9, <1>10, <1>11, <1>12 DEF SyncMove, Ended, Finished

\* What else may happen: the manifest is lost, tasks.md is edited, a card starts a
\* task, or nothing of this happens while the Trello projection moves.
Elsewhere == UNCHANGED <<plan, board, saved, job, starts, settled>>

Ambient ==
    \/ Elsewhere \/ EditPlan \/ LoseManifest
    \/ \E i \in Item, status \in {"ready", "done"} : Trigger(i, status)

Moved == (\E s \in Syncer : SyncMove(s)) \/ Ambient

LEMMA PlanEdits ==
    ASSUME plan \in Plan, EditPlan
    PROVE  plan' \in Plan
<1> USE DEF Plan
<1>2. ASSUME NEW t \in Task, NEW g \in plan.groups \cup {None}
      PROVE  [plan EXCEPT !.at[t] = g] \in Plan
  <2> DEFINE at == [plan.at EXCEPT ![t] = g]
  <2>1. at \in [Task -> Group \cup {None}]
    OBVIOUS
  <2>2. [plan EXCEPT !.at[t] = g] = [plan EXCEPT !.at = at]
    OBVIOUS
  <2> HIDE DEF at
  <2> QED
    BY <2>1, <2>2
<1>3. ASSUME NEW t \in Task, NEW x \in Title
      PROVE  [plan EXCEPT !.title[t] = x] \in Plan
  <2> DEFINE title == [plan.title EXCEPT ![t] = x]
  <2>1. title \in [Task -> Title]
    OBVIOUS
  <2>2. [plan EXCEPT !.title[t] = x] = [plan EXCEPT !.title = title]
    OBVIOUS
  <2> HIDE DEF title
  <2> QED
    BY <2>1, <2>2
<1>4. ASSUME NEW g \in plan.groups, NEW h \in Group \ plan.groups
      PROVE  [plan EXCEPT !.groups = (@ \ {g}) \cup {h},
                          !.at = [t \in Task |-> IF @[t] = g THEN h ELSE @[t]]] \in Plan
  <2> DEFINE groups == (plan.groups \ {g}) \cup {h}
             at == [t \in Task |-> IF plan.at[t] = g THEN h ELSE plan.at[t]]
             u == [plan EXCEPT !.groups = groups]
  <2>1. groups \in SUBSET Group /\ at \in [Task -> Group \cup {None}]
    OBVIOUS
  <2>2. u \in Plan /\ u.at = plan.at
    <3> HIDE DEF groups
    <3> QED
      BY <2>1
  <2>3. [plan EXCEPT !.groups = (@ \ {g}) \cup {h},
                     !.at = [t \in Task |-> IF @[t] = g THEN h ELSE @[t]]]
        = [u EXCEPT !.at = [t \in Task |-> IF @[t] = g THEN h ELSE @[t]]]
    OBVIOUS
  <2>4. [u EXCEPT !.at = [t \in Task |-> IF @[t] = g THEN h ELSE @[t]]] = [u EXCEPT !.at = at]
    <3> HIDE DEF u
    <3> QED
      BY <2>2
  <2> HIDE DEF u, at
  <2> QED
    BY <2>1, <2>2, <2>3, <2>4
<1>5. CASE \E t \in Task, g \in plan.groups \cup {None} : plan' = [plan EXCEPT !.at[t] = g]
  BY <1>2, <1>5
<1>6. CASE \E t \in Task, x \in Title : plan' = [plan EXCEPT !.title[t] = x]
  BY <1>3, <1>6
<1>7. CASE \E g \in plan.groups, h \in Group \ plan.groups :
             plan' = [plan EXCEPT !.groups = (@ \ {g}) \cup {h},
                                  !.at = [t \in Task |-> IF @[t] = g THEN h ELSE @[t]]]
  <2>1. PICK g \in plan.groups, h \in Group \ plan.groups :
             plan' = [plan EXCEPT !.groups = (@ \ {g}) \cup {h},
                                  !.at = [t \in Task |-> IF @[t] = g THEN h ELSE @[t]]]
    BY <1>7
  <2>2. [plan EXCEPT !.groups = (@ \ {g}) \cup {h},
                     !.at = [t \in Task |-> IF @[t] = g THEN h ELSE @[t]]] \in Plan
    BY <1>4
  <2> HIDE DEF Plan
  <2> QED
    BY <2>1, <2>2
<1> QED
  BY <1>5, <1>6, <1>7 DEF EditPlan

\* Every step keeps the types and is one of the moves.
LEMMA SyncSteps ==
    ASSUME SyncTypes, Next \/ EditPlan \/ Elsewhere,
           \A s \in Syncer, n \in Node : Known(s, n) # NoItem => Bears(Known(s, n), n)
    PROVE  SyncTypes' /\ Moved
<1>1. ASSUME NEW s \in Syncer, SyncMove(s), job' \in [Syncer -> Run],
             board' \in Seq(CardSet), Len(board') <= MaxItems, saved' \in Manifest \cup {None},
             settled' \in BOOLEAN, UNCHANGED <<plan, starts>>
      PROVE  SyncTypes' /\ Moved
  <2>1. \A r \in Syncer : Shape(job'[r])
    BY <1>1, ShapeMoves
  <2> QED
    BY <1>1, <2>1 DEF SyncTypes, Moved
<1>2. ASSUME NEW s \in Syncer, SyncMove(s), job' \in [Syncer -> Run], OnlyJobs
      PROVE  SyncTypes' /\ Moved
  BY <1>1, <1>2 DEF SyncTypes
<1>3. ASSUME NEW s \in Syncer, BootstrapCall(s) PROVE SyncTypes' /\ Moved
  BY <1>2, <1>3, BootstrapMoves DEF SyncMove, Begun
<1>4. ASSUME NEW s \in Syncer, Discover(s) PROVE SyncTypes' /\ Moved
  BY <1>2, <1>4, DiscoverMoves DEF SyncMove, Found, Ended
<1>5. ASSUME NEW s \in Syncer, Prune(s) PROVE SyncTypes' /\ Moved
  <2>1. Dropped(s) /\ job' \in [Syncer -> Run] /\ saved' \in Manifest \cup {None}
    BY <1>5, PruneMoves
  <2> QED
    BY <1>1, <2>1 DEF SyncMove, Dropped, SyncTypes
<1>6. ASSUME NEW s \in Syncer, NEW n \in Node, Visit(s, n) PROVE SyncTypes' /\ Moved
  <2>1. /\ job' \in [Syncer -> Run]
        /\ Ended(s) \/ Wanted(s, n) \/ \E i \in Item : Kept(s, n, i)
    BY <1>6, VisitMoves
  <2> QED
    BY <1>2, <2>1 DEF SyncMove, Ended, Wanted, Kept
<1>7. ASSUME NEW s \in Syncer, Create(s) PROVE SyncTypes' /\ Moved
  <2>1. job' \in [Syncer -> Run] /\ board' \in Seq(CardSet) /\ Len(board') <= MaxItems
        /\ Made(s)
    BY <1>7, CreateMoves
  <2> QED
    BY <1>1, <2>1 DEF SyncMove, Made, SyncTypes
<1>8. ASSUME NEW s \in Syncer, Rename(s) PROVE SyncTypes' /\ Moved
  <2>1. job' \in [Syncer -> Run] /\ board' \in Seq(CardSet) /\ Len(board') <= MaxItems
        /\ Renamed(s)
    BY <1>8, RenameMoves
  <2> QED
    BY <1>1, <2>1 DEF SyncMove, Renamed, SyncTypes
<1>9. ASSUME NEW s \in Syncer, Save(s) PROVE SyncTypes' /\ Moved
  <2>1. job' \in [Syncer -> Run] /\ saved' \in Manifest /\ Stored(s)
    BY <1>9, SaveMoves
  <2> QED
    BY <1>1, <2>1 DEF SyncMove, Stored, SyncTypes
<1>10. ASSUME NEW s \in Syncer, Finish(s) PROVE SyncTypes' /\ Moved
  <2>1. job' \in [Syncer -> Run] /\ saved' \in Manifest /\ settled' \in BOOLEAN /\ Finished(s)
    BY <1>10, SaveMoves
  <2> QED
    BY <1>1, <2>1 DEF SyncMove, Finished, SyncTypes
<1>11. ASSUME NEW s \in Syncer, Fail(s) PROVE SyncTypes' /\ Moved
  BY <1>2, <1>11, SaveMoves DEF SyncMove, Ended
<1>12. ASSUME Elsewhere PROVE SyncTypes' /\ Moved
  BY <1>12 DEF Elsewhere, SyncTypes, Moved, Ambient
<1>13. ASSUME EditPlan PROVE SyncTypes' /\ Moved
  <2>1. plan' \in Plan /\ settled' = FALSE /\ UNCHANGED <<board, saved, job, starts>>
    BY <1>13, PlanEdits DEF EditPlan, SyncTypes
  <2> QED
    BY <1>13, <2>1 DEF SyncTypes, Moved, Ambient
<1>14. ASSUME LoseManifest PROVE SyncTypes' /\ Moved
  <2>1. saved' = None /\ settled' = FALSE /\ UNCHANGED <<plan, board, job, starts>>
    BY <1>14 DEF LoseManifest
  <2> QED
    BY <1>14, <2>1 DEF SyncTypes, Moved, Ambient
<1>15. ASSUME NEW i \in Item, NEW status \in {"ready", "done"}, Trigger(i, status)
       PROVE  SyncTypes' /\ Moved
  <2>1. starts' \subseteq [task : Task, card : Item, status : {"ready", "done"}]
        /\ UNCHANGED <<plan, board, saved, job, settled>>
    BY <1>15 DEF Trigger, SyncTypes
  <2> QED
    BY <1>15, <2>1 DEF SyncTypes, Moved, Ambient
<1> QED
  BY <1>3, <1>4, <1>5, <1>6, <1>7, <1>8, <1>9, <1>10, <1>11, <1>12, <1>13, <1>14, <1>15
     DEF Next, SyncStep
-------------------------------------------------------------------------------
(***************************************************************************)
(* A manifest is honest: every id it holds is that of a card of the name.  *)
(* Cards keep their names, so it stays honest whatever the syncs do.       *)
(***************************************************************************)
On(b, i, n) == i \in DOMAIN b /\ b[i].key = n

Honest(b, m) ==
    /\ \A n \in Node : m.ids[n] # NoItem => On(b, m.ids[n], n)
    /\ \A t \in Task : m.meta[t].id # NoItem => On(b, m.meta[t].id, t)

HonestInv ==
    /\ saved # None => Honest(board, saved)
    /\ \A s \in Syncer : Honest(board, job[s].man)
    /\ \A x \in starts : On(board, x.card, x.task)

\* Cards are added and get other titles, and that is all.
Grows(b, c) ==
    \A i \in DOMAIN b : i \in DOMAIN c /\ c[i].key = b[i].key /\ c[i].in = b[i].in

LEMMA MadeBoard ==
    ASSUME SyncTypes, NEW e, board' = Append(board, e), e \in CardSet
    PROVE  /\ Len(board) + 1 \notin DOMAIN board
           /\ DOMAIN board' = DOMAIN board \cup {Len(board) + 1}
           /\ board'[Len(board) + 1] = e
           /\ \A i \in DOMAIN board : board'[i] = board[i]
<1>1. board \in Seq(CardSet) /\ Len(board) \in Nat /\ DOMAIN board = 1 .. Len(board)
  BY LenProperties DEF SyncTypes
<1>2. /\ board' \in Seq(CardSet) /\ Len(board') = Len(board) + 1
      /\ \A i \in 1 .. Len(board) : board'[i] = board[i]
      /\ board'[Len(board) + 1] = e
  BY <1>1, AppendProperties
<1>3. DOMAIN board' = 1 .. (Len(board) + 1)
  BY <1>2, LenProperties
<1> QED
  BY <1>1, <1>2, <1>3

LEMMA RenamedBoard ==
    ASSUME SyncTypes, NEW i \in DOMAIN board, NEW x,
           board' = [board EXCEPT ![i].title = x]
    PROVE  /\ DOMAIN board' = DOMAIN board
           /\ board'[i].title = x /\ board'[i].key = board[i].key /\ board'[i].in = board[i].in
           /\ \A k \in DOMAIN board : k # i => board'[k] = board[k]
<1>1. board[i] \in CardSet
  BY LenProperties, ElementOfSeq DEF SyncTypes
<1> DEFINE e == [board[i] EXCEPT !.title = x]
<1>2. e.title = x /\ e.key = board[i].key /\ e.in = board[i].in
  BY <1>1 DEF CardSet
<1>3. board' = [board EXCEPT ![i] = e]
  OBVIOUS
<1> HIDE DEF e
<1>4. board = [k \in 1 .. Len(board) |-> board[k]] /\ DOMAIN board = 1 .. Len(board)
  BY LenProperties DEF SyncTypes
<1>5. board'[i] = e /\ DOMAIN board' = DOMAIN board
      /\ \A k \in DOMAIN board : k # i => board'[k] = board[k]
  BY <1>3, <1>4
<1> QED
  BY <1>2, <1>5

\* The node a sync is at is planned, and its card of the name is on the board.
LEMMA AtFacts ==
    ASSUME SyncTypes, HonestInv, NEW s \in Syncer, job[s].pc \in {"create", "rename", "save"}
    PROVE  LET j == job[s]  n == j.at IN
           /\ n \in Planned(j.plan) /\ n \in Node /\ j.plan \in Plan /\ j.man \in Manifest
           /\ j.pc # "create" => On(board, j.man.ids[n], n) /\ j.man.ids[n] \in Item
<1> DEFINE j == job[s]
           n == j.at
<1>1. /\ n \in Planned(j.plan) /\ j.plan \in Plan /\ j.man \in Manifest
      /\ j.pc # "create" => j.man.ids[n] # NoItem
  BY DEF SyncTypes, Shape, Walk, Run
<1>2. n \in Node /\ j.man.ids[n] \in Id
  BY <1>1, PlannedFacts DEF Manifest, Id
<1> QED
  BY <1>1, <1>2 DEF HonestInv, Honest, Id

LEMMA CardFacts ==
    ASSUME NEW p \in Plan, NEW m \in Manifest, NEW n \in Planned(p)
    PROVE  /\ Card(p, m.ids, n) \in CardSet /\ Card(p, m.ids, n).key = n
           /\ Card(p, m.ids, n).in = Container(p, m.ids, n)
           /\ n \in Task => Card(p, m.ids, n).title = p.title[n]
<1>1. n \in Node /\ (n \in Task => p.title[n] \in Title) /\ (n \in Task => p.at[n] \in Group)
  BY PlannedFacts
<1>2. Container(p, m.ids, n) \in Id
  BY <1>1 DEF Container, Manifest, Id, Node, Root
<1> QED
  BY <1>1, <1>2 DEF Card, CardSet, Label

\* The board after any step.
LEMMA BoardGrows ==
    ASSUME SyncTypes, HonestInv, Moved
    PROVE  Grows(board, board')
<1>1. ASSUME board' = board PROVE Grows(board, board')
  BY <1>1 DEF Grows
<1>2. ASSUME NEW s \in Syncer, Made(s) PROVE Grows(board, board')
  <2> DEFINE e == Card(job[s].plan, job[s].man.ids, job[s].at)
  <2>1. e \in CardSet /\ board' = Append(board, e)
    BY <1>2, AtFacts, CardFacts DEF Made, At
  <2> HIDE DEF e
  <2> QED
    BY <2>1, MadeBoard DEF Grows
<1>3. ASSUME NEW s \in Syncer, Renamed(s) PROVE Grows(board, board')
  <2> DEFINE i == job[s].man.ids[job[s].at]
             x == job[s].plan.title[job[s].at]
  <2>1. i \in DOMAIN board /\ board' = [board EXCEPT ![i].title = x]
    BY <1>3, AtFacts DEF Renamed, At, On
  <2> HIDE DEF i, x
  <2> QED
    BY <2>1, RenamedBoard DEF Grows
<1>4. CASE Ambient
  BY <1>1, <1>4 DEF Ambient, Elsewhere, EditPlan, LoseManifest, Trigger
<1>5. ASSUME NEW s \in Syncer, SyncMove(s) PROVE Grows(board, board')
  BY <1>1, <1>2, <1>3, <1>5 DEF SyncMove, Begun, Ended, Found, Dropped, Stored, Finished,
     Wanted, Kept
<1> QED
  BY <1>4, <1>5 DEF Moved

LEMMA HonestGrows ==
    ASSUME NEW b, NEW c, Grows(b, c)
    PROVE  /\ \A m : Honest(b, m) => Honest(c, m)
           /\ \A i, n : On(b, i, n) => On(c, i, n)
BY DEF Honest, On, Grows

LEMMA HonestFacts ==
    ASSUME NEW b
    PROVE  /\ Honest(b, Blank)
           /\ \A m \in Manifest : \A p : Honest(b, m) => Honest(b, Pruned(p, m))
           /\ \A m \in Manifest, p \in Plan : \A n \in Planned(p), i \in Item :
                 Honest(b, m) /\ On(b, i, n) => Honest(b, Recorded(m, p, n, i))
<1>1. Honest(b, Blank)
  BY DEF Honest, Blank, NoMeta, NoItem
<1>2. ASSUME NEW m \in Manifest, NEW p, Honest(b, m) PROVE Honest(b, Pruned(p, m))
  BY <1>2, PrunedFacts DEF Honest
<1>3. ASSUME NEW m \in Manifest, NEW p \in Plan, NEW n \in Planned(p), NEW i \in Item,
             Honest(b, m), On(b, i, n)
      PROVE  Honest(b, Recorded(m, p, n, i))
  <2> DEFINE r == Recorded(m, p, n, i)
  <2>1. /\ r.ids = [m.ids EXCEPT ![n] = i]
        /\ \A t \in Task : r.meta[t].id = IF t = n THEN i ELSE m.meta[t].id
    BY RecordedFacts
  <2>2. \A k \in Node : r.ids[k] = IF k = n THEN i ELSE m.ids[k]
    BY <2>1 DEF Manifest
  <2> HIDE DEF r
  <2>3. Honest(b, r)
    BY <1>3, <2>1, <2>2 DEF Honest
  <2> QED
    BY <2>3 DEF r
<1> QED
  BY <1>1, <1>2, <1>3

LEMMA HonestStep ==
    ASSUME SyncTypes, SyncTypes', HonestInv, Moved
    PROVE  HonestInv'
<1>1. /\ \A m : Honest(board, m) => Honest(board', m)
      /\ \A i, n : On(board, i, n) => On(board', i, n)
  BY BoardGrows, HonestGrows
<1>2. ASSUME \A r \in Syncer : Honest(board', job'[r].man), saved' = saved, starts' = starts
      PROVE  HonestInv'
  BY <1>1, <1>2 DEF HonestInv
<1>3. ASSUME NEW s \in Syncer, Others(s), Honest(board', job'[s].man)
      PROVE  \A r \in Syncer : Honest(board', job'[r].man)
  BY <1>1, <1>3 DEF HonestInv, Others
<1>4. ASSUME NEW s \in Syncer, SyncMove(s)
      PROVE  /\ \A r \in Syncer : Honest(board', job'[r].man)
             /\ saved' = saved \/ Honest(board', saved')
             /\ starts' = starts
  <2> DEFINE j == job[s]
  <2>1. Honest(board, j.man) /\ Honest(board', j.man) /\ j.man \in Manifest /\ Shape(j)
    BY <1>1 DEF HonestInv, SyncTypes, Run
  <2>2. CASE Begun(s)
    <3>1. Honest(board', job'[s].man)
      BY <1>1, <2>2, HonestFacts DEF Begun, HonestInv
    <3>2. \A r \in Syncer \ {s} : job'[r].man = job[r].man
      BY <2>2 DEF Begun
    <3>3. saved' = saved /\ starts' = starts
      BY <2>2 DEF Begun
    <3> QED
      BY <1>1, <3>1, <3>2, <3>3 DEF HonestInv
  <2>3. ASSUME job'[s] = Idle, Others(s) PROVE \A r \in Syncer : Honest(board', job'[r].man)
    BY <1>3, <2>3, IdleIsRun, HonestFacts
  <2>4. CASE Ended(s)
    BY <2>3, <2>4 DEF Ended
  <2>5. CASE Found(s)
    <3>1. Honest(board, job'[s].man)
      BY <2>1, <2>5 DEF Found, Honest, Bears, On
    <3> QED
      BY <1>1, <1>3, <2>5, <3>1 DEF Found, Goes
  <2>6. CASE Dropped(s)
    <3>1. Honest(board', job'[s].man)
      BY <2>1, <2>6, HonestFacts DEF Dropped
    <3> QED
      BY <1>3, <2>6, <3>1 DEF Dropped, Goes
  <2>7. CASE Made(s)
    <3> DEFINE n == j.at
               m == Recorded(j.man, j.plan, n, Len(board) + 1)
               e == Card(j.plan, j.man.ids, n)
    <3>1. n \in Planned(j.plan) /\ n \in Node /\ j.plan \in Plan
      BY <2>7, AtFacts DEF Made, At
    <3>2. e \in CardSet /\ e.key = n /\ board' = Append(board, e)
      BY <2>1, <2>7, <3>1, CardFacts DEF Made
    <3>3. Len(board) + 1 \in Item
      BY <2>7, LenProperties DEF Made, SyncTypes, Item
    <3>4. On(board', Len(board) + 1, n)
      <4> HIDE DEF e
      <4> QED
        BY <3>2, MadeBoard DEF On
    <3>5. Honest(board', m)
      BY <2>1, <3>1, <3>3, <3>4, HonestFacts
    <3> QED
      BY <1>3, <2>3, <2>7, <3>5 DEF Made, Answers, Goes
  <2>8. CASE Renamed(s)
    BY <1>3, <2>1, <2>3, <2>8 DEF Renamed, Answers, Goes
  <2>9. CASE Stored(s)
    BY <1>3, <2>1, <2>9 DEF Stored, Goes
  <2>10. CASE Finished(s)
    BY <2>1, <2>3, <2>10 DEF Finished
  <2>11. ASSUME NEW n \in Node, Wanted(s, n)
         PROVE  (\A r \in Syncer : Honest(board', job'[r].man)) /\ saved' = saved
                /\ starts' = starts
    BY <1>3, <2>1, <2>11 DEF Wanted, Goes
  <2>12. ASSUME NEW n \in Node, NEW i \in Item, Kept(s, n, i)
         PROVE  (\A r \in Syncer : Honest(board', job'[r].man)) /\ saved' = saved
                /\ starts' = starts
    <3>1. n \in Planned(j.plan) /\ j.plan \in Plan
      BY <2>1, <2>12 DEF Kept, Due, At, Shape, Walk
    <3>2. On(board', i, n)
      BY <1>1, <2>12 DEF Kept, Bears, On
    <3>3. Honest(board', job'[s].man)
      BY <2>1, <2>12, <3>1, <3>2, HonestFacts DEF Kept
    <3> QED
      BY <1>3, <2>12, <3>3 DEF Kept, Goes
  <2> QED
    <3>1. CASE Dropped(s)
      <4>1. saved' = saved \/ saved' = job'[s].man
        BY <3>1 DEF Dropped
      <4> QED
        BY <2>6, <3>1, <4>1 DEF Dropped
    <3> QED
      BY <1>4, <2>1, <2>2, <2>4, <2>5, <2>7, <2>8, <2>9, <2>10, <2>11, <2>12, <3>1
         DEF SyncMove, Ended, Found, Made, Renamed, Stored, Finished
<1>5. ASSUME NEW s \in Syncer, SyncMove(s) PROVE HonestInv'
  BY <1>1, <1>4, <1>5 DEF HonestInv
<1>6. CASE Elsewhere \/ EditPlan
  BY <1>1, <1>2, <1>6 DEF Elsewhere, EditPlan, HonestInv
<1>7. CASE LoseManifest
  BY <1>1, <1>7 DEF LoseManifest, HonestInv
<1>8. ASSUME NEW i \in Item, NEW status \in {"ready", "done"}, Trigger(i, status)
      PROVE  HonestInv'
  <2>1. PICK t \in Task : /\ Resolved(i) = {t}
                          /\ starts' = starts \cup {[task |-> t, card |-> i, status |-> status]}
    BY <1>8 DEF Trigger
  <2>2. saved.meta[t].id = i /\ saved # None /\ i # NoItem
    BY <1>8, <2>1 DEF Resolved, Trigger, Item, NoItem
  <2>3. On(board, i, t)
    BY <2>2 DEF HonestInv, Honest
  <2>4. UNCHANGED <<board, saved, job>>
    BY <1>8 DEF Trigger
  <2> QED
    BY <2>1, <2>3, <2>4 DEF HonestInv
<1> QED
  BY <1>5, <1>6, <1>7, <1>8 DEF Moved, Ambient
-------------------------------------------------------------------------------
(***************************************************************************)
(* Cards of one name in one place: one for each sync that was about to     *)
(* make it when there was none, whether or not it has made it by now.      *)
(***************************************************************************)
Creators(n, c) ==
    {s \in Syncer : At(s, "create") /\ job[s].at = n
                    /\ Container(job[s].plan, job[s].man.ids, n) = c}

TwinInv ==
    \A n \in Node, c \in Id :
        Cardinality(Twins(n, c)) + Cardinality(Creators(n, c)) <= Cardinality(Syncer)

LEMMA CountFacts ==
    ASSUME SyncTypes, NEW n, NEW c
    PROVE  /\ IsFiniteSet(Twins(n, c)) /\ Cardinality(Twins(n, c)) \in Nat
           /\ IsFiniteSet(Creators(n, c)) /\ Cardinality(Creators(n, c)) \in Nat
           /\ Cardinality(Creators(n, c)) <= Cardinality(Syncer)
           /\ Cardinality(Syncer) \in Nat
<1>1. Twins(n, c) \subseteq 1 .. Len(board) /\ Len(board) \in Nat
  BY LenProperties DEF Twins, SyncTypes
<1>2. IsFiniteSet(Twins(n, c))
  <2>1. IsFiniteSet(1 .. Len(board))
    BY <1>1, FS_Interval
  <2> QED
    BY <1>1, <2>1, FS_Subset
<1>3. Creators(n, c) \subseteq Syncer
  BY DEF Creators
<1> QED
  BY <1>2, <1>3, FS_Subset, FS_CardinalityType

\* Whoever is no longer about to make the card no longer counts.
LEMMA FewerCreators ==
    ASSUME SyncTypes, SyncTypes', TwinInv, NEW n \in Node, NEW c \in Id,
           Twins(n, c)' = Twins(n, c), Creators(n, c)' \subseteq Creators(n, c)
    PROVE  Cardinality(Twins(n, c)') + Cardinality(Creators(n, c)') <= Cardinality(Syncer)
<1> DEFINE A == Twins(n, c)
           B == Creators(n, c)
           C == Creators(n, c)'
<1>1. Cardinality(A) + Cardinality(B) <= Cardinality(Syncer)
  BY DEF TwinInv
<1>2. IsFiniteSet(B) /\ Cardinality(A) \in Nat /\ Cardinality(B) \in Nat
      /\ Cardinality(Syncer) \in Nat
  BY CountFacts
<1> HIDE DEF A, B, C
<1>3. C \subseteq B /\ Twins(n, c)' = A
  BY DEF A, B, C
<1>4. Cardinality(C) <= Cardinality(B) /\ Cardinality(C) \in Nat
  BY <1>2, <1>3, FS_Subset, FS_CardinalityType
<1>5. Cardinality(A) + Cardinality(C) <= Cardinality(Syncer)
  BY <1>1, <1>2, <1>4
<1> QED
  BY <1>3, <1>5 DEF C

LEMMA CreatorsMoves ==
    ASSUME SyncTypes, NEW s \in Syncer, SyncMove(s), NEW n \in Node, NEW c \in Id
    PROVE  \/ Creators(n, c)' \subseteq Creators(n, c) \ {s}
           \/ Wanted(s, n) /\ Container(job[s].plan, job[s].man.ids, n) = c
           \/ Begun(s) /\ Creators(n, c)' \subseteq Creators(n, c)
<1>1. ASSUME Others(s), job'[s].pc # "create"
      PROVE  Creators(n, c)' \subseteq Creators(n, c) \ {s}
  BY <1>1 DEF Creators, Others, At
<1>2. CASE Begun(s)
  BY <1>2 DEF Begun, Creators, At
<1>3. ASSUME NEW m \in Node, Wanted(s, m),
             ~(Wanted(s, n) /\ Container(job[s].plan, job[s].man.ids, n) = c)
      PROVE  Creators(n, c)' \subseteq Creators(n, c) \ {s}
  <2>1. job'[s].at = m /\ job'[s].plan = job[s].plan /\ job'[s].man = job[s].man /\ Others(s)
    BY <1>3 DEF Wanted, Goes
  <2>2. s \notin Creators(n, c)'
    BY <1>3, <2>1 DEF Creators, At
  <2> QED
    BY <2>1, <2>2 DEF Creators, Others, At
<1>4. ASSUME NEW m \in Node, NEW i \in Item, Kept(s, m, i)
      PROVE  Creators(n, c)' \subseteq Creators(n, c) \ {s}
  BY <1>1, <1>4 DEF Kept, Goes
<1>5. ASSUME Ended(s) \/ Finished(s)
      PROVE  Creators(n, c)' \subseteq Creators(n, c) \ {s}
  BY <1>1, <1>5, IdleIsRun DEF Ended, Finished
<1>6. ASSUME Found(s) \/ Dropped(s) \/ Stored(s)
      PROVE  Creators(n, c)' \subseteq Creators(n, c) \ {s}
  BY <1>1, <1>6 DEF Found, Dropped, Stored, Goes
<1>7. ASSUME Made(s) \/ Renamed(s)
      PROVE  Creators(n, c)' \subseteq Creators(n, c) \ {s}
  BY <1>1, <1>7, IdleIsRun DEF Made, Renamed, Answers, Goes
<1> QED
  BY <1>2, <1>3, <1>4, <1>5, <1>6, <1>7 DEF SyncMove

LEMMA TwinStep ==
    ASSUME SyncTypes, SyncTypes', HonestInv, TwinInv, Moved
    PROVE  TwinInv'
<1> SUFFICES ASSUME NEW n \in Node, NEW c \in Id
             PROVE  Cardinality(Twins(n, c)') + Cardinality(Creators(n, c)')
                        <= Cardinality(Syncer)
  BY DEF TwinInv
<1>1. ASSUME board' = board PROVE Twins(n, c)' = Twins(n, c)
  BY <1>1 DEF Twins
<1>2. CASE Ambient
  <2>1. board' = board /\ job' = job
    BY <1>2 DEF Ambient, Elsewhere, EditPlan, LoseManifest, Trigger
  <2>2. Creators(n, c)' = Creators(n, c)
    BY <2>1 DEF Creators, At
  <2> QED
    BY <1>1, <2>1, <2>2, FewerCreators
<1>3. ASSUME NEW s \in Syncer, SyncMove(s)
      PROVE  Cardinality(Twins(n, c)') + Cardinality(Creators(n, c)') <= Cardinality(Syncer)
  <2> DEFINE j == job[s]
  <2>1. CASE Wanted(s, n) /\ Container(j.plan, j.man.ids, n) = c
    <3>1. Twins(n, c)' = {}
      BY <1>1, <2>1 DEF Wanted, Named, Twins
    <3>2. Cardinality(Twins(n, c)') = 0
      BY <3>1, FS_EmptySet
    <3>3. Cardinality(Creators(n, c)') \in Nat
          /\ Cardinality(Creators(n, c)') <= Cardinality(Syncer)
      <4> DEFINE C == Creators(n, c)'
      <4>1. C \subseteq Syncer
        BY DEF Creators
      <4> HIDE DEF C
      <4>2. Cardinality(C) <= Cardinality(Syncer) /\ Cardinality(C) \in Nat
        BY <4>1, FS_Subset, FS_CardinalityType
      <4> QED
        BY <4>2 DEF C
    <3> QED
      BY <3>2, <3>3
  <2>2. CASE Made(s) /\ ~(Wanted(s, n) /\ Container(j.plan, j.man.ids, n) = c)
    <3> DEFINE e == Card(j.plan, j.man.ids, j.at)
               k == Len(board) + 1
    <3>1. /\ e \in CardSet /\ e.key = j.at /\ e.in = Container(j.plan, j.man.ids, j.at)
          /\ board' = Append(board, e)
      BY <2>2, AtFacts, CardFacts DEF Made, At
    <3>2. Creators(n, c)' \subseteq Creators(n, c) \ {s}
      BY <1>3, <2>2, CreatorsMoves DEF Begun, Made, At
    <3> HIDE DEF e, k
    <3>3. /\ k \notin DOMAIN board /\ DOMAIN board' = DOMAIN board \cup {k}
          /\ board'[k] = e /\ \A i \in DOMAIN board : board'[i] = board[i]
      BY <3>1, MadeBoard DEF k
    <3>4. CASE j.at = n /\ e.in = c
      <4>1. s \in Creators(n, c)
        BY <2>2, <3>1, <3>4 DEF Creators, Made
      <4>2. Twins(n, c)' = Twins(n, c) \cup {k} /\ k \notin Twins(n, c)
        BY <3>1, <3>3, <3>4 DEF Twins
      <4> DEFINE A == Twins(n, c)
                 B == Creators(n, c)
                 C == Creators(n, c)'
      <4>3. IsFiniteSet(A) /\ IsFiniteSet(B) /\ Cardinality(A) \in Nat /\ Cardinality(B) \in Nat
            /\ Cardinality(Syncer) \in Nat
            /\ Cardinality(A) + Cardinality(B) <= Cardinality(Syncer)
        BY CountFacts DEF TwinInv
      <4>4. s \in B /\ C \subseteq B \ {s} /\ Twins(n, c)' = A \cup {k} /\ k \notin A
        BY <3>2, <4>1, <4>2
      <4> HIDE DEF A, B, C
      <4>5. Cardinality(A \cup {k}) = Cardinality(A) + 1
        BY <4>3, <4>4, FS_AddElement
      <4>6. IsFiniteSet(B \ {s}) /\ Cardinality(B \ {s}) = Cardinality(B) - 1
        BY <4>3, <4>4, FS_RemoveElement
      <4>7. Cardinality(C) <= Cardinality(B) - 1 /\ Cardinality(C) \in Nat
        BY <4>4, <4>6, FS_Subset, FS_CardinalityType
      <4>8. Cardinality(A \cup {k}) + Cardinality(C) <= Cardinality(Syncer)
        BY <4>3, <4>5, <4>7
      <4> QED
        BY <4>4, <4>8 DEF C
    <3>5. CASE ~(j.at = n /\ e.in = c)
      <4>1. Twins(n, c)' = Twins(n, c)
        BY <3>1, <3>3, <3>5 DEF Twins
      <4> QED
        BY <3>2, <4>1, FewerCreators
    <3> QED
      BY <3>4, <3>5
  <2>3. CASE ~Made(s) /\ ~(Wanted(s, n) /\ Container(j.plan, j.man.ids, n) = c)
    <3>1. Creators(n, c)' \subseteq Creators(n, c)
      BY <1>3, <2>3, CreatorsMoves
    <3>2. Twins(n, c)' = Twins(n, c)
      <4>1. CASE Renamed(s)
        <5> DEFINE i == j.man.ids[j.at]
                   x == j.plan.title[j.at]
        <5>1. i \in DOMAIN board /\ board' = [board EXCEPT ![i].title = x]
          BY <4>1, AtFacts DEF Renamed, At, On
        <5> HIDE DEF i, x
        <5> QED
          BY <5>1, RenamedBoard DEF Twins
      <4>2. CASE ~Renamed(s)
        BY <1>1, <1>3, <2>3, <4>2 DEF SyncMove, Begun, Ended, Found, Dropped, Stored, Finished,
           Wanted, Kept
      <4> QED
        BY <4>1, <4>2
    <3> QED
      BY <3>1, <3>2, FewerCreators
  <2> QED
    BY <2>1, <2>2, <2>3
<1> QED
  BY <1>2, <1>3 DEF Moved
-------------------------------------------------------------------------------
(***************************************************************************)
(* A sync that ran alone has seen to every node it has visited: its card   *)
(* is on the board, with the planned title if it is where it should be.    *)
(***************************************************************************)
Titled(b, m, p, n) ==
    /\ On(b, m.ids[n], n)
    /\ n \in Task /\ b[m.ids[n]].in = m.ids[p.at[n]] => b[m.ids[n]].title = p.title[n]

AloneInv ==
    \A s \in Syncer : ~At(s, "idle") /\ job[s].alone => \A r \in Syncer \ {s} : At(r, "idle")

Seen(j) == {n \in Planned(j.plan) : n \notin j.left \/ (j.pc = "save" /\ n = j.at)}

DoneInv ==
    \A s \in Syncer : job[s].alone /\ job[s].pc \in Walk =>
        \A n \in Seen(job[s]) : Titled(board, job[s].man, job[s].plan, n)

PlanInv == \A t \in Task : plan.at[t] # None => plan.at[t] \in plan.groups

\* Since the last successful sync nobody has changed tasks.md, the board or what
\* the manifest says of the planned nodes.
SettledInv ==
    settled =>
        /\ saved # None
        /\ \A n \in Planned(plan) : Titled(board, saved, plan, n)
        /\ \A s \in Syncer : ~At(s, "discover")
        /\ \A s \in Syncer : At(s, "prune") =>
             /\ job[s].plan = plan
             /\ \A n \in Planned(plan) : job[s].man.ids[n] = saved.ids[n]

LEMMA PlanStep ==
    ASSUME SyncTypes, PlanInv, Moved
    PROVE  PlanInv'
<1>1. ASSUME plan' = plan PROVE PlanInv'
  BY <1>1 DEF PlanInv
<1>2. CASE EditPlan
  <2> USE DEF Plan
  <2>1. plan \in Plan
    BY DEF SyncTypes
  <2>2. ASSUME NEW t \in Task, NEW g \in plan.groups \cup {None},
               plan' = [plan EXCEPT !.at[t] = g]
        PROVE  PlanInv'
    <3>1. plan'.groups = plan.groups /\ plan'.at = [plan.at EXCEPT ![t] = g]
      BY <2>1, <2>2
    <3> HIDE DEF Plan
    <3>2. plan.at \in [Task -> Group \cup {None}]
      BY <2>1 DEF Plan
    <3> QED
      BY <3>1, <3>2 DEF PlanInv
  <2>3. ASSUME NEW t \in Task, NEW x \in Title, plan' = [plan EXCEPT !.title[t] = x]
        PROVE  PlanInv'
    <3>1. plan'.groups = plan.groups /\ plan'.at = plan.at
      BY <2>1, <2>3
    <3> QED
      BY <3>1 DEF PlanInv
  <2>4. ASSUME NEW g \in plan.groups, NEW h \in Group \ plan.groups,
               plan' = [plan EXCEPT !.groups = (@ \ {g}) \cup {h},
                                    !.at = [t \in Task |-> IF @[t] = g THEN h ELSE @[t]]]
        PROVE  PlanInv'
    <3>1. plan'.groups = (plan.groups \ {g}) \cup {h}
          /\ plan'.at = [t \in Task |-> IF plan.at[t] = g THEN h ELSE plan.at[t]]
      BY <2>1, <2>4
    <3> QED
      BY <3>1 DEF PlanInv
  <2> QED
    BY <1>2, <2>2, <2>3, <2>4 DEF EditPlan
<1>3. ASSUME ~EditPlan PROVE plan' = plan
  BY <1>3 DEF Moved, Ambient, Elsewhere, LoseManifest, Trigger, SyncMove, Begun, Ended, Found,
     Dropped, Made, Renamed, Stored, Finished, Wanted, Kept
<1> QED
  BY <1>1, <1>2, <1>3

LEMMA AloneStep ==
    ASSUME SyncTypes, SyncTypes', AloneInv, Moved
    PROVE  AloneInv'
<1>1. ASSUME NEW s \in Syncer, Others(s), job'[s] = Idle PROVE AloneInv'
  BY <1>1, IdleIsRun DEF AloneInv, Others, At
<1>2. ASSUME NEW s \in Syncer, job[s].pc # "idle", Goes(s, job'[s].pc) PROVE AloneInv'
  BY <1>2 DEF AloneInv, Goes, Others, At
<1>3. ASSUME NEW s \in Syncer, Begun(s) PROVE AloneInv'
  <2>1. \A r \in Syncer \ {s} : job'[r].pc = job[r].pc
    BY <1>3 DEF Begun
  <2>2. ASSUME NEW r \in Syncer \ {s}, job'[r].pc # "idle" PROVE ~job'[r].alone
    BY <1>3, <2>1, <2>2 DEF Begun, At
  <2>3. ASSUME job'[s].alone, NEW r \in Syncer \ {s} PROVE job'[r].pc = "idle"
    BY <1>3, <2>1, <2>3 DEF Begun, At
  <2> QED
    BY <2>2, <2>3 DEF AloneInv, At
<1>4. ASSUME job' = job PROVE AloneInv'
  BY <1>4 DEF AloneInv, At
<1>5. ASSUME NEW s \in Syncer, SyncMove(s) PROVE AloneInv'
  <2>1. CASE Begun(s)
    BY <1>3, <2>1
  <2>2. CASE Ended(s) \/ Finished(s)
    BY <1>1, <2>2 DEF Ended, Finished
  <2>3. CASE Found(s) \/ Dropped(s) \/ Stored(s)
    BY <1>2, <2>3 DEF Found, Dropped, Stored, Goes, At
  <2>4. CASE Made(s) \/ Renamed(s)
    BY <1>1, <1>2, <2>4 DEF Made, Renamed, Answers, Goes, At
  <2>5. ASSUME NEW n \in Node, Wanted(s, n) PROVE AloneInv'
    BY <1>2, <2>5 DEF Wanted, Goes, At
  <2>6. ASSUME NEW n \in Node, NEW i \in Item, Kept(s, n, i) PROVE AloneInv'
    BY <1>2, <2>6 DEF Kept, Goes, At
  <2> QED
    BY <1>5, <2>1, <2>2, <2>3, <2>4, <2>5, <2>6 DEF SyncMove
<1>6. CASE Ambient
  BY <1>4, <1>6 DEF Ambient, Elsewhere, EditPlan, LoseManifest, Trigger
<1> QED
  BY <1>5, <1>6 DEF Moved

\* Recording node n leaves alone what is known of the nodes visited before it.
LEMMA RecordedKeeps ==
    ASSUME NEW b, NEW p \in Plan, NEW m \in Manifest, NEW n \in Planned(p), NEW i \in Item,
           NEW k \in Planned(p), k # n, k \in Task => p.at[k] # n, Titled(b, m, p, k)
    PROVE  Titled(b, Recorded(m, p, n, i), p, k)
<1> DEFINE r == Recorded(m, p, n, i)
<1>1. r.ids = [m.ids EXCEPT ![n] = i] /\ m.ids \in [Node -> Id] /\ n \in Node
  BY RecordedFacts, PlannedFacts DEF Manifest, Id
<1>2. k \in Node /\ (k \in Task => p.at[k] \in Node)
  BY PlannedFacts DEF Node
<1>3. r.ids[k] = m.ids[k] /\ (k \in Task => r.ids[p.at[k]] = m.ids[p.at[k]])
  BY <1>1, <1>2
<1> HIDE DEF r
<1>4. Titled(b, r, p, k)
  BY <1>3 DEF Titled
<1> QED
  BY <1>4 DEF r

\* A card that is up to date, or has just been made, is as it should be.
LEMMA RecordedTitled ==
    ASSUME NEW b, NEW p \in Plan, NEW m \in Manifest, NEW n \in Planned(p), NEW i \in Item,
           On(b, i, n),
           n \in Task /\ b[i].in = Container(p, m.ids, n) => b[i].title = p.title[n]
    PROVE  Titled(b, Recorded(m, p, n, i), p, n)
<1> DEFINE r == Recorded(m, p, n, i)
<1>1. r.ids = [m.ids EXCEPT ![n] = i] /\ m.ids \in [Node -> Id] /\ n \in Node
  BY RecordedFacts, PlannedFacts DEF Manifest, Id
<1>2. r.ids[n] = i
  BY <1>1
<1>3. ASSUME n \in Task PROVE r.ids[p.at[n]] = Container(p, m.ids, n)
  <2>1. p.at[n] \in Group /\ n \notin Group /\ n \notin Root
    BY <1>3, PlannedFacts
  <2>2. Container(p, m.ids, n) = m.ids[p.at[n]]
    BY <2>1 DEF Container, Root
  <2> QED
    BY <1>1, <2>1, <2>2 DEF Node
<1> HIDE DEF r
<1>4. Titled(b, r, p, n)
  BY <1>2, <1>3 DEF Titled
<1> QED
  BY <1>4 DEF r

LEMMA DoneStep ==
    ASSUME SyncTypes, SyncTypes', HonestInv, AloneInv, DoneInv, Moved
    PROVE  DoneInv'
<1> USE DEF Seen
<1>1. CASE Ambient
  <2>1. board' = board /\ job' = job
    BY <1>1 DEF Ambient, Elsewhere, EditPlan, LoseManifest, Trigger
  <2> QED
    BY <2>1 DEF DoneInv
<1>2. ASSUME NEW s \in Syncer, SyncMove(s)
      PROVE  DoneInv'
  <2> DEFINE j == job[s]
             q == job'[s]
             Good == q.alone /\ q.pc \in Walk =>
                        \A n \in Seen(q) : Titled(board', q.man, q.plan, n)
  <2>1. ASSUME Good, Others(s), job[s].pc # "idle" PROVE DoneInv'
    <3>1. ASSUME NEW r \in Syncer \ {s}, job'[r].alone, job'[r].pc \in Walk
          PROVE  FALSE
      BY <2>1, <3>1 DEF AloneInv, Others, At, Walk
    <3>2. ASSUME NEW r \in Syncer, job'[r].alone, job'[r].pc \in Walk, NEW n \in Seen(job'[r])
          PROVE  Titled(board', job'[r].man, job'[r].plan, n)
      BY <2>1, <3>1, <3>2
    <3> QED
      BY <3>2 DEF DoneInv, Titled
  <2>2. ASSUME board' = board, Others(s), q.pc = "idle" PROVE DoneInv'
    <3>1. \A r \in Syncer : job'[r].pc \in Walk => job'[r] = job[r]
      BY <2>2 DEF Others, Walk
    <3> QED
      BY <2>2, <3>1 DEF DoneInv
  <2>3. CASE Begun(s)
    <3>1. \A r \in Syncer : job'[r].pc \in Walk => ~job'[r].alone
      BY <2>3 DEF Begun, Walk, At
    <3> QED
      BY <3>1 DEF DoneInv
  <2>4. CASE Ended(s) \/ Finished(s)
    BY <2>2, <2>4, IdleIsRun DEF Ended, Finished
  <2>5. CASE Found(s)
    BY <2>1, <2>5 DEF Found, Goes, At, Walk
  <2>6. CASE Dropped(s)
    <3>1. q.pc = "next" /\ q.left = Planned(q.plan)
      BY <2>6 DEF Dropped, Goes
    <3> QED
      BY <2>1, <2>6, <3>1 DEF Dropped, Goes, At
  <2>7. /\ j \in Run /\ Shape(j) /\ j.man \in Manifest
        /\ j.alone /\ j.pc \in Walk => \A n \in Seen(j) : Titled(board, j.man, j.plan, n)
    BY DEF SyncTypes, Run, DoneInv
  <2> HIDE DEF Good
  <2>8. ASSUME NEW n \in Node, Wanted(s, n) PROVE DoneInv'
    <3>1. j.pc = "next" /\ q.pc = "create" /\ q.plan = j.plan /\ q.left = j.left
          /\ q.man = j.man /\ q.alone = j.alone /\ Others(s) /\ board' = board
      BY <2>8 DEF Wanted, Goes, At
    <3>2. Seen(q) \subseteq Seen(j)
      BY <3>1
    <3>3. Good
      BY <2>7, <3>1, <3>2 DEF Walk, Good
    <3> QED
      BY <2>1, <3>1, <3>3
  <2>9. ASSUME NEW n \in Planned(j.plan), j.plan \in Plan, NEW i \in Item, j.pc \in Walk,
               q.man = Recorded(j.man, j.plan, n, i),
               q.plan = j.plan, n \in j.left, q.alone = j.alone,
               \A k \in j.left : k \in q.left \/ k = n,
               Grows(board, board'), \A x \in DOMAIN board : board'[x] = board[x],
               n \in Seen(q) => Titled(board', q.man, q.plan, n),
               q.pc \in Walk, q.pc = "save" => q.at = n
        PROVE  Good
    <3>1. ASSUME q.alone, NEW k \in Seen(q), k # n PROVE Titled(board', q.man, q.plan, k)
      <4>1. k \in Planned(j.plan) /\ k \notin j.left /\ k \in Seen(j)
        BY <2>9, <3>1
      <4>2. k \in Task => j.plan.at[k] # n
        BY <2>7, <2>9, <4>1 DEF Shape
      <4>3. Titled(board, j.man, j.plan, k)
        BY <2>7, <2>9, <3>1, <4>1
      <4>4. Titled(board', j.man, j.plan, k)
        BY <2>9, <4>3 DEF Titled, On, Grows
      <4> QED
        BY <2>7, <2>9, <3>1, <4>1, <4>2, <4>4, RecordedKeeps
    <3> QED
      BY <2>9, <3>1 DEF Good
  <2>10. ASSUME NEW n \in Node, NEW i \in Item, Kept(s, n, i) PROVE DoneInv'
    <3>1. /\ n \in j.left /\ j.pc = "next" /\ n \in Planned(j.plan) /\ j.plan \in Plan
          /\ q.man = Recorded(j.man, j.plan, n, i) /\ board' = board /\ On(board, i, n)
          /\ q.plan = j.plan /\ q.alone = j.alone /\ Others(s)
      BY <2>7, <2>10 DEF Kept, Due, At, Shape, Walk, Goes, Bears, On
    <3>2. CASE q.pc = "rename"
      <4>1. q.left = j.left
        BY <2>10, <3>2 DEF Kept, Goes
      <4>2. n \notin Seen(q)
        BY <3>1, <3>2, <4>1
      <4>3. Good
        BY <2>9, <3>1, <3>2, <4>1, <4>2 DEF Walk, Grows
      <4> QED
        BY <2>1, <3>1, <4>3
    <3>3. CASE q.pc # "rename"
      <4>1. ~Outdated(j.plan, n, i, Container(j.plan, j.man.ids, n))
        BY <2>10, <3>3 DEF Kept, Goes
      <4>2. Titled(board, q.man, j.plan, n)
        BY <2>7, <3>1, <4>1, RecordedTitled DEF Outdated
      <4>3. /\ \A k \in j.left : k \in q.left \/ k = n
            /\ q.pc \in Walk /\ (q.pc = "save" => q.at = n)
        BY <2>10, <3>3 DEF Kept, Goes, Walk
      <4>4. Good
        BY <2>9, <3>1, <4>2, <4>3 DEF Walk, Grows
      <4> QED
        BY <2>1, <3>1, <4>4
    <3> QED
      BY <3>2, <3>3
  <2>11. CASE Made(s)
    <3> DEFINE n == j.at
               k == Len(board) + 1
               e == Card(j.plan, j.man.ids, n)
    <3>1. n \in Planned(j.plan) /\ j.plan \in Plan /\ j.pc = "create" /\ n \in j.left
      BY <2>7, <2>11, AtFacts DEF Made, At, Shape
    <3>2. /\ e \in CardSet /\ e.key = n /\ e.in = Container(j.plan, j.man.ids, n)
          /\ n \in Task => e.title = j.plan.title[n]
      BY <2>7, <3>1, CardFacts
    <3>3. board' = Append(board, e) /\ Answers(s, Recorded(j.man, j.plan, n, k))
      BY <2>11 DEF Made
    <3>4. k \in Item
      BY <2>11, LenProperties DEF Made, SyncTypes, Item
    <3> HIDE DEF e
    <3>5. /\ board'[k] = e /\ On(board', k, n)
          /\ \A x \in DOMAIN board : x \in DOMAIN board' /\ board'[x] = board[x]
      BY <3>2, <3>3, MadeBoard DEF On
    <3>6. Titled(board', Recorded(j.man, j.plan, n, k), j.plan, n)
      BY <2>7, <3>1, <3>2, <3>4, <3>5, RecordedTitled
    <3>7. CASE q = Idle /\ Others(s)
      <4>1. Good
        BY <3>7, IdleIsRun DEF Good, Walk
      <4> QED
        BY <2>1, <3>1, <3>7, <4>1
    <3>8. CASE ~(q = Idle /\ Others(s))
      <4>1. q.pc = "save" /\ q.at = n /\ q.left = j.left /\ q.plan = j.plan /\ q.alone = j.alone
            /\ q.man = Recorded(j.man, j.plan, n, k) /\ Others(s)
        BY <3>3, <3>8 DEF Answers, Goes
      <4>2. Good
        BY <2>9, <3>1, <3>4, <3>5, <3>6, <4>1 DEF Walk, Grows
      <4> QED
        BY <2>1, <3>1, <4>1, <4>2
    <3> QED
      BY <3>7, <3>8
  <2>12. CASE Renamed(s)
    <3> DEFINE n == j.at
               i == j.man.ids[n]
               x == j.plan.title[n]
    <3>1. j.plan \in Plan /\ j.pc = "rename" /\ n \in j.left /\ On(board, i, n)
      BY <2>7, <2>12, AtFacts DEF Renamed, At, Shape
    <3>2. board' = [board EXCEPT ![i].title = x] /\ Answers(s, j.man)
      BY <2>12 DEF Renamed
    <3>3. i \in DOMAIN board
      BY <3>1 DEF On
    <3>4. /\ DOMAIN board' = DOMAIN board
          /\ board'[i].title = x /\ board'[i].key = board[i].key /\ board'[i].in = board[i].in
          /\ \A k \in DOMAIN board : k # i => board'[k] = board[k]
      <4> HIDE DEF i, x
      <4> QED
        BY <3>2, <3>3, RenamedBoard
    <3>5. CASE q = Idle /\ Others(s)
      <4>1. Good
        BY <3>5, IdleIsRun DEF Good, Walk
      <4> QED
        BY <2>1, <3>1, <3>5, <4>1
    <3>6. CASE ~(q = Idle /\ Others(s))
      <4>1. q.pc = "save" /\ q.at = n /\ q.left = j.left /\ q.plan = j.plan /\ q.alone = j.alone
            /\ q.man = j.man /\ Others(s)
        BY <3>2, <3>6 DEF Answers, Goes
      <4>2. Titled(board', j.man, j.plan, n)
        BY <3>1, <3>4 DEF Titled, On
      <4>3. ASSUME q.alone, NEW k \in Seen(q), k # n PROVE Titled(board', j.man, j.plan, k)
        <5>1. k \in Seen(j) /\ Titled(board, j.man, j.plan, k)
          BY <2>7, <3>1, <4>1, <4>3 DEF Walk
        <5>2. j.man.ids[k] # i /\ j.man.ids[k] \in DOMAIN board
          BY <3>1, <4>3, <5>1 DEF Titled, On
        <5> QED
          BY <3>4, <5>1, <5>2 DEF Titled, On
      <4>4. Good
        BY <4>1, <4>2, <4>3 DEF Good
      <4> QED
        BY <2>1, <3>1, <4>1, <4>4
    <3> QED
      BY <3>5, <3>6
  <2>13. CASE Stored(s)
    <3>1. j.pc = "save" /\ q.pc = "next" /\ q.plan = j.plan /\ q.left = j.left \ {j.at}
          /\ q.man = j.man /\ q.alone = j.alone /\ Others(s) /\ board' = board
      BY <2>13 DEF Stored, Goes, At
    <3>2. Seen(q) \subseteq Seen(j)
      BY <3>1
    <3>3. Good
      BY <2>7, <3>1, <3>2 DEF Walk, Good
    <3> QED
      BY <2>1, <3>1, <3>3
  <2> QED
    BY <1>2, <2>3, <2>4, <2>5, <2>6, <2>8, <2>10, <2>11, <2>12, <2>13 DEF SyncMove
<1> QED
  BY <1>1, <1>2 DEF Moved

LEMMA SettledStep ==
    ASSUME SyncTypes, SyncTypes', HonestInv, AloneInv, DoneInv, PlanInv, SettledInv, Moved
    PROVE  SettledInv'
<1>1. ASSUME NEW s \in Syncer, SyncMove(s), settled'
      PROVE  SettledInv'
  <2> DEFINE j == job[s]
             q == job'[s]
  <2>1. ASSUME UNCHANGED <<plan, board, saved, starts, settled>>, Others(s),
               q.pc \notin {"discover", "prune"}
        PROVE  SettledInv'
    <3>1. settled /\ plan' = plan /\ board' = board /\ saved' = saved
      BY <1>1, <2>1
    <3>2. \A r \in Syncer : job'[r].pc \in {"discover", "prune"} => job'[r] = job[r]
      BY <2>1 DEF Others
    <3> QED
      BY <3>1, <3>2 DEF SettledInv, At, Titled
  <2>2. CASE Begun(s)
    BY <1>1, <2>2 DEF Begun, SettledInv, At
  <2>3. CASE Ended(s)
    BY <2>1, <2>3, IdleIsRun DEF Ended
  <2>4. CASE Found(s)
    BY <1>1, <2>4 DEF Found, SettledInv
  <2>5. CASE Dropped(s)
    <3>1. settled /\ j.plan = plan /\ plan' = plan /\ board' = board /\ q.pc = "next"
          /\ j.man \in Manifest /\ plan \in Plan /\ Others(s)
      BY <1>1, <2>5 DEF Dropped, SettledInv, Goes, SyncTypes, Run
    <3>2. \A n \in Planned(plan) : n \in Node /\ q.man.ids[n] = j.man.ids[n]
      BY <2>5, <3>1, PrunedFacts, PlannedFacts DEF Dropped
    <3>3. \A n \in Planned(plan) : saved'.ids[n] = saved.ids[n]
      BY <2>5, <3>1, <3>2 DEF Dropped, SettledInv
    <3>4. \A n \in Planned(plan) : n \in Task => plan.at[n] \in Planned(plan)
      BY <3>1 DEF PlanInv, Planned, Plan
    <3>5. saved' # None
      BY <2>5, <3>1, PrunedFacts DEF Dropped, SettledInv
    <3>6. ASSUME NEW n \in Planned(plan) PROVE Titled(board, saved', plan, n)
      <4>1. Titled(board, saved, plan, n)
        BY <3>1 DEF SettledInv
      <4>2. saved'.ids[n] = saved.ids[n]
            /\ (n \in Task => saved'.ids[plan.at[n]] = saved.ids[plan.at[n]])
        BY <3>3, <3>4
      <4> QED
        BY <4>1, <4>2 DEF Titled
    <3>7. ASSUME NEW r \in Syncer
          PROVE  /\ job'[r].pc # "discover"
                 /\ job'[r].pc = "prune" => /\ job'[r].plan = plan
                                            /\ \A n \in Planned(plan) :
                                                  job'[r].man.ids[n] = saved'.ids[n]
      <4>1. CASE r = s
        BY <3>1, <4>1
      <4>2. CASE r # s
        BY <3>1, <3>3, <4>2 DEF Others, SettledInv, At
      <4> QED
        BY <4>1, <4>2
    <3> QED
      BY <3>1, <3>5, <3>6, <3>7 DEF SettledInv, Titled, At
  <2>6. CASE Made(s) \/ Renamed(s) \/ Stored(s)
    BY <1>1, <2>6 DEF Made, Renamed, Stored
  <2>7. CASE Finished(s)
    <3>1. j.plan = plan /\ j.alone /\ j.pc = "next" /\ j.left = {} /\ j.man \in Manifest
          /\ plan' = plan /\ board' = board /\ saved' = j.man /\ q = Idle /\ Others(s)
      BY <1>1, <2>7 DEF Finished, At, SyncTypes, Run
    <3>2. \A n \in Planned(plan) : Titled(board, saved', plan, n)
      BY <3>1 DEF DoneInv, Seen, Walk
    <3>3. \A r \in Syncer : job'[r].pc = "idle"
      BY <3>1, IdleIsRun DEF AloneInv, At, Others
    <3> QED
      BY <3>1, <3>2, <3>3 DEF SettledInv, Titled, At
  <2>8. ASSUME NEW n \in Node, Wanted(s, n) PROVE SettledInv'
    BY <2>1, <2>8 DEF Wanted, Goes
  <2>9. ASSUME NEW n \in Node, NEW i \in Item, Kept(s, n, i) PROVE SettledInv'
    BY <2>1, <2>9 DEF Kept, Goes
  <2> QED
    BY <1>1, <2>2, <2>3, <2>4, <2>5, <2>6, <2>7, <2>8, <2>9 DEF SyncMove
<1>2. CASE Ambient
  <2>1. CASE EditPlan \/ LoseManifest
    BY <2>1 DEF EditPlan, LoseManifest, SettledInv
  <2>2. CASE ~(EditPlan \/ LoseManifest)
    <3>1. UNCHANGED <<plan, board, saved, job, settled>>
      BY <1>2, <2>2 DEF Ambient, Elsewhere, Trigger
    <3> QED
      BY <3>1 DEF SettledInv, Titled, At
  <2> QED
    BY <2>1, <2>2
<1>3. CASE ~settled'
  BY <1>3 DEF SettledInv
<1> QED
  BY <1>1, <1>2, <1>3 DEF Moved
-------------------------------------------------------------------------------
(***************************************************************************)
(* The projection into Trello.  A sync is blind to a task while it may yet *)
(* make a card for it, having seen none and with none left to see.         *)
(***************************************************************************)
TrelloCard == [task : Task, list : Id, title : Title, label : Nat]
Sight == [id : Nat, title : Label, label : Nat]
TrelloRun == [pc : {"idle", "lists", "cards", "labels", "tasks"}, plan : Plan \cup {None},
              labelled : SUBSET Task, label : Nat, left : SUBSET (Group \cup Task),
              list : [Group -> Id], seen : [Task -> Sight]]

TrelloShape(ls, cs, j) ==
    /\ j.pc # "idle" => j.plan \in Plan
    /\ \A g \in Group : j.list[g] # NoItem => j.list[g] \in DOMAIN ls /\ ls[j.list[g]] = g
    /\ j.pc \in {"cards", "labels", "tasks"} => \A g \in Phases(j.plan) : j.list[g] # NoItem
    /\ j.pc = "cards" => j.left \subseteq Phases(j.plan)
    /\ j.pc = "tasks" => j.left \subseteq PlannedTasks(j.plan)
    /\ \A t \in Task : j.seen[t].id # NoItem => j.seen[t].id \in DOMAIN cs

TrelloTypes ==
    /\ lists \in Seq(Group) /\ Len(lists) <= MaxItems
    /\ cards \in Seq(TrelloCard) /\ Len(cards) <= MaxItems
    /\ labels \in Nat /\ labelled \subseteq Task /\ strayed \in BOOLEAN
    /\ tsync \in [Syncer -> TrelloRun]
    /\ \A s \in Syncer : TrelloShape(lists, cards, tsync[s])
    /\ target = "clickup" => cards = <<>> /\ \A s \in Syncer : tsync[s] = NoSync

\* Every card is in the list of a phase that is planned, and read by whoever starts.
Tidy ==
    ~strayed =>
        /\ \A i \in DOMAIN cards :
             cards[i].list \in DOMAIN lists /\ lists[cards[i].list] \in Phases(plan)
        /\ \A s \in Syncer : tsync[s].pc # "idle" => Phases(tsync[s].plan) \subseteq Phases(plan)

Sees(cs, j, t, G) ==
    \E i \in DOMAIN cs : /\ cs[i].task = t /\ cs[i].list # NoItem
                         /\ \E g \in G : j.list[g] = cs[i].list

Blind(cs, j, t) ==
    \/ j.pc = "lists" /\ ~Sees(cs, j, t, Phases(j.plan))
    \/ j.pc = "cards" /\ j.seen[t].id = NoItem /\ ~Sees(cs, j, t, j.left)
    \/ j.pc = "labels" /\ j.seen[t].id = NoItem
    \/ j.pc = "tasks" /\ j.seen[t].id = NoItem /\ t \in j.left

BlindOnes(t) == {s \in Syncer : Blind(cards, tsync[s], t)}

CardInv ==
    ~strayed => \A t \in Task :
        Cardinality(CardsOf(t)) + Cardinality(BlindOnes(t)) <= Cardinality(Syncer)

TrelloOthers(s) == \A r \in Syncer \ {s} : tsync'[r] = tsync[r]

LEMMA SetsFacts ==
    ASSUME tsync \in [Syncer -> TrelloRun], NEW s \in Syncer, NEW j \in TrelloRun, Sets(s, j)
    PROVE  tsync' \in [Syncer -> TrelloRun] /\ tsync'[s] = j /\ TrelloOthers(s)
BY DEF Sets, TrelloOthers

LEMMA NoSyncFacts ==
    /\ NoSync \in TrelloRun /\ NoSync.pc = "idle" /\ NoSync.list = [g \in Group |-> NoItem]
    /\ NoSync.seen = [t \in Task |-> Unseen] /\ Unseen \in Sight /\ Unseen.id = NoItem
    /\ \A cs, t : ~Blind(cs, NoSync, t)
    /\ \A ls, cs : TrelloShape(ls, cs, NoSync)
<1>1. Unseen \in Sight /\ Unseen.id = NoItem
  BY DEF Unseen, Sight, Label, NoItem
<1>2. /\ NoSync.pc = "idle" /\ NoSync.list = [g \in Group |-> NoItem]
      /\ NoSync.seen = [t \in Task |-> Unseen]
  BY DEF NoSync
<1>3. NoSync \in TrelloRun
  <2>1. NoItem \in Id /\ NoItem \in Nat
    BY DEF Id, NoItem
  <2> HIDE DEF Unseen, Sight, NoItem, Id
  <2> QED
    BY <1>1, <2>1 DEF NoSync, TrelloRun
<1> HIDE DEF NoSync
<1>4. \A cs, t : ~Blind(cs, NoSync, t)
  BY <1>2 DEF Blind
<1>5. \A ls, cs : TrelloShape(ls, cs, NoSync)
  BY <1>1, <1>2 DEF TrelloShape
<1> QED
  BY <1>1, <1>2, <1>3, <1>4, <1>5

\* The greatest element of a set of places exists.
LEMMA NewestFacts ==
    ASSUME NEW N \in Nat, NEW S \in SUBSET (1 .. N), S # {}
    PROVE  Newest(S) \in S
<1> DEFINE T == {N - i : i \in S}
<1>1. T \subseteq Nat /\ T # {}
  <2>1. ASSUME NEW i \in S PROVE N - i \in Nat /\ N - i \in T
    <3>1. i \in 1 .. N
      OBVIOUS
    <3> QED
      BY <3>1
  <2> QED
    BY <2>1
<1>2. PICK x \in T : \A y \in T : ~(<<y, x>> \in OpToRel(<, Nat))
  BY <1>1, NatLessThanWellFounded, WFMin
<1>3. \A y \in T : ~(y < x)
  BY <1>1, <1>2 DEF OpToRel
<1>4. PICK i \in S : x = N - i
  OBVIOUS
<1>5. ASSUME NEW j \in S PROVE j <= i
  <2>1. i \in 1 .. N /\ j \in 1 .. N /\ N - j \in T
    OBVIOUS
  <2>2. ~(N - j < N - i)
    BY <1>3, <1>4, <2>1
  <2> QED
    BY <2>1, <2>2
<1> QED
  BY <1>5 DEF Newest

TrelloInv == TrelloTypes /\ Tidy /\ CardInv

\* What no step of a sync changes, and what it changes of lists and cards.
Steady ==
    /\ UNCHANGED <<plan, labelled, strayed, target>> /\ target = "trello"
    /\ lists' \in Seq(Group) /\ Len(lists') <= MaxItems /\ labels' \in Nat
    /\ cards' \in Seq(TrelloCard) /\ Len(cards') <= MaxItems
    /\ \A l \in DOMAIN lists : l \in DOMAIN lists' /\ lists'[l] = lists[l]
    /\ \A i \in DOMAIN cards : i \in DOMAIN cards' /\ cards'[i].task = cards[i].task
                                                   /\ cards'[i].list = cards[i].list

\* A sync that is not left blind to a task it saw a card of.
Sighted(s, q) ==
    /\ q \in TrelloRun /\ TrelloShape(lists', cards', q)
    /\ tsync'[s] = q /\ TrelloOthers(s) /\ tsync' \in [Syncer -> TrelloRun]
    /\ ~strayed /\ q.pc # "idle" => Phases(q.plan) \subseteq Phases(plan)

LEMMA BlindShrinks ==
    ASSUME NEW cs, NEW ds, NEW j, NEW t,
           \A i \in DOMAIN cs : i \in DOMAIN ds /\ ds[i].task = cs[i].task
                                                /\ ds[i].list = cs[i].list,
           Blind(ds, j, t)
    PROVE  Blind(cs, j, t)
<1>1. \A G : Sees(cs, j, t, G) => Sees(ds, j, t, G)
  BY DEF Sees
<1> QED
  BY <1>1 DEF Blind

LEMMA ShapeStays ==
    ASSUME TrelloTypes, Steady, NEW j, TrelloShape(lists, cards, j)
    PROVE  TrelloShape(lists', cards', j)
BY DEF TrelloShape, Steady

LEMMA TypesStay ==
    ASSUME TrelloTypes, Tidy, Steady, NEW s \in Syncer, NEW q, Sighted(s, q)
    PROVE  TrelloTypes'
<1>1. \A r \in Syncer : TrelloShape(lists', cards', tsync'[r])
  BY ShapeStays DEF Sighted, TrelloOthers, TrelloTypes
<1> QED
  BY <1>1 DEF TrelloTypes, Steady, Sighted

LEMMA CardCounts ==
    ASSUME TrelloTypes, NEW t
    PROVE  /\ IsFiniteSet(CardsOf(t)) /\ Cardinality(CardsOf(t)) \in Nat
           /\ \A B \in SUBSET Syncer : /\ IsFiniteSet(B) /\ Cardinality(B) \in Nat
                                       /\ Cardinality(B) <= Cardinality(Syncer)
           /\ Cardinality(Syncer) \in Nat /\ BlindOnes(t) \in SUBSET Syncer
           /\ CardsOf(t) \in SUBSET (1 .. Len(cards)) /\ Len(cards) \in Nat
<1>1. CardsOf(t) \subseteq 1 .. Len(cards) /\ Len(cards) \in Nat
  BY LenProperties DEF CardsOf, TrelloTypes
<1>2. IsFiniteSet(CardsOf(t))
  <2>1. IsFiniteSet(1 .. Len(cards))
    BY <1>1, FS_Interval
  <2> QED
    BY <1>1, <2>1, FS_Subset
<1>3. BlindOnes(t) \in SUBSET Syncer
  BY DEF BlindOnes
<1> QED
  BY <1>1, <1>2, <1>3, FS_Subset, FS_CardinalityType

\* A step that makes no card, and blinds the sync to nothing there is.
LEMMA QuietCards ==
    ASSUME TrelloInv, Steady, NEW s \in Syncer, NEW q, Sighted(s, q),
           DOMAIN cards' = DOMAIN cards,
           ~strayed => \A t \in Task :
               Blind(cards', q, t) => Blind(cards, tsync[s], t) \/ CardsOf(t) = {}
    PROVE  TrelloInv'
<1> USE DEF TrelloInv
<1>1. TrelloTypes'
  BY TypesStay
<1>2. Tidy'
  BY DEF Tidy, Steady, Sighted, TrelloOthers
<1>3. ASSUME ~strayed, NEW t \in Task
      PROVE  Cardinality(CardsOf(t)') + Cardinality(BlindOnes(t)') <= Cardinality(Syncer)
  <2>1. CardsOf(t)' = CardsOf(t)
    BY DEF CardsOf, Steady
  <2>2. BlindOnes(t)' \in SUBSET Syncer
    BY DEF BlindOnes
  <2> DEFINE A == CardsOf(t)
             B == BlindOnes(t)
             C == BlindOnes(t)'
  <2>3. CASE A = {}
    <3>1. Cardinality(CardsOf(t)') = 0
      BY <2>1, <2>3, FS_EmptySet
    <3> QED
      BY <2>2, <3>1, CardCounts
  <2>4. CASE A # {}
    <3>1. ASSUME NEW r \in C PROVE r \in B
      <4>1. r \in Syncer /\ Blind(cards', tsync'[r], t)
        BY DEF BlindOnes
      <4>2. CASE r = s
        BY <1>3, <2>4, <4>1, <4>2 DEF Sighted, BlindOnes
      <4>3. CASE r # s
        <5>1. Blind(cards', tsync[r], t)
          BY <4>1, <4>3 DEF Sighted, TrelloOthers
        <5>2. Blind(cards, tsync[r], t)
          BY <5>1, BlindShrinks DEF Steady
        <5> QED
          BY <4>1, <5>2 DEF BlindOnes
      <4> QED
        BY <4>2, <4>3
    <3>2. Cardinality(A) + Cardinality(B) <= Cardinality(Syncer) /\ B \in SUBSET Syncer
          /\ Cardinality(A) \in Nat /\ Cardinality(B) \in Nat /\ IsFiniteSet(B)
          /\ Cardinality(Syncer) \in Nat
      BY <1>3, CardCounts DEF CardInv
    <3> HIDE DEF A, B, C
    <3>3. C \subseteq B
      BY <3>1
    <3>4. Cardinality(C) <= Cardinality(B) /\ Cardinality(C) \in Nat
      BY <3>2, <3>3, FS_Subset, FS_CardinalityType
    <3>5. Cardinality(A) + Cardinality(C) <= Cardinality(Syncer)
      BY <3>2, <3>4
    <3> QED
      BY <2>1, <3>5 DEF A, C
  <2> QED
    BY <2>3, <2>4
<1>4. CardInv'
  BY <1>3 DEF CardInv, Steady
<1> QED
  BY <1>1, <1>2, <1>4

USE DEF Board, Tasks

\* The step of a sync that leaves the board alone.
LEMMA QuietSyncs ==
    ASSUME TrelloInv, target = "trello", UNCHANGED <<plan, target, Board, labelled, strayed>>,
           NEW s \in Syncer, NEW q \in TrelloRun, TrelloShape(lists, cards, q), Sets(s, q),
           ~strayed /\ q.pc # "idle" => Phases(q.plan) \subseteq Phases(plan),
           ~strayed => \A t \in Task :
               Blind(cards, q, t) => Blind(cards, tsync[s], t) \/ CardsOf(t) = {}
    PROVE  TrelloInv'
<1>1. tsync' \in [Syncer -> TrelloRun] /\ tsync'[s] = q /\ TrelloOthers(s)
  BY SetsFacts DEF TrelloInv, TrelloTypes
<1>2. Steady
  BY DEF Steady, TrelloInv, TrelloTypes
<1>3. Sighted(s, q)
  BY <1>1 DEF Sighted
<1> QED
  BY <1>2, <1>3, QuietCards

LEMMA EndSteps ==
    ASSUME TrelloInv, target = "trello", UNCHANGED <<plan, target, Board, labelled, strayed>>,
           NEW s \in Syncer, Sets(s, NoSync)
    PROVE  TrelloInv'
BY NoSyncFacts, QuietSyncs

LEMMA StartSteps ==
    ASSUME TrelloInv, target = "trello", UNCHANGED <<plan, target>>, plan \in Plan,
           NEW s \in Syncer, StartSync(s)
    PROVE  TrelloInv'
<1> DEFINE lst == [g \in Group |-> Sole(ListsOf(g))]
           q == [NoSync EXCEPT !.pc = "lists", !.plan = plan, !.labelled = labelled,
                               !.list = lst]
<1>1. ~TwoOfAName /\ Sets(s, q) /\ UNCHANGED <<Board, labelled, strayed>>
  BY DEF StartSync
<1>2. \A g \in Group : lst[g] = NoItem \/ lst[g] \in ListsOf(g)
  BY SoleFacts
<1>3. DOMAIN lists = 1 .. Len(lists) /\ Len(lists) \in Nat /\ Len(lists) <= MaxItems
  BY LenProperties DEF TrelloInv, TrelloTypes
<1>4. lst \in [Group -> Id]
  BY <1>2, <1>3 DEF ListsOf, Id, Item
<1> HIDE DEF lst
<1>5. /\ q \in TrelloRun /\ q.pc = "lists" /\ q.plan = plan /\ q.list = lst
      /\ q.seen = NoSync.seen
  BY <1>4, NoSyncFacts DEF TrelloRun, TrelloInv, TrelloTypes
<1>6. TrelloShape(lists, cards, q)
  BY <1>2, <1>5, NoSyncFacts DEF TrelloShape, ListsOf
<1>7. ASSUME ~strayed, NEW t \in Task, CardsOf(t) # {}
      PROVE  ~Blind(cards, q, t)
  <2>1. PICK i \in DOMAIN cards : cards[i].task = t
    BY <1>7 DEF CardsOf
  <2> DEFINE l == cards[i].list
             g == lists[l]
  <2>2. l \in DOMAIN lists /\ g \in Phases(plan)
    BY <1>7, <2>1 DEF TrelloInv, Tidy
  <2>3. g \in Group
    BY <2>2 DEF Phases, PlannedTasks, Plan
  <2>4. l \in ListsOf(g) /\ ~(Cardinality(ListsOf(g)) > 1)
    BY <1>1, <2>2, <2>3 DEF ListsOf, TwoOfAName
  <2>5. ListsOf(g) \subseteq 1 .. Len(lists)
    BY <1>3 DEF ListsOf
  <2>6. IsFiniteSet(ListsOf(g)) /\ Cardinality(ListsOf(g)) \in Nat
    <3>1. IsFiniteSet(1 .. Len(lists))
      BY <1>3, FS_Interval
    <3> QED
      BY <2>5, <3>1, FS_Subset, FS_CardinalityType
  <2>7. Cardinality(ListsOf(g)) # 0
    BY <2>4, <2>6, FS_EmptySet
  <2>8. Cardinality(ListsOf(g)) = 1
    BY <2>4, <2>6, <2>7
  <2>9. Sole(ListsOf(g)) = l
    <3>1. \E x : ListsOf(g) = {x}
      BY <2>6, <2>8, FS_Singleton
    <3>2. ListsOf(g) = {l}
      BY <2>4, <3>1
    <3> QED
      BY <2>8, <3>2 DEF Sole
  <2>10. lst[g] = l /\ l # NoItem
    BY <1>3, <2>2, <2>3, <2>9 DEF lst, NoItem
  <2> HIDE DEF q
  <2>11. Sees(cards, q, t, Phases(q.plan))
    BY <1>5, <2>1, <2>2, <2>10 DEF Sees
  <2> QED
    BY <1>5, <2>11 DEF Blind
<1> HIDE DEF q
<1>8. ~strayed => \A t \in Task :
         Blind(cards, q, t) => Blind(cards, tsync[s], t) \/ CardsOf(t) = {}
  BY <1>7
<1> QED
  BY <1>1, <1>5, <1>6, <1>8, QuietSyncs

\* The steps that only read.
LEMMA ReadSteps ==
    ASSUME TrelloInv, target = "trello", UNCHANGED <<plan, target>>,
           NEW s \in Syncer
    PROVE  /\ HasLists(s) => TrelloInv'
           /\ ReadCards(s) => TrelloInv'
           /\ ResolveLabels(s) => TrelloInv'
<1> DEFINE j == tsync[s]
<1>1. j \in TrelloRun /\ TrelloShape(lists, cards, j)
      /\ (~strayed /\ j.pc # "idle" => Phases(j.plan) \subseteq Phases(plan))
  BY DEF TrelloInv, TrelloTypes, Tidy
<1>2. ASSUME HasLists(s) PROVE TrelloInv'
  <2> DEFINE x == Phases(j.plan)
             q == [j EXCEPT !.pc = "cards", !.left = x]
  <2>1. j.pc = "lists" /\ (\A g \in Phases(j.plan) : j.list[g] # NoItem) /\ Sets(s, q)
        /\ UNCHANGED <<Board, labelled, strayed>> /\ j.plan \in Plan
    BY <1>1, <1>2 DEF HasLists, Is, TrelloShape
  <2>2. x \in SUBSET (Group \cup Task)
    BY <2>1 DEF Phases, PlannedTasks, Plan
  <2> HIDE DEF j, x
  <2>3. /\ q \in TrelloRun /\ q.pc = "cards" /\ q.left = x /\ q.plan = j.plan
        /\ q.list = j.list /\ q.seen = j.seen
    BY <1>1, <2>2 DEF TrelloRun
  <2> HIDE DEF q
  <2>4. TrelloShape(lists, cards, q)
    BY <1>1, <2>1, <2>3 DEF TrelloShape, x
  <2>5. \A t \in Task : Blind(cards, q, t) => Blind(cards, j, t)
    BY <2>1, <2>3 DEF Blind, Sees, x
  <2> QED
    BY <1>1, <2>1, <2>3, <2>4, <2>5, QuietSyncs DEF j
<1>3. ASSUME ReadCards(s) PROVE TrelloInv'
  <2>1. PICK g \in j.left :
         LET found == [t \in Task |-> Marked(s, t, tsync[s].list[g])]
         IN Sets(s, [tsync[s] EXCEPT
                !.left = @ \ {g},
                !.pc = IF tsync[s].left = {g} THEN "labels" ELSE "cards",
                !.seen = [t \in Task |-> IF found[t] = {} THEN @[t]
                            ELSE LET i == Newest(found[t])
                                 IN [id |-> i, title |-> cards[i].title,
                                     label |-> cards[i].label]]])
    BY <1>3 DEF ReadCards
  <2> DEFINE found(t) == Marked(s, t, j.list[g])
             see(t) == [id |-> Newest(found(t)), title |-> cards[Newest(found(t))].title,
                        label |-> cards[Newest(found(t))].label]
             seen == [t \in Task |-> IF found(t) = {} THEN j.seen[t] ELSE see(t)]
             pc == IF j.left = {g} THEN "labels" ELSE "cards"
             q == [j EXCEPT !.left = @ \ {g}, !.pc = pc, !.seen = seen]
  <2>2. Sets(s, q)
    BY <2>1
  <2>3. j.pc = "cards" /\ UNCHANGED <<Board, labelled, strayed>> /\ j.plan \in Plan
        /\ j.left \subseteq Phases(j.plan) /\ g \in Group
    BY <1>1, <1>3 DEF ReadCards, Is, TrelloShape, Phases, PlannedTasks, Plan
  <2>4. DOMAIN cards = 1 .. Len(cards) /\ Len(cards) \in Nat
        /\ \A i \in DOMAIN cards : cards[i] \in TrelloCard
    BY LenProperties, ElementOfSeq DEF TrelloInv, TrelloTypes
  <2>5. ASSUME NEW t \in Task, found(t) # {}
        PROVE  Newest(found(t)) \in DOMAIN cards /\ see(t) \in Sight /\ see(t).id # NoItem
    <3>1. found(t) \subseteq 1 .. Len(cards)
      BY <2>4 DEF Marked
    <3>2. Newest(found(t)) \in 1 .. Len(cards)
      BY <2>4, <2>5, <3>1, NewestFacts
    <3> DEFINE i == Newest(found(t))
    <3>3. i \in DOMAIN cards /\ cards[i] \in TrelloCard /\ i \in Nat /\ i # NoItem
      BY <2>4, <3>2 DEF NoItem
    <3> HIDE DEF i
    <3> QED
      BY <3>3 DEF i, Sight, TrelloCard, Label
  <2>6. seen \in [Task -> Sight]
    <3>1. \A t \in Task : j.seen[t] \in Sight
      BY <1>1 DEF TrelloRun
    <3> HIDE DEF found, see
    <3> QED
      BY <2>5, <3>1
  <2>7. \A t \in Task : seen[t] = IF found(t) = {} THEN j.seen[t] ELSE see(t)
    OBVIOUS
  <2>8. \A t \in Task : see(t).id = Newest(found(t))
    OBVIOUS
  <2> HIDE DEF j, seen, see, pc
  <2>9. /\ q \in TrelloRun /\ q.pc = pc /\ q.left = j.left \ {g} /\ q.plan = j.plan
        /\ q.list = j.list /\ q.seen = seen
    <3>1. pc \in {"labels", "cards"}
      BY DEF pc
    <3> QED
      BY <1>1, <2>6, <3>1 DEF TrelloRun
  <2> HIDE DEF q
  <2>10. \A t \in Task : seen[t].id # NoItem => seen[t].id \in DOMAIN cards
    <3> HIDE DEF found
    <3> QED
      BY <1>1, <2>5, <2>7, <2>8 DEF TrelloShape
  <2>11. TrelloShape(lists, cards, q)
    BY <1>1, <2>3, <2>9, <2>10 DEF TrelloShape, pc
  <2>12. ASSUME NEW t \in Task, Blind(cards, q, t) PROVE Blind(cards, j, t)
    <3>1. q.seen[t].id = NoItem /\ ~Sees(cards, q, t, q.left)
      BY <2>9, <2>12 DEF Blind, Sees, pc
    <3>2. found(t) = {} /\ j.seen[t].id = NoItem
      <4> HIDE DEF found
      <4> QED
        BY <2>5, <2>7, <2>9, <3>1
    <3>3. ~Sees(cards, j, t, j.left)
      <4>1. \A i \in DOMAIN cards : ~(cards[i].task = t /\ cards[i].list = j.list[g])
        BY <3>2 DEF Marked
      <4> HIDE DEF found
      <4> QED
        BY <2>9, <3>1, <4>1 DEF Sees
    <3> QED
      BY <2>3, <3>2, <3>3 DEF Blind
  <2> QED
    BY <1>1, <2>2, <2>3, <2>9, <2>11, <2>12, QuietSyncs DEF j
<1>4. ASSUME ResolveLabels(s) PROVE TrelloInv'
  <2> DEFINE x == PlannedTasks(j.plan)
             y == IF Needed(s) THEN labels ELSE NoItem
             q == [j EXCEPT !.pc = "tasks", !.left = x, !.label = y]
  <2>1. j.pc = "labels" /\ Sets(s, q) /\ UNCHANGED <<Board, labelled, strayed>>
    BY <1>4 DEF ResolveLabels, Is
  <2>2. x \in SUBSET (Group \cup Task) /\ y \in Nat
    BY DEF PlannedTasks, TrelloInv, TrelloTypes, NoItem
  <2> HIDE DEF j, x, y
  <2>3. /\ q \in TrelloRun /\ q.pc = "tasks" /\ q.left = x /\ q.plan = j.plan
        /\ q.list = j.list /\ q.seen = j.seen
    BY <1>1, <2>2 DEF TrelloRun
  <2> HIDE DEF q
  <2>4. TrelloShape(lists, cards, q)
    BY <1>1, <2>1, <2>3 DEF TrelloShape, x
  <2>5. \A t \in Task : Blind(cards, q, t) => Blind(cards, j, t)
    BY <2>1, <2>3 DEF Blind
  <2> QED
    BY <1>1, <2>1, <2>3, <2>4, <2>5, QuietSyncs DEF j
<1> QED
  BY <1>2, <1>3, <1>4

\* A call that makes or changes something, and whose answer may be lost.
LEMMA AnsweredFacts ==
    ASSUME TrelloInv, NEW s \in Syncer, NEW q \in TrelloRun, Answered(s, q)
    PROVE  /\ tsync' \in [Syncer -> TrelloRun] /\ TrelloOthers(s)
           /\ tsync'[s] = q \/ tsync'[s] = NoSync
BY SetsFacts, NoSyncFacts DEF Answered, TrelloInv, TrelloTypes

\* The end of a step that makes no card.
LEMMA CallSteps ==
    ASSUME TrelloInv, Steady, DOMAIN cards' = DOMAIN cards,
           NEW s \in Syncer, NEW q \in TrelloRun, TrelloShape(lists', cards', q), Answered(s, q),
           q.plan = tsync[s].plan, tsync[s].pc # "idle",
           ~strayed => \A t \in Task : Blind(cards', q, t) => Blind(cards, tsync[s], t)
    PROVE  TrelloInv'
<1>1. /\ tsync' \in [Syncer -> TrelloRun] /\ TrelloOthers(s)
      /\ tsync'[s] = q \/ tsync'[s] = NoSync
  BY AnsweredFacts
<1>2. ~strayed => Phases(q.plan) \subseteq Phases(plan)
  BY DEF TrelloInv, Tidy
<1>3. CASE tsync'[s] = q
  <2>1. Sighted(s, q)
    BY <1>1, <1>2, <1>3 DEF Sighted
  <2> QED
    BY <2>1, QuietCards
<1>4. CASE tsync'[s] = NoSync
  <2>1. Sighted(s, NoSync)
    BY <1>1, <1>4, NoSyncFacts DEF Sighted
  <2> QED
    BY <2>1, NoSyncFacts, QuietCards
<1> QED
  BY <1>1, <1>3, <1>4

LEMMA MakeSteps ==
    ASSUME TrelloInv, target = "trello", UNCHANGED <<plan, target>>,
           NEW s \in Syncer
    PROVE  /\ MakeList(s) => TrelloInv'
           /\ MakeLabel(s) => TrelloInv'
<1> DEFINE j == tsync[s]
<1>1. j \in TrelloRun /\ TrelloShape(lists, cards, j)
      /\ lists \in Seq(Group) /\ Len(lists) \in Nat /\ DOMAIN lists = 1 .. Len(lists)
  BY LenProperties DEF TrelloInv, TrelloTypes
<1>2. ASSUME MakeList(s) PROVE TrelloInv'
  <2>1. j.pc = "lists" /\ Len(lists) < MaxItems /\ UNCHANGED <<cards, labels, labelled, strayed>>
    BY <1>2 DEF MakeList, Is
  <2>2. PICK g \in Phases(j.plan) :
          /\ j.list[g] = NoItem /\ lists' = Append(lists, g)
          /\ Answered(s, [j EXCEPT !.list[g] = Len(lists) + 1])
    BY <1>2 DEF MakeList
  <2> DEFINE k == Len(lists) + 1
             lst == [j.list EXCEPT ![g] = k]
             q == [j EXCEPT !.list = lst]
  <2>3. Answered(s, q)
    BY <2>2
  <2>4. g \in Group /\ k \in Item
    BY <1>1, <2>1 DEF Phases, PlannedTasks, Plan, TrelloShape, Item
  <2>5. /\ lists' \in Seq(Group) /\ Len(lists') = k /\ lists'[k] = g
        /\ DOMAIN lists' = 1 .. k /\ \A l \in DOMAIN lists : lists'[l] = lists[l]
    BY <1>1, <2>2, <2>4, AppendProperties, LenProperties
  <2>6. lst \in [Group -> Id] /\ \A h \in Group : lst[h] = IF h = g THEN k ELSE j.list[h]
    BY <1>1, <2>4 DEF TrelloRun, Id
  <2> HIDE DEF j, lst
  <2>7. /\ q \in TrelloRun /\ q.pc = "lists" /\ q.plan = j.plan /\ q.list = lst
        /\ q.seen = j.seen
    BY <1>1, <2>1, <2>6 DEF TrelloRun
  <2> HIDE DEF q, k
  <2>8. Steady
    BY <1>1, <2>1, <2>4, <2>5 DEF Steady, TrelloInv, TrelloTypes, k
  <2>9. TrelloShape(lists', cards', q)
    <3>1. \A h \in Group : q.list[h] # NoItem => q.list[h] \in DOMAIN lists'
                                                 /\ lists'[q.list[h]] = h
      BY <1>1, <2>4, <2>5, <2>6, <2>7 DEF TrelloShape, k
    <3> QED
      BY <1>1, <2>1, <2>7, <3>1 DEF TrelloShape
  <2>10. ASSUME NEW t \in Task, Blind(cards', q, t) PROVE Blind(cards, j, t)
    <3>1. Phases(j.plan) \subseteq Group
      BY <1>1, <2>1 DEF Phases, PlannedTasks, Plan, TrelloShape
    <3>2. \A h \in Phases(j.plan) : j.list[h] # NoItem => q.list[h] = j.list[h]
      BY <2>2, <2>6, <2>7, <3>1
    <3>3. Sees(cards, j, t, Phases(j.plan)) => Sees(cards, q, t, Phases(q.plan))
      BY <2>7, <3>2 DEF Sees
    <3> QED
      BY <2>1, <2>7, <2>10, <3>3 DEF Blind
  <2> QED
    BY <2>1, <2>3, <2>7, <2>8, <2>9, <2>10, CallSteps DEF j
<1>3. ASSUME MakeLabel(s) PROVE TrelloInv'
  <2> DEFINE x == PlannedTasks(j.plan)
             y == labels + 1
             q == [j EXCEPT !.pc = "tasks", !.left = x, !.label = y]
  <2>1. j.pc = "labels" /\ Answered(s, q) /\ labels' = y
        /\ UNCHANGED <<lists, cards, labelled, strayed>>
    BY <1>3 DEF MakeLabel, Is
  <2>2. x \in SUBSET (Group \cup Task) /\ y \in Nat
    BY DEF PlannedTasks, TrelloInv, TrelloTypes
  <2> HIDE DEF j, x, y
  <2>3. /\ q \in TrelloRun /\ q.pc = "tasks" /\ q.left = x /\ q.plan = j.plan
        /\ q.list = j.list /\ q.seen = j.seen
    BY <1>1, <2>2 DEF TrelloRun
  <2> HIDE DEF q
  <2>4. TrelloShape(lists', cards', q)
    BY <1>1, <2>1, <2>3 DEF TrelloShape, x
  <2>5. \A t \in Task : Blind(cards', q, t) => Blind(cards, j, t)
    BY <2>1, <2>3 DEF Blind
  <2>6. Steady
    BY <2>1, <2>2 DEF Steady, TrelloInv, TrelloTypes
  <2> QED
    BY <2>1, <2>3, <2>4, <2>5, <2>6, CallSteps DEF j
<1> QED
  BY <1>2, <1>3

LEMMA PastFacts ==
    ASSUME TrelloInv, NEW s \in Syncer, NEW t \in Task
    PROVE  LET j == tsync[s]  q == Past(s, t) IN
           /\ q \in TrelloRun /\ q.pc = j.pc /\ q.plan = j.plan /\ q.left = j.left \ {t}
           /\ q.list = j.list /\ q.seen = j.seen
           /\ j.pc = "tasks" => TrelloShape(lists, cards, q)
           /\ j.pc = "tasks" => \A cs, u : Blind(cs, q, u) => Blind(cs, j, u) /\ u # t
<1> DEFINE j == tsync[s]
           q == [j EXCEPT !.left = @ \ {t}]
<1>1. j \in TrelloRun /\ TrelloShape(lists, cards, j) /\ Past(s, t) = q
  BY DEF TrelloInv, TrelloTypes, Past
<1> HIDE DEF j
<1>2. /\ q \in TrelloRun /\ q.pc = j.pc /\ q.plan = j.plan /\ q.left = j.left \ {t}
      /\ q.list = j.list /\ q.seen = j.seen
  BY <1>1 DEF TrelloRun
<1> HIDE DEF q
<1>3. j.pc = "tasks" => TrelloShape(lists, cards, q)
  BY <1>1, <1>2 DEF TrelloShape
<1>4. j.pc = "tasks" => \A cs, u : Blind(cs, q, u) => Blind(cs, j, u) /\ u # t
  BY <1>2 DEF Blind
<1> QED
  BY <1>1, <1>2, <1>3, <1>4 DEF j

Updated(cs, i, x, y) == [cs EXCEPT ![i].title = x, ![i].label = y]

LEMMA UpdatedCards ==
    ASSUME NEW cs \in Seq(TrelloCard), NEW i \in DOMAIN cs, NEW x \in Title, NEW y \in Nat,
           NEW es, es = Updated(cs, i, x, y)
    PROVE  /\ es \in Seq(TrelloCard) /\ DOMAIN es = DOMAIN cs /\ Len(es) = Len(cs)
           /\ \A k \in DOMAIN cs : es[k].task = cs[k].task /\ es[k].list = cs[k].list
<1> DEFINE c == [cs[i] EXCEPT !.title = x, !.label = y]
           ds == [cs EXCEPT ![i] = c]
<1>1. i \in 1 .. Len(cs) /\ DOMAIN cs = 1 .. Len(cs) /\ cs[i] \in TrelloCard
  BY LenProperties, ElementOfSeq
<1>2. c \in TrelloCard /\ c.task = cs[i].task /\ c.list = cs[i].list
  BY <1>1 DEF TrelloCard
<1>3. cs = [k \in 1 .. Len(cs) |-> cs[k]]
  BY LenProperties
<1>4. [cs EXCEPT ![i].title = x, ![i].label = y] = ds
  <2>1. [cs EXCEPT ![i].title = x] = [cs EXCEPT ![i] = [cs[i] EXCEPT !.title = x]]
    OBVIOUS
  <2> DEFINE d == [cs[i] EXCEPT !.title = x]
             fs == [cs EXCEPT ![i] = d]
  <2>2. [cs EXCEPT ![i].title = x, ![i].label = y] = [fs EXCEPT ![i].label = y]
    BY <2>1
  <2>3. fs[i] = d /\ DOMAIN fs = DOMAIN cs /\ \A k \in DOMAIN cs : k # i => fs[k] = cs[k]
    BY <1>1, <1>3
  <2>4. c = [d EXCEPT !.label = y]
    OBVIOUS
  <2> HIDE DEF d, c
  <2>5. [fs EXCEPT ![i].label = y] = [fs EXCEPT ![i] = c]
    BY <2>3, <2>4
  <2>6. [fs EXCEPT ![i] = c] = [cs EXCEPT ![i] = c]
    BY <1>1, <1>3
  <2> QED
    BY <2>2, <2>5, <2>6
<1> HIDE DEF c
<1>5. ds \in Seq(TrelloCard) /\ DOMAIN ds = DOMAIN cs /\ Len(ds) = Len(cs)
  BY <1>1, <1>2, <1>3, ExceptSeq, LenProperties
<1>6. \A k \in DOMAIN cs : ds[k] = IF k = i THEN c ELSE cs[k]
  BY <1>1, <1>3
<1>7. es = ds
  BY <1>4 DEF Updated
<1> HIDE DEF ds
<1> QED
  BY <1>2, <1>5, <1>6, <1>7

LEMMA CardSteps ==
    ASSUME TrelloInv, target = "trello", UNCHANGED <<plan, target>>,
           NEW s \in Syncer, NEW t \in Task
    PROVE  /\ UpdateCard(s, t) => TrelloInv'
           /\ LeaveCard(s, t) => TrelloInv'
<1> DEFINE j == tsync[s]
           q == Past(s, t)
<1>1. /\ j \in TrelloRun /\ TrelloShape(lists, cards, j)
      /\ q \in TrelloRun /\ q.pc = j.pc /\ q.plan = j.plan
      /\ j.pc = "tasks" => TrelloShape(lists, cards, q)
      /\ j.pc = "tasks" => \A cs, u : Blind(cs, q, u) => Blind(cs, j, u)
  BY PastFacts DEF TrelloInv, TrelloTypes
<1> HIDE DEF q
<1>2. ASSUME UpdateCard(s, t) PROVE TrelloInv'
  <2> DEFINE i == j.seen[t].id
             title == j.plan.title[t]
             x == IF j.seen[t].title # title THEN title ELSE cards[i].title
             y == IF t \in j.labelled THEN LabelOf(s, t) ELSE cards[i].label
  <2>1. j.pc = "tasks" /\ i # NoItem /\ Answered(s, q) /\ t \in j.left
        /\ UNCHANGED <<lists, labels, labelled, strayed>>
    BY <1>2 DEF UpdateCard, Is, q
  <2>2. cards' = [cards EXCEPT ![i].title = x, ![i].label = y]
    <3>1. cards' = [cards EXCEPT
              ![i].title = IF j.seen[t].title # title THEN title ELSE @,
              ![i].label = IF t \in j.labelled THEN LabelOf(s, t) ELSE @]
      BY <1>2 DEF UpdateCard
    <3>2. [cards EXCEPT ![i].title = x][i].label = cards[i].label
      <4>1. i \in 1 .. Len(cards) /\ cards[i] \in TrelloCard
            /\ cards = [k \in 1 .. Len(cards) |-> cards[k]]
        BY <1>1, <2>1, LenProperties, ElementOfSeq DEF TrelloShape, TrelloInv, TrelloTypes
      <4> HIDE DEF i, x
      <4> QED
        BY <4>1 DEF TrelloCard
    <3>3. cards' = [cards EXCEPT ![i].title = x,
                                 ![i].label = IF t \in j.labelled THEN LabelOf(s, t) ELSE @]
      BY <3>1
    <3> QED
      BY <3>2, <3>3
  <2>3. i \in DOMAIN cards /\ cards[i] \in TrelloCard /\ j.plan \in Plan
    BY <1>1, <2>1, LenProperties, ElementOfSeq DEF TrelloShape, TrelloInv, TrelloTypes
  <2>4. x \in Title /\ y \in Nat
    BY <1>1, <2>3 DEF Plan, TrelloCard, LabelOf, TrelloRun, NoItem
  <2>9. cards \in Seq(TrelloCard)
    BY DEF TrelloInv, TrelloTypes
  <2> HIDE DEF i, x, y
  <2>5. /\ cards' \in Seq(TrelloCard) /\ DOMAIN cards' = DOMAIN cards
        /\ Len(cards') = Len(cards)
        /\ \A k \in DOMAIN cards : cards'[k].task = cards[k].task
                                   /\ cards'[k].list = cards[k].list
    <3>1. cards' = Updated(cards, i, x, y)
      BY <2>2 DEF Updated
    <3> QED
      BY <2>3, <2>4, <2>9, <3>1, UpdatedCards
  <2>6. Steady
    BY <2>1, <2>5 DEF Steady, TrelloInv, TrelloTypes
  <2>7. TrelloShape(lists', cards', q)
    BY <1>1, <2>1, <2>6, ShapeStays DEF TrelloInv
  <2>8. \A u \in Task : Blind(cards', q, u) => Blind(cards, j, u)
    <3>1. \A u \in Task : Blind(cards', q, u) => Blind(cards', j, u)
      BY <1>1, <2>1
    <3> HIDE DEF j
    <3> QED
      BY <2>6, <3>1, BlindShrinks DEF Steady
  <2> QED
    BY <1>1, <2>1, <2>5, <2>6, <2>7, <2>8, CallSteps
<1>3. ASSUME LeaveCard(s, t) PROVE TrelloInv'
  <2>1. j.pc = "tasks" /\ Sets(s, q) /\ UNCHANGED <<Board, labelled, strayed>>
    BY <1>3 DEF LeaveCard, Is, q
  <2>2. ~strayed => Phases(q.plan) \subseteq Phases(plan)
    BY <1>1, <2>1 DEF TrelloInv, Tidy
  <2> QED
    BY <1>1, <2>1, <2>2, QuietSyncs
<1> QED
  BY <1>2, <1>3

\* The one step that makes a card: by a sync that was blind to the task.
LEMMA MakeCardSteps ==
    ASSUME TrelloInv, target = "trello", UNCHANGED <<plan, target>>,
           NEW s \in Syncer, NEW t \in Task, MakeCard(s, t)
    PROVE  TrelloInv'
<1> DEFINE j == tsync[s]
           q == Past(s, t)
           g == j.plan.at[t]
           k == Len(cards) + 1
           e == [task |-> t, list |-> j.list[g], title |-> j.plan.title[t],
                 label |-> LabelOf(s, t)]
<1>1. /\ j \in TrelloRun /\ TrelloShape(lists, cards, j)
      /\ q \in TrelloRun /\ q.pc = j.pc /\ q.plan = j.plan /\ TrelloShape(lists, cards, q)
      /\ \A cs, u : Blind(cs, q, u) => Blind(cs, j, u) /\ u # t
      /\ j.pc = "tasks" /\ t \in j.left /\ j.seen[t].id = NoItem
      /\ Len(cards) < MaxItems /\ cards' = Append(cards, e) /\ Answered(s, q)
      /\ UNCHANGED <<lists, labels, labelled, strayed>>
  BY PastFacts DEF TrelloInv, TrelloTypes, MakeCard, Is
<1>2. t \in PlannedTasks(j.plan) /\ j.plan \in Plan
  BY <1>1 DEF TrelloShape
<1>3. g \in Phases(j.plan) /\ g \in Group
  BY <1>2 DEF Phases, PlannedTasks, Plan
<1>4. /\ j.list[g] \in Id /\ j.list[g] # NoItem
      /\ j.list[g] \in DOMAIN lists /\ lists[j.list[g]] = g
  BY <1>1, <1>3 DEF TrelloShape, TrelloRun
<1>5. e \in TrelloCard /\ e.task = t /\ e.list = j.list[g]
  <2>1. LabelOf(s, t) \in Nat /\ j.plan.title[t] \in Title
    BY <1>1, <1>2 DEF LabelOf, TrelloRun, NoItem, Plan
  <2> QED
    BY <1>4, <2>1 DEF TrelloCard
<1> HIDE DEF q, e
<1>6. /\ cards' \in Seq(TrelloCard) /\ Len(cards') = k /\ cards'[k] = e /\ k \in Nat
      /\ DOMAIN cards' = DOMAIN cards \cup {k} /\ k \notin DOMAIN cards
      /\ \A i \in DOMAIN cards : cards'[i] = cards[i]
  <2>1. cards \in Seq(TrelloCard) /\ Len(cards) \in Nat /\ DOMAIN cards = 1 .. Len(cards)
    BY LenProperties DEF TrelloInv, TrelloTypes
  <2>2. /\ cards' \in Seq(TrelloCard) /\ Len(cards') = k /\ cards'[k] = e
        /\ \A i \in 1 .. Len(cards) : cards'[i] = cards[i]
    BY <1>1, <1>5, <2>1, AppendProperties
  <2>3. DOMAIN cards' = 1 .. k
    BY <2>2, LenProperties
  <2> QED
    BY <2>1, <2>2, <2>3
<1> HIDE DEF k
<1>7. Steady
  BY <1>1, <1>6 DEF Steady, TrelloInv, TrelloTypes, k
<1>8. /\ tsync' \in [Syncer -> TrelloRun] /\ TrelloOthers(s)
      /\ tsync'[s] = q \/ tsync'[s] = NoSync
  BY <1>1, AnsweredFacts
<1>9. TrelloTypes'
  <2>1. TrelloShape(lists', cards', q)
    BY <1>1, <1>7, ShapeStays DEF TrelloInv
  <2>2. ~strayed => Phases(q.plan) \subseteq Phases(plan)
    BY <1>1 DEF TrelloInv, Tidy
  <2>3. Sighted(s, q) \/ Sighted(s, NoSync)
    BY <1>1, <1>8, <2>1, <2>2, NoSyncFacts DEF Sighted
  <2> QED
    BY <1>7, <2>3, TypesStay DEF TrelloInv
<1>10. Tidy'
  <2>1. ASSUME ~strayed, NEW i \in DOMAIN cards'
        PROVE  cards'[i].list \in DOMAIN lists /\ lists[cards'[i].list] \in Phases(plan)
    <3>1. CASE i = k
      <4>1. Phases(j.plan) \subseteq Phases(plan)
        BY <1>1, <2>1 DEF TrelloInv, Tidy
      <4> QED
        BY <1>3, <1>4, <1>5, <1>6, <3>1, <4>1
    <3>2. CASE i # k
      BY <1>6, <2>1, <3>2 DEF TrelloInv, Tidy
    <3> QED
      BY <3>1, <3>2
  <2>2. ASSUME ~strayed, NEW r \in Syncer, tsync'[r].pc # "idle"
        PROVE  Phases(tsync'[r].plan) \subseteq Phases(plan)
    <3>1. tsync'[r].plan = tsync[r].plan /\ tsync[r].pc # "idle"
      BY <1>1, <1>8, <2>2, NoSyncFacts DEF TrelloOthers
    <3> QED
      BY <2>2, <3>1 DEF TrelloInv, Tidy
  <2> QED
    BY <1>1, <2>1, <2>2 DEF Tidy
<1>11. ASSUME ~strayed, NEW u \in Task
       PROVE  Cardinality(CardsOf(u)') + Cardinality(BlindOnes(u)') <= Cardinality(Syncer)
  <2> DEFINE A == CardsOf(u)
             B == BlindOnes(u)
             C == BlindOnes(u)'
  <2>1. Cardinality(A) + Cardinality(B) <= Cardinality(Syncer) /\ B \in SUBSET Syncer
        /\ Cardinality(A) \in Nat /\ Cardinality(B) \in Nat /\ IsFiniteSet(B)
        /\ Cardinality(Syncer) \in Nat /\ IsFiniteSet(A)
    BY <1>11, CardCounts DEF CardInv, TrelloInv
  <2>2. ASSUME NEW r \in C PROVE r \in B /\ (u = t => r # s)
    <3>1. r \in Syncer /\ Blind(cards', tsync'[r], u)
      BY DEF BlindOnes
    <3>2. Blind(cards', tsync[r], u) /\ (u = t => r # s)
      <4>1. CASE r = s
        BY <1>1, <1>8, <3>1, <4>1, NoSyncFacts
      <4>2. CASE r # s
        BY <1>8, <3>1, <4>2 DEF TrelloOthers
      <4> QED
        BY <4>1, <4>2
    <3>3. Blind(cards, tsync[r], u)
      BY <1>7, <3>2, BlindShrinks DEF Steady
    <3> QED
      BY <3>1, <3>2, <3>3 DEF BlindOnes
  <2>3. CASE u = t
    <3>1. s \in B
      BY <1>1, <2>3 DEF BlindOnes, Blind
    <3>2. CardsOf(u)' = A \cup {k} /\ k \notin A
      BY <1>5, <1>6, <2>3 DEF CardsOf
    <3> HIDE DEF A, B, C
    <3>3. C \subseteq B \ {s}
      BY <2>2, <2>3
    <3>4. Cardinality(A \cup {k}) = Cardinality(A) + 1
      BY <2>1, <3>2, FS_AddElement
    <3>5. IsFiniteSet(B \ {s}) /\ Cardinality(B \ {s}) = Cardinality(B) - 1
      BY <2>1, <3>1, FS_RemoveElement
    <3>6. Cardinality(C) <= Cardinality(B) - 1 /\ Cardinality(C) \in Nat
      BY <3>3, <3>5, FS_Subset, FS_CardinalityType
    <3>7. Cardinality(A \cup {k}) + Cardinality(C) <= Cardinality(Syncer)
      BY <2>1, <3>4, <3>6
    <3> QED
      BY <3>2, <3>7 DEF C
  <2>4. CASE u # t
    <3>1. CardsOf(u)' = A
      BY <1>5, <1>6, <2>4 DEF CardsOf
    <3> HIDE DEF A, B, C
    <3>2. C \subseteq B
      BY <2>2
    <3>3. Cardinality(C) <= Cardinality(B) /\ Cardinality(C) \in Nat
      BY <2>1, <3>2, FS_Subset, FS_CardinalityType
    <3>4. Cardinality(A) + Cardinality(C) <= Cardinality(Syncer)
      BY <2>1, <3>3
    <3> QED
      BY <3>1, <3>4 DEF C
  <2> QED
    BY <2>3, <2>4
<1>12. CardInv'
  BY <1>1, <1>11 DEF CardInv
<1> QED
  BY <1>9, <1>10, <1>12 DEF TrelloInv

\* Whatever happens: a step of a sync, a card that is moved, an edit, a step of ClickUp.
LEMMA TrelloSteps ==
    ASSUME TrelloInv, plan \in Plan, plan' \in Plan, BoardsNext
    PROVE  TrelloInv'
<1>1. ASSUME NEW s \in Syncer, TrelloStep(s), target = "trello", UNCHANGED <<plan, target>>
      PROVE  TrelloInv'
  <2>1. CASE EndSync(s) \/ Abort(s)
    BY <1>1, <2>1, EndSteps DEF EndSync, Abort
  <2> QED
    BY <1>1, <2>1, StartSteps, ReadSteps, MakeSteps, CardSteps, MakeCardSteps DEF TrelloStep
<1>2. ASSUME MoveCard, target = "trello", UNCHANGED <<plan, target>> PROVE TrelloInv'
  <2>1. PICK i \in DOMAIN cards, l \in DOMAIN lists \cup {NoItem} :
          cards' = [cards EXCEPT ![i].list = l]
    BY <1>2 DEF MoveCard
  <2>2. strayed' = TRUE /\ UNCHANGED <<lists, labels, labelled, tsync>>
    BY <1>2 DEF MoveCard
  <2> DEFINE c == [cards[i] EXCEPT !.list = l]
  <2>3. i \in 1 .. Len(cards) /\ DOMAIN cards = 1 .. Len(cards) /\ cards[i] \in TrelloCard
        /\ cards \in Seq(TrelloCard)
    BY LenProperties, ElementOfSeq DEF TrelloInv, TrelloTypes
  <2>4. l \in Id
    <3>1. DOMAIN lists = 1 .. Len(lists) /\ Len(lists) \in Nat /\ Len(lists) <= MaxItems
      BY LenProperties DEF TrelloInv, TrelloTypes
    <3> QED
      BY <3>1 DEF Id, Item
  <2>5. c \in TrelloCard
    BY <2>3, <2>4 DEF TrelloCard
  <2>6. cards' = [cards EXCEPT ![i] = c]
    BY <2>1
  <2> HIDE DEF c
  <2>7. cards' \in Seq(TrelloCard) /\ Len(cards') = Len(cards)
    BY <2>3, <2>5, <2>6, ExceptSeq
  <2>8. DOMAIN cards' = DOMAIN cards
    BY <2>6
  <2>9. \A s \in Syncer : TrelloShape(lists', cards', tsync'[s])
    BY <2>2, <2>8 DEF TrelloInv, TrelloTypes, TrelloShape
  <2>10. TrelloTypes'
    BY <1>2, <2>2, <2>7, <2>9 DEF TrelloInv, TrelloTypes
  <2> QED
    BY <2>2, <2>10 DEF TrelloInv, Tidy, CardInv
<1>3. ASSUME Relabel, target = "trello", UNCHANGED <<plan, target>> PROVE TrelloInv'
  <2>1. labelled' \subseteq Task /\ UNCHANGED <<Board, tsync, strayed>>
    BY <1>3 DEF Relabel, TrelloInv, TrelloTypes
  <2> QED
    BY <1>3, <2>1 DEF TrelloInv, TrelloTypes, Tidy, CardInv, CardsOf, BlindOnes
<1>4. ASSUME EditTasks, target = "trello", UNCHANGED target PROVE TrelloInv'
  <2>1. /\ strayed' = (strayed \/ Phases(plan) \ Phases(plan') # {})
        /\ UNCHANGED <<Board, labelled, tsync>>
    BY <1>4 DEF EditTasks
  <2>2. TrelloTypes'
    BY <1>4, <2>1 DEF TrelloInv, TrelloTypes
  <2>3. ~strayed' => ~strayed /\ Phases(plan) \subseteq Phases(plan')
    BY <2>1
  <2> DEFINE P == Phases(plan)
             Q == Phases(plan')
  <2> HIDE DEF P, Q
  <2>4. ~strayed' => /\ \A i \in DOMAIN cards :
                           cards[i].list \in DOMAIN lists /\ lists[cards[i].list] \in Q
                     /\ \A s \in Syncer : tsync[s].pc # "idle" => Phases(tsync[s].plan) \subseteq Q
    BY <2>3 DEF TrelloInv, Tidy, P, Q
  <2>5. Q = Phases(plan)'
    BY DEF Q, Phases, PlannedTasks
  <2>6. Tidy'
    <3>1. \A s \in Syncer : Phases(tsync[s].plan)' = Phases(tsync[s].plan)
      BY <2>1 DEF Phases, PlannedTasks
    <3> QED
      BY <2>1, <2>4, <2>5, <3>1 DEF Tidy
  <2>7. CardInv'
    BY <2>1, <2>3 DEF TrelloInv, CardInv, CardsOf, BlindOnes
  <2> QED
    BY <2>2, <2>6, <2>7 DEF TrelloInv
<1>5. ASSUME target = "clickup", UNCHANGED trelloVars, UNCHANGED target PROVE TrelloInv'
  <2>1. UNCHANGED <<lists, cards, labels, labelled, tsync, strayed, target>>
    BY <1>5 DEF trelloVars
  <2>2. TrelloTypes' /\ CardInv'
    BY <2>1 DEF TrelloInv, TrelloTypes, CardInv, CardsOf, BlindOnes
  <2>3. Tidy'
    BY <1>5, <2>1, NoSyncFacts DEF TrelloInv, TrelloTypes, Tidy
  <2> QED
    BY <2>2, <2>3 DEF TrelloInv
<1> QED
  BY <1>1, <1>2, <1>3, <1>4, <1>5 DEF BoardsNext, TrelloNext
-------------------------------------------------------------------------------
(***************************************************************************)
(* The theorems.                                                           *)
(***************************************************************************)
BoardsInv ==
    /\ SyncTypes /\ HonestInv /\ TwinInv
    /\ AloneInv /\ DoneInv /\ PlanInv /\ SettledInv
    /\ TrelloInv

LEMMA BoardsStart ==
    ASSUME BoardsInit
    PROVE  BoardsInv
<1> USE DEF BoardsInit, SyncInit, TrelloInit
<1>1. /\ plan \in Plan /\ plan.groups = Group /\ plan.at \in [Task -> Group]
      /\ board = <<>> /\ saved = None /\ job = [s \in Syncer |-> Idle]
      /\ starts = {} /\ settled = FALSE
  BY DEF Plan
<1>2. SyncTypes
  <2>1. board \in Seq(CardSet) /\ Len(board) <= MaxItems
    BY <1>1, EmptySeq
  <2> QED
    <3>1. job \in [Syncer -> Run] /\ \A s \in Syncer : Shape(job[s])
      BY <1>1, IdleIsRun
    <3> QED
      BY <1>1, <2>1, <3>1 DEF SyncTypes
<1>3. HonestInv
  BY <1>1, IdleIsRun, HonestFacts DEF HonestInv
<1>4. TwinInv
  <2>1. ASSUME NEW n \in Node, NEW c \in Id
        PROVE  Cardinality(Twins(n, c)) + Cardinality(Creators(n, c)) <= Cardinality(Syncer)
    <3>1. Twins(n, c) = {}
      BY <1>1 DEF Twins
    <3>2. Cardinality(Twins(n, c)) = 0
      BY <3>1, FS_EmptySet
    <3> QED
      BY <1>2, <3>2, CountFacts
  <2> QED
    BY <2>1 DEF TwinInv
<1>5. AloneInv /\ DoneInv /\ PlanInv /\ SettledInv
  BY <1>1, IdleIsRun DEF AloneInv, DoneInv, PlanInv, SettledInv, Walk, At
<1>6. TrelloTypes /\ Tidy
  <2>1. lists \in Seq(Group) /\ Len(lists) <= MaxItems
        /\ cards \in Seq(TrelloCard) /\ Len(cards) <= MaxItems
    BY EmptySeq
  <2>2. DOMAIN cards = {}
    OBVIOUS
  <2> QED
    BY <2>1, <2>2, NoSyncFacts DEF TrelloTypes, Tidy
<1>7. CardInv
  <2>1. ASSUME NEW t \in Task
        PROVE  Cardinality(CardsOf(t)) + Cardinality(BlindOnes(t)) <= Cardinality(Syncer)
    <3>1. CardsOf(t) = {}
      BY DEF CardsOf
    <3>2. Cardinality(CardsOf(t)) = 0
      BY <3>1, FS_EmptySet
    <3> QED
      BY <1>6, <3>2, CardCounts
  <2> QED
    BY <2>1 DEF CardInv
<1> QED
  BY <1>2, <1>3, <1>4, <1>5, <1>6, <1>7 DEF BoardsInv, TrelloInv

LEMMA BoardsKeep ==
    ASSUME BoardsInv, BoardsNext
    PROVE  BoardsInv'
<1>1. Next \/ EditPlan \/ Elsewhere
  BY DEF BoardsNext, TrelloNext, EditTasks, Elsewhere
<1>2. \A s \in Syncer, n \in Node : Known(s, n) # NoItem => Bears(Known(s, n), n)
  BY DEF BoardsInv, HonestInv, Honest, On, Bears, Known, Ids
<1>3. SyncTypes' /\ Moved
  BY <1>1, <1>2, SyncSteps DEF BoardsInv
<1>4. HonestInv' /\ TwinInv' /\ AloneInv' /\ DoneInv' /\ PlanInv' /\ SettledInv'
  BY <1>3, HonestStep, TwinStep, AloneStep, DoneStep, PlanStep, SettledStep DEF BoardsInv
<1>5. TrelloInv'
  BY <1>3, TrelloSteps DEF BoardsInv, SyncTypes
<1> QED
  BY <1>3, <1>4, <1>5 DEF BoardsInv

LEMMA BoardsStutter ==
    ASSUME BoardsInv, UNCHANGED allVars
    PROVE  BoardsInv'
<1>1. Elsewhere /\ UNCHANGED target /\ UNCHANGED trelloVars
  BY DEF allVars, vars, Elsewhere
<1>2. \A s \in Syncer, n \in Node : Known(s, n) # NoItem => Bears(Known(s, n), n)
  BY DEF BoardsInv, HonestInv, Honest, On, Bears, Known, Ids
<1>3. SyncTypes' /\ Moved
  BY <1>1, <1>2, SyncSteps DEF BoardsInv
<1>4. HonestInv' /\ TwinInv' /\ AloneInv' /\ DoneInv' /\ PlanInv' /\ SettledInv'
  BY <1>3, HonestStep, TwinStep, AloneStep, DoneStep, PlanStep, SettledStep DEF BoardsInv
<1>5. TrelloInv'
  BY <1>1 DEF BoardsInv, TrelloInv, TrelloTypes, Tidy, CardInv, CardsOf, BlindOnes, trelloVars,
     Elsewhere
<1> QED
  BY <1>3, <1>4, <1>5 DEF BoardsInv

\* The inductive invariant of the two projections: the types, the honesty of every
\* manifest, the counts of cards and of those about to make one, and what a sync
\* that runs alone has seen to (SyncEngine and sync_tasks_to_trello).
THEOREM BoardsInvariant == BoardsSpec => []BoardsInv
<1>1. BoardsInit => BoardsInv
  BY BoardsStart
<1>2. BoardsInv /\ [BoardsNext]_allVars => BoardsInv'
  BY BoardsKeep, BoardsStutter
<1> QED
  BY <1>1, <1>2, PTL DEF BoardsSpec

\* However many calls fail and whatever is lost, one name in one place gets at most one
\* ClickUp card per concurrent sync.
LEMMA OneCardPerSync == BoardsSpec => []TwinsAreBounded
<1>1. BoardsInv => TwinsAreBounded
  <2> SUFFICES ASSUME BoardsInv, NEW n \in Node, NEW c \in Item \cup {NoItem}
               PROVE  Cardinality(Twins(n, c)) <= Cardinality(Syncer)
    BY DEF TwinsAreBounded
  <2>1. Cardinality(Twins(n, c)) + Cardinality(Creators(n, c)) <= Cardinality(Syncer)
    BY DEF BoardsInv, TwinInv, Id
  <2> QED
    BY <2>1, CountFacts DEF BoardsInv
<1> QED
  BY <1>1, BoardsInvariant, PTL

\* StartsNamedTask: a card that changes status starts the task whose key it bears.
THEOREM TheCardNamesTheTask == BoardsSpec => []StartsNamedTask
<1>1. BoardsInv => StartsNamedTask
  BY DEF BoardsInv, HonestInv, On, StartsNamedTask
<1> QED
  BY <1>1, BoardsInvariant, PTL

\* SettledIsFaithful: a sync that reports success on the current plan, with no other
\* at work, leaves a manifest whose cards are those of the plan.
THEOREM SuccessIsFaithful == BoardsSpec => []SettledIsFaithful
<1>1. BoardsInv => SettledIsFaithful
  <2> SUFFICES ASSUME BoardsInv, settled, NEW n \in Planned(plan)
               PROVE  LET i == IF saved = None THEN NoItem ELSE saved.ids[n] IN
                      /\ i \in DOMAIN board /\ board[i].key = n
                      /\ n \in Task /\ board[i].in = saved.ids[plan.at[n]]
                            => board[i].title = plan.title[n]
    BY DEF SettledIsFaithful
  <2>1. saved # None /\ Titled(board, saved, plan, n)
    BY DEF BoardsInv, SettledInv
  <2> QED
    BY <2>1 DEF Titled, On
<1> QED
  BY <1>1, BoardsInvariant, PTL

\* CardsAreBounded: in ClickUp one name in one place, in Trello a task gets at most one
\* card per concurrent sync, there as long as nobody moves a card and no phase loses its
\* last task.
THEOREM CardsNotDoubled == BoardsSpec => []CardsAreBounded
<1>1. BoardsInv /\ TwinsAreBounded => CardsAreBounded
  <2> SUFFICES ASSUME BoardsInv, TwinsAreBounded, ~strayed, NEW t \in Task
               PROVE  Cardinality(CardsOf(t)) <= Cardinality(Syncer)
    BY DEF CardsAreBounded
  <2>1. Cardinality(CardsOf(t)) + Cardinality(BlindOnes(t)) <= Cardinality(Syncer)
    BY DEF BoardsInv, TrelloInv, CardInv
  <2>2. BlindOnes(t) \in SUBSET Syncer /\ TrelloTypes
    BY DEF BlindOnes, BoardsInv, TrelloInv
  <2> QED
    BY <2>1, <2>2, CardCounts
<1> QED
  BY <1>1, BoardsInvariant, OneCardPerSync, PTL
=============================================================================
