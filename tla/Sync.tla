-------------------------------- MODULE Sync --------------------------------
(***************************************************************************)
(* The projection of a feature's tasks.md into ClickUp: the SyncEngine     *)
(* that creates or adopts a folder, a list, one parent task per group and  *)
(* one subtask per task, the manifest that remembers their ids, and the    *)
(* trigger that reads a card's id back into a repo task and starts it.     *)
(* ClickUp forgets nothing it acknowledged; a call may fail before or      *)
(* after it took effect, and a sync may die between any two calls.         *)
(* One feature with its own list; nobody deletes a card; the three routing *)
(* fields of a card, rewritten at every visit, are left out, and so is the *)
(* temporary name that two saves of the manifest share.                    *)
(***************************************************************************)
EXTENDS Naturals, FiniteSets, Sequences

CONSTANTS Group, Task, Title, Syncer, None,
          MaxItems,     \* cards the model's ClickUp has room for
          MaxMishaps,   \* calls that fail, syncs that die, manifests lost
          MaxEdits      \* changes of tasks.md

Root == {"folder", "list"}
Node == Root \cup Group \cup Task
Item == 1 .. MaxItems
NoItem == 0            \* no id yet, and the container of a folder (the space)

ASSUME Distinct ==
    /\ Root \cap Group = {} /\ Root \cap Task = {} /\ Group \cap Task = {}
    /\ None \notin Group /\ IsFiniteSet(Syncer)
    /\ MaxItems \in Nat /\ MaxMishaps \in Nat /\ MaxEdits \in Nat

VARIABLES
    plan,      \* tasks.md: its groups, each task's group and title
    board,     \* the cards of ClickUp, in the order of their creation
    saved,     \* the manifest file, or None
    job,       \* the sync each syncer runs
    starts,    \* the task starts that triggers caused
    settled,   \* the last sync succeeded on this plan, and nothing happened since
    mishaps, edits

vars == <<plan, board, saved, job, starts, settled, mishaps, edits>>

Planned(p) == Root \cup p.groups \cup {t \in Task : p.at[t] # None}

Meta == [id : Item \cup {NoItem}, parent : Item \cup {NoItem},
         group : Group \cup {None}, title : Title \cup {None}]
NoMeta == [id |-> NoItem, parent |-> NoItem, group |-> None, title |-> None]
Blank == [ids |-> [n \in Node |-> NoItem], meta |-> [t \in Task |-> NoMeta], list |-> NoItem]

\* alone: no other sync has run since this one began.
Idle == [pc |-> "idle", plan |-> None, man |-> Blank, left |-> {}, at |-> None, alone |-> TRUE]

At(s, pc) == job[s].pc = pc
Ids(s) == job[s].man.ids

\* The card that holds node n: the parent argument of the call that creates it.
Container(p, ids, n) ==
    IF n = "folder" THEN NoItem
    ELSE IF n = "list" THEN ids["folder"]
    ELSE IF n \in Group THEN ids["list"]
    ELSE ids[p.at[n]]

\* Mutant: a subtask is looked for under its title, not under its key.
Named_Titled(n, c) ==
    {i \in DOMAIN board : /\ board[i].in = c
                          /\ IF n \in Task THEN board[i].title = plan.title[n]
                                           ELSE board[i].key = n}

\* What a listing of container c shows under node n's name or key: every card that is
\* there.  composio_adapter.py asks for one page, without closed cards; a board
\* within a page, with nothing closed, is assumed.
Named(n, c) == {i \in DOMAIN board : board[i].key = n /\ board[i].in = c}

-------------------------------------------------------------------------------
SyncInit ==
    /\ plan \in [groups : {Group}, at : [Task -> Group], title : [Task -> Title]]
    /\ board = <<>> /\ saved = None
    /\ job = [s \in Syncer |-> Idle]
    /\ starts = {} /\ settled = FALSE
    /\ mishaps = 0 /\ edits = 0

OnlyJob == UNCHANGED <<plan, board, saved, starts, settled, mishaps, edits>>
Put(s, j) == job' = [job EXCEPT ![s] = j]
End(s) == Put(s, Idle)

\* load_manifest; without a manifest the board is searched for old cards.
BootstrapCall(s) ==
    /\ At(s, "idle")
    /\ job' = [r \in Syncer |->
                 IF r # s THEN [job[r] EXCEPT !.alone = At(r, "idle")]
                 ELSE [Idle EXCEPT !.plan = plan,
                                   !.pc = IF saved = None THEN "discover" ELSE "prune",
                                   !.man = IF saved = None THEN Blank ELSE saved,
                                   !.alone = \A q \in Syncer \ {s} : At(q, "idle")]]
    /\ OnlyJob

\* A name found once is recognised; found more than once it is ambiguous.
Sole(S) == IF Cardinality(S) = 1 THEN CHOOSE i \in S : TRUE ELSE NoItem
OneOf(S) == IF S = {} THEN {NoItem} ELSE S

(***************************************************************************)
(* _discover_existing_state and reconcile_manifest: folders and lists are  *)
(* a dictionary by name (any one of several), parents and subtasks must be *)
(* unique.  The listings of one search are taken as one step.              *)
(***************************************************************************)
Discovered(p, f, l) ==
    LET group == [g \in Group |-> IF l = NoItem \/ g \notin p.groups THEN {} ELSE Named(g, l)]
        task  == [t \in Task |-> IF p.at[t] = None \/ Cardinality(group[p.at[t]]) # 1 THEN {}
                                 ELSE Named(t, Sole(group[p.at[t]]))]
    IN [unique |-> /\ \A g \in Group : Cardinality(group[g]) <= 1
                   /\ \A t \in Task : Cardinality(task[t]) <= 1,
        ids |-> [n \in Node |-> CASE n = "folder" -> f [] n = "list" -> l
                                  [] n \in Group -> Sole(group[n])
                                  [] n \in Task -> Sole(task[n])]]

Discover(s) ==
    /\ At(s, "discover")
    /\ \E f \in OneOf(Named("folder", NoItem)) :
       \E l \in IF f = NoItem THEN {NoItem} ELSE OneOf(Named("list", f)) :
          LET found == Discovered(job[s].plan, f, l)
          IN IF found.unique
             THEN Put(s, [job[s] EXCEPT !.pc = "prune", !.man.ids = found.ids])
             ELSE End(s)
    /\ OnlyJob

(***************************************************************************)
(* _prune_stale_manifest_mappings: ids of groups and tasks that tasks.md   *)
(* no longer has are dropped, and the manifest saved if there were any.    *)
(***************************************************************************)
Pruned(p, m) ==
    [m EXCEPT !.ids = [n \in Node |-> IF n \in Planned(p) THEN m.ids[n] ELSE NoItem],
              !.meta = [t \in Task |-> IF t \in Planned(p) THEN m.meta[t] ELSE NoMeta]]

Prune(s) ==
    /\ At(s, "prune")
    /\ LET p == job[s].plan
           m == Pruned(p, job[s].man)
       IN /\ Put(s, [job[s] EXCEPT !.pc = "next", !.man = m, !.left = Planned(p)])
          /\ saved' = IF m = job[s].man THEN saved ELSE m
    /\ UNCHANGED <<plan, board, starts, settled, mishaps, edits>>
-------------------------------------------------------------------------------
\* The order of the walk: folder, list, then one group after the other with
\* its tasks; which group comes first is the order of tasks.md.
Due(s, n) ==
    LET p == job[s].plan  left == job[s].left
    IN /\ n \in left
       /\ n # "folder" => "folder" \notin left
       /\ n \notin Root => "list" \notin left
       /\ n \in Group => \A t \in left \cap Task : p.at[t] \in left
       /\ n \in Task => p.at[n] \notin left

\* What the manifest says of n once its id is i.
Recorded(m, p, n, i) ==
    LET ids == [m.ids EXCEPT ![n] = i]
    IN [ids  |-> ids,
        meta |-> IF n \notin Task THEN m.meta
                 ELSE [m.meta EXCEPT ![n] = [id |-> i, parent |-> ids[p.at[n]],
                                             group |-> p.at[n], title |-> p.title[n]]],
        list |-> IF n = "list" THEN i ELSE m.list]

\* A listing of the parent shows the card under another title.
Outdated(p, n, i, c) == n \in Task /\ board[i].in = c /\ board[i].title # p.title[n]

(***************************************************************************)
(* The manifest entry of n is known to be card i: rename the card if its   *)
(* title changed, save if the projection did, and go on.                   *)
(***************************************************************************)
Keep(s, n, i) ==
    LET p == job[s].plan  m == Recorded(job[s].man, p, n, i)
        dirty == m.meta # job[s].man.meta \/ m.list # job[s].man.list
    IN IF Outdated(p, n, i, Container(p, Ids(s), n))
       THEN Put(s, [job[s] EXCEPT !.man = m, !.pc = "rename", !.at = n])
       ELSE IF dirty THEN Put(s, [job[s] EXCEPT !.man = m, !.pc = "save", !.at = n])
       ELSE Put(s, [job[s] EXCEPT !.man = m, !.left = @ \ {n}])

Known(s, n) == Ids(s)[n]

\* _ensure_parent_task, _ensure_subtask, and their like for folder and list.
Visit(s, n) ==
    /\ At(s, "next") /\ Due(s, n)
    /\ LET seen == Named(n, Container(job[s].plan, Ids(s), n))
       IN IF Known(s, n) # NoItem THEN Keep(s, n, Known(s, n))
          ELSE IF seen = {} THEN Put(s, [job[s] EXCEPT !.pc = "create", !.at = n])
          ELSE IF n \notin Root /\ Cardinality(seen) > 1 THEN End(s)
          ELSE \E i \in seen : Keep(s, n, i)
    /\ OnlyJob

Card(p, ids, n) == [key |-> n, in |-> Container(p, ids, n),
                    title |-> IF n \in Task THEN p.title[n] ELSE None]

\* The card is made; its answer arrives, or is lost and the sync is over.
Create(s) ==
    /\ At(s, "create") /\ Len(board) < MaxItems
    /\ LET n == job[s].at  p == job[s].plan
       IN /\ board' = Append(board, Card(p, Ids(s), n))
          /\ \/ /\ Put(s, [job[s] EXCEPT !.pc = "save",
                                         !.man = Recorded(@, p, n, Len(board) + 1)])
                /\ UNCHANGED mishaps
             \/ /\ mishaps < MaxMishaps /\ mishaps' = mishaps + 1
                /\ End(s)
    /\ settled' = FALSE
    /\ UNCHANGED <<plan, saved, starts, edits>>

Rename(s) ==
    /\ At(s, "rename")
    /\ LET n == job[s].at
       IN board' = [board EXCEPT ![Ids(s)[n]].title = job[s].plan.title[n]]
    /\ \/ Put(s, [job[s] EXCEPT !.pc = "save"]) /\ UNCHANGED mishaps
       \/ mishaps < MaxMishaps /\ mishaps' = mishaps + 1 /\ End(s)
    /\ settled' = FALSE
    /\ UNCHANGED <<plan, saved, starts, edits>>

\* save_manifest: a temporary file moved into place.
Save(s) ==
    /\ At(s, "save")
    /\ saved' = job[s].man
    /\ Put(s, [job[s] EXCEPT !.pc = "next", !.left = @ \ {job[s].at}, !.at = None])
    /\ settled' = FALSE
    /\ UNCHANGED <<plan, board, starts, mishaps, edits>>

\* Mutant: what was only recognised is not saved.
Finish_Unsaved(s) ==
    /\ At(s, "next") /\ job[s].left = {}
    /\ settled' = (plan = job[s].plan /\ job[s].alone)
    /\ End(s)
    /\ UNCHANGED <<plan, board, saved, starts, mishaps, edits>>

Finish(s) ==
    /\ At(s, "next") /\ job[s].left = {}
    /\ saved' = job[s].man
    /\ settled' = (plan = job[s].plan /\ job[s].alone)
    /\ End(s)
    /\ UNCHANGED <<plan, board, starts, mishaps, edits>>

\* A call is refused or times out before it took effect, or the sync is killed.
Fail(s) ==
    /\ ~At(s, "idle") /\ mishaps < MaxMishaps
    /\ End(s)
    /\ mishaps' = mishaps + 1
    /\ UNCHANGED <<plan, board, saved, starts, settled, edits>>
-------------------------------------------------------------------------------
\* Mutant: a card is resolved through its title.
Resolved_ByTitle(i) ==
    {t \in Task : saved.meta[t].title = board[i].title /\ saved.meta[t].title # None}

\* resolve_task_projection_mapping.
Resolved(i) == {t \in Task : saved.meta[t].id = i}

(***************************************************************************)
(* speckit_clickup_trigger.main with --execute: a card's id is resolved    *)
(* through the manifest to exactly one task, and the task is started if    *)
(* the repo's gate (Implement!TriggerCall) lets it.  A request that names  *)
(* its task is asked whether its status means "start", and is not          *)
(* modelled; one resolved through the manifest, as here, is not asked.     *)
(***************************************************************************)
Trigger(i, status) ==
    /\ saved # None /\ i \in DOMAIN board
    /\ \E t \in Task :
          /\ Resolved(i) = {t}
          /\ \A x \in starts : x.task # t
          /\ starts' = starts \cup {[task |-> t, card |-> i, status |-> status]}
    /\ UNCHANGED <<plan, board, saved, job, settled, mishaps, edits>>

\* tasks.md is edited: a task moves to another group or is taken out, gets
\* another title, or a group gets another heading.
EditPlan ==
    /\ edits < MaxEdits /\ edits' = edits + 1
    /\ \/ \E t \in Task, g \in plan.groups \cup {None} : plan' = [plan EXCEPT !.at[t] = g]
       \/ \E t \in Task, x \in Title : plan' = [plan EXCEPT !.title[t] = x]
       \/ \E g \in plan.groups, h \in Group \ plan.groups :
             plan' = [plan EXCEPT !.groups = (@ \ {g}) \cup {h},
                                  !.at = [t \in Task |-> IF @[t] = g THEN h ELSE @[t]]]
    /\ plan' # plan
    /\ settled' = FALSE
    /\ UNCHANGED <<board, saved, job, starts, mishaps>>

\* A fresh clone, or a deleted file.
LoseManifest ==
    /\ saved # None /\ mishaps < MaxMishaps /\ mishaps' = mishaps + 1
    /\ saved' = None /\ settled' = FALSE
    /\ UNCHANGED <<plan, board, job, starts, edits>>

SyncStep(s) ==
    \/ BootstrapCall(s) \/ Discover(s) \/ Prune(s)
    \/ \E n \in Node : Visit(s, n)
    \/ Create(s) \/ Rename(s) \/ Save(s) \/ Finish(s) \/ Fail(s)

Next ==
    \/ \E s \in Syncer : SyncStep(s)
    \/ \E i \in Item, status \in {"ready", "done"} : Trigger(i, status)
    \/ EditPlan \/ LoseManifest

Spec == SyncInit /\ [][Next]_vars
-------------------------------------------------------------------------------
Plan == [groups : SUBSET Group, at : [Task -> Group \cup {None}], title : [Task -> Title]]
Manifest == [ids : [Node -> Item \cup {NoItem}], meta : [Task -> Meta], list : Item \cup {NoItem}]
ASSUME NoManifest == None \notin Manifest

Phase == {"idle", "discover", "prune", "next", "create", "rename", "save"}

\* The variables keep their types: ids are cards of the board or nothing.
TypeOK ==
    /\ plan \in Plan
    /\ board \in Seq([key : Node, in : Item \cup {NoItem}, title : Title \cup {None}])
    /\ Len(board) <= MaxItems
    /\ saved \in Manifest \cup {None}
    /\ job \in [Syncer -> [pc : Phase, plan : Plan \cup {None}, man : Manifest,
                           left : SUBSET Node, at : Node \cup {None}, alone : BOOLEAN]]
    /\ starts \subseteq [task : Task, card : Item, status : {"ready", "done"}]
    /\ settled \in BOOLEAN /\ mishaps \in 0 .. MaxMishaps /\ edits \in 0 .. MaxEdits

Twins(n, c) == {i \in DOMAIN board : board[i].key = n /\ board[i].in = c}

\* However many calls fail, answers are lost and manifests are lost, one name
\* in one place gets at most one card per concurrent sync: a rerun recognises
\* what an earlier run made (SyncEngine._ensure_subtask and its like).
TwinsAreBounded ==
    \A n \in Node, c \in Item \cup {NoItem} : Cardinality(Twins(n, c)) <= Cardinality(Syncer)

\* A card that changes status starts the task whose key it bears, whatever the
\* manifest went through since the card was made.
StartsNamedTask == \A x \in starts : board[x.card].key = x.task

\* A sync that reports success on the current plan leaves in the manifest, for
\* all that is planned, a card of that name, with the planned title if the
\* card is where the plan puts it.
SettledIsFaithful ==
    settled => \A n \in Planned(plan) :
        LET i == IF saved = None THEN NoItem ELSE saved.ids[n]
        IN /\ i \in DOMAIN board /\ board[i].key = n
           /\ n \in Task /\ board[i].in = saved.ids[plan.at[n]] => board[i].title = plan.title[n]

\* specs/048 FR-007: a sync after a change of the tasks "MUST update the
\* existing mapped ClickUp items in place".  A card whose task moved is not
\* among its new parent's subtasks, so its title is never looked at again.
SyncedIsCurrent ==
    settled => \A t \in Planned(plan) \cap Task :
        saved.ids[t] \in DOMAIN board => board[saved.ids[t]].title = plan.title[t]

\* specs/048 success criteria: "only ready-for-implement status changes can
\* trigger work".
OnlyReadyStarts == \A x \in starts : x.status = "ready"
=============================================================================
