-------------------------------- MODULE Trello --------------------------------
(***************************************************************************)
(* The other projection of tasks.md (src/mcp_trello): a list per phase, a  *)
(* card per task, and labels, on a board that is read anew by each sync.   *)
(* Nothing is kept on this side: a card is known by the marker in its      *)
(* description.  A sync ends at the first call that fails; a call may fail *)
(* after it took effect.  One label stands for all.  A behaviour is one of *)
(* Trello or one of ClickUp (Sync), whose plan and whose bounds it shares. *)
(***************************************************************************)
EXTENDS Sync

VARIABLES
    target,        \* whether this behaviour is one of "clickup" or "trello"
    lists,         \* the lists of the board, by name, in the order they were made
    cards,         \* the cards: task, list (NoItem: one that is no phase's), title, label
    labels,        \* how many labels of the name there are; the newest is found by it
    labelled,      \* the tasks of tasks.md that have the label
    tsync,         \* tsync[s]: the sync of s
    strayed        \* whether a card was moved by hand, or a phase lost its last task

trelloVars == <<lists, cards, labels, labelled, tsync, strayed>>
allVars == <<vars, trelloVars, target>>

Unseen == [id |-> NoItem, title |-> None, label |-> NoItem]
NoSync == [pc |-> "idle", plan |-> None, labelled |-> {}, label |-> NoItem, left |-> {},
           list |-> [g \in Group |-> NoItem], seen |-> [t \in Task |-> Unseen]]

TrelloInit ==
    /\ lists = <<>> /\ cards = <<>> /\ labels = 0 /\ labelled \in SUBSET Task
    /\ tsync = [s \in Syncer |-> NoSync] /\ strayed = FALSE

Is(s, pc) == tsync[s].pc = pc
PlannedTasks(p) == {t \in Task : p.at[t] # None}

\* parse_tasks_md: phases without a task are dropped.
Phases(p) == {p.at[t] : t \in PlannedTasks(p)}

Sets(s, j) == tsync' = [tsync EXCEPT ![s] = j]
Board == <<lists, cards, labels>>
Tasks == <<labelled, strayed, edits>>

\* A call that makes or changes something: its answer arrives, or is lost and the
\* sync is over.
Answered(s, j) ==
    \/ Sets(s, j) /\ UNCHANGED mishaps
    \/ mishaps < MaxMishaps /\ mishaps' = mishaps + 1 /\ Sets(s, NoSync)

ListsOf(g) == {l \in DOMAIN lists : lists[l] = g}
TwoOfAName == \E g \in Group : Cardinality(ListsOf(g)) > 1

\* sync_tasks_to_trello, parsing included, and get_lists: two lists of one name end it.
StartSync(s) ==
    /\ Is(s, "idle") /\ Phases(plan) # {} /\ ~TwoOfAName
    /\ Sets(s, [NoSync EXCEPT !.pc = "lists", !.plan = plan, !.labelled = labelled,
                              !.list = [g \in Group |-> Sole(ListsOf(g))]])
    /\ UNCHANGED <<Board, Tasks, mishaps>>

\* A phase without a list gets one.
MakeList(s) ==
    /\ Is(s, "lists") /\ Len(lists) < MaxItems
    /\ \E g \in Phases(tsync[s].plan) :
          /\ tsync[s].list[g] = NoItem
          /\ lists' = Append(lists, g)
          /\ Answered(s, [tsync[s] EXCEPT !.list[g] = Len(lists) + 1])
    /\ UNCHANGED <<cards, labels, Tasks>>

HasLists(s) ==
    /\ Is(s, "lists") /\ \A g \in Phases(tsync[s].plan) : tsync[s].list[g] # NoItem
    /\ Sets(s, [tsync[s] EXCEPT !.pc = "cards", !.left = Phases(tsync[s].plan)])
    /\ UNCHANGED <<Board, Tasks, mishaps>>

\* Mutant: a task's card is looked for in the list of its phase.
Marked_InPhase(s, t, l) ==
    {i \in DOMAIN cards : cards[i].task = t /\ cards[i].list = l
        /\ tsync[s].plan.at[t] # None /\ tsync[s].list[tsync[s].plan.at[t]] = l}

\* What get_cards shows of task t in list l.
Marked(s, t, l) == {i \in DOMAIN cards : cards[i].task = t /\ cards[i].list = l}

Newest(S) == CHOOSE i \in S : \A j \in S : j <= i

\* The cards of one list; of two cards of a task the one read last counts.
ReadCards(s) ==
    /\ Is(s, "cards")
    /\ \E g \in tsync[s].left :
         LET found == [t \in Task |-> Marked(s, t, tsync[s].list[g])]
         IN Sets(s, [tsync[s] EXCEPT
                !.left = @ \ {g},
                !.pc = IF tsync[s].left = {g} THEN "labels" ELSE "cards",
                !.seen = [t \in Task |-> IF found[t] = {} THEN @[t]
                            ELSE LET i == Newest(found[t])
                                 IN [id |-> i, title |-> cards[i].title,
                                     label |-> cards[i].label]]])
    /\ UNCHANGED <<Board, Tasks, mishaps>>

Needed(s) == tsync[s].labelled \cap PlannedTasks(tsync[s].plan) # {}

\* _resolve_labels: none needed, or found, or to be made.
ResolveLabels(s) ==
    /\ Is(s, "labels") /\ (Needed(s) => labels > 0)
    /\ Sets(s, [tsync[s] EXCEPT !.pc = "tasks", !.left = PlannedTasks(tsync[s].plan),
                                !.label = IF Needed(s) THEN labels ELSE NoItem])
    /\ UNCHANGED <<Board, Tasks, mishaps>>

MakeLabel(s) ==
    /\ Is(s, "labels") /\ Needed(s) /\ labels = 0
    /\ labels' = labels + 1
    /\ Answered(s, [tsync[s] EXCEPT !.pc = "tasks", !.left = PlannedTasks(tsync[s].plan),
                                    !.label = labels + 1])
    /\ UNCHANGED <<lists, cards, Tasks>>

LabelOf(s, t) == IF t \in tsync[s].labelled THEN tsync[s].label ELSE NoItem
Past(s, t) == [tsync[s] EXCEPT !.left = @ \ {t}]

\* _sync_task: no card was read, and one is made ...
MakeCard(s, t) ==
    /\ Is(s, "tasks") /\ t \in tsync[s].left /\ tsync[s].seen[t].id = NoItem
    /\ Len(cards) < MaxItems
    /\ cards' = Append(cards, [task |-> t, list |-> tsync[s].list[tsync[s].plan.at[t]],
                               title |-> tsync[s].plan.title[t], label |-> LabelOf(s, t)])
    /\ Answered(s, Past(s, t))
    /\ UNCHANGED <<lists, labels, Tasks>>

Changed(s, t) ==
    LET was == tsync[s].seen[t]
    IN was.title # tsync[s].plan.title[t] \/ was.label # LabelOf(s, t)

\* ... or it has changed, and is updated: only what changed of its title, and its
\* label unless the task has none any more; it stays in its list ...
UpdateCard(s, t) ==
    /\ Is(s, "tasks") /\ t \in tsync[s].left /\ tsync[s].seen[t].id # NoItem /\ Changed(s, t)
    /\ LET was == tsync[s].seen[t]  title == tsync[s].plan.title[t]
       IN cards' = [cards EXCEPT
              ![was.id].title = IF was.title # title THEN title ELSE @,
              ![was.id].label = IF t \in tsync[s].labelled THEN LabelOf(s, t) ELSE @]
    /\ Answered(s, Past(s, t))
    /\ UNCHANGED <<lists, labels, Tasks>>

\* ... or it is as it should be.
LeaveCard(s, t) ==
    /\ Is(s, "tasks") /\ t \in tsync[s].left /\ tsync[s].seen[t].id # NoItem /\ ~Changed(s, t)
    /\ Sets(s, Past(s, t))
    /\ UNCHANGED <<Board, Tasks, mishaps>>

EndSync(s) ==
    /\ Is(s, "tasks") /\ tsync[s].left = {}
    /\ Sets(s, NoSync)
    /\ UNCHANGED <<Board, Tasks, mishaps>>

\* A call fails without effect, or the sync is killed.
Abort(s) ==
    /\ ~Is(s, "idle") /\ mishaps < MaxMishaps /\ mishaps' = mishaps + 1
    /\ Sets(s, NoSync)
    /\ UNCHANGED <<Board, Tasks>>

\* Somebody moves a card to another list: a phase's, or one for what is done.
MoveCard ==
    /\ edits < MaxEdits /\ edits' = edits + 1
    /\ \E i \in DOMAIN cards, l \in DOMAIN lists \cup {NoItem} :
          l # cards[i].list /\ cards' = [cards EXCEPT ![i].list = l]
    /\ strayed' = TRUE
    /\ UNCHANGED <<lists, labels, labelled, tsync, mishaps>>

\* tasks.md is edited.
EditTasks ==
    /\ EditPlan
    /\ strayed' = (strayed \/ Phases(plan) \ Phases(plan') # {})
    /\ UNCHANGED <<Board, labelled, tsync>>

Relabel ==
    /\ edits < MaxEdits /\ edits' = edits + 1
    /\ \E t \in Task : labelled' = (labelled \ {t}) \cup ({t} \ labelled)
    /\ UNCHANGED <<Board, tsync, strayed, mishaps>>

TrelloStep(s) ==
    \/ StartSync(s) \/ MakeList(s) \/ HasLists(s) \/ ReadCards(s)
    \/ ResolveLabels(s) \/ MakeLabel(s) \/ EndSync(s) \/ Abort(s)
    \/ \E t \in Task : MakeCard(s, t) \/ UpdateCard(s, t) \/ LeaveCard(s, t)

TrelloNext ==
    \/ /\ (\E s \in Syncer : TrelloStep(s)) \/ MoveCard \/ Relabel
       /\ UNCHANGED <<plan, board, saved, job, starts, settled>>
    \/ EditTasks

BoardsInit ==
    /\ SyncInit /\ TrelloInit
    /\ \/ target = "trello"
       \/ target = "clickup" /\ labelled = {}

BoardsNext ==
    /\ \/ target = "clickup" /\ Next /\ UNCHANGED trelloVars
       \/ target = "trello" /\ TrelloNext
    /\ UNCHANGED target

BoardsSpec == BoardsInit /\ [][BoardsNext]_allVars
-------------------------------------------------------------------------------
CardsOf(t) == {i \in DOMAIN cards : cards[i].task = t}

\* Whatever is lost or aborted, a board bears what the plan names at most once per
\* concurrent sync: in ClickUp, one name in one place; in Trello, where nothing is
\* remembered, a task, also when it moves to another phase, unless somebody moved a card
\* or a phase lost its last task and its list is not read.
CardsAreBounded ==
    /\ TwinsAreBounded
    /\ ~strayed => \A t \in Task : Cardinality(CardsOf(t)) <= Cardinality(Syncer)

\* sync_tasks_to_trello: "Idempotent: re-running with the same inputs produces no
\* duplicate cards."
SyncIsIdempotent == \A t \in Task : Cardinality(CardsOf(t)) <= Cardinality(Syncer)
===============================================================================
