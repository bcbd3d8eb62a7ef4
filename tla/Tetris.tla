-------------------------------- MODULE Tetris --------------------------------
(***************************************************************************)
(* The game that the control plane serves (src/clickup_control_plane/      *)
(* tetris): one session, changed by one request at a time, since no        *)
(* handler awaits between reading and storing it.  A piece is its four     *)
(* orientations, a list of cells each; rows count downwards.  The queue of *)
(* a session is finite.                                                    *)
(***************************************************************************)
EXTENDS Integers, Sequences, FiniteSets, FiniteSetsExt

CONSTANTS
    Width, Height,
    PieceQueue,    \* DEFAULT_PIECE_SEQUENCE: the kinds of a session, in order
    MaxShift       \* bound on the distances a request may ask for

ASSUME TetrisAssumption ==
    /\ Width \in Nat \ {0} /\ Height \in Nat \ {0} /\ MaxShift \in Nat
    /\ PieceQueue \in Seq({"I", "O", "T", "S", "Z", "J", "L"}) \ {<<>>}

VARIABLES
    stack,         \* the cells of the board that are taken
    piece,         \* the active piece, or NoPiece
    queue,         \* what is left of the queue
    status,        \* "ready", "active" or "game_over"
    score,         \* lines cleared, level and points
    barred         \* history: whether a piece could not be placed at its spawn

gameVars == <<stack, piece, queue, status, score, barred>>

\* PIECE_DEFINITIONS, by rotation.
Orientations == [
    I |-> << {<<0, 1>>, <<1, 1>>, <<2, 1>>, <<3, 1>>}, {<<2, 0>>, <<2, 1>>, <<2, 2>>, <<2, 3>>},
             {<<0, 2>>, <<1, 2>>, <<2, 2>>, <<3, 2>>}, {<<1, 0>>, <<1, 1>>, <<1, 2>>, <<1, 3>>} >>,
    O |-> << {<<1, 0>>, <<2, 0>>, <<1, 1>>, <<2, 1>>}, {<<1, 0>>, <<2, 0>>, <<1, 1>>, <<2, 1>>},
             {<<1, 0>>, <<2, 0>>, <<1, 1>>, <<2, 1>>}, {<<1, 0>>, <<2, 0>>, <<1, 1>>, <<2, 1>>} >>,
    T |-> << {<<1, 0>>, <<0, 1>>, <<1, 1>>, <<2, 1>>}, {<<1, 0>>, <<1, 1>>, <<2, 1>>, <<1, 2>>},
             {<<0, 1>>, <<1, 1>>, <<2, 1>>, <<1, 2>>}, {<<1, 0>>, <<0, 1>>, <<1, 1>>, <<1, 2>>} >>,
    S |-> << {<<1, 0>>, <<2, 0>>, <<0, 1>>, <<1, 1>>}, {<<1, 0>>, <<1, 1>>, <<2, 1>>, <<2, 2>>},
             {<<1, 1>>, <<2, 1>>, <<0, 2>>, <<1, 2>>}, {<<0, 0>>, <<0, 1>>, <<1, 1>>, <<1, 2>>} >>,
    Z |-> << {<<0, 0>>, <<1, 0>>, <<1, 1>>, <<2, 1>>}, {<<2, 0>>, <<1, 1>>, <<2, 1>>, <<1, 2>>},
             {<<0, 1>>, <<1, 1>>, <<1, 2>>, <<2, 2>>}, {<<1, 0>>, <<0, 1>>, <<1, 1>>, <<0, 2>>} >>,
    J |-> << {<<0, 0>>, <<0, 1>>, <<1, 1>>, <<2, 1>>}, {<<1, 0>>, <<2, 0>>, <<1, 1>>, <<1, 2>>},
             {<<0, 1>>, <<1, 1>>, <<2, 1>>, <<2, 2>>}, {<<1, 0>>, <<1, 1>>, <<0, 2>>, <<1, 2>>} >>,
    L |-> << {<<2, 0>>, <<0, 1>>, <<1, 1>>, <<2, 1>>}, {<<1, 0>>, <<1, 1>>, <<1, 2>>, <<2, 2>>},
             {<<0, 1>>, <<1, 1>>, <<2, 1>>, <<0, 2>>}, {<<0, 0>>, <<1, 0>>, <<1, 1>>, <<1, 2>>} >> ]

NoPiece == [kind |-> "none", turn |-> 0, x |-> 0, y |-> 0]
Fresh(kind) == [kind |-> kind, turn |-> 0, x |-> 3, y |-> 0]

\* _piece_cells
Cells(p) == {<<p.x + c[1], p.y + c[2]>> : c \in Orientations[p.kind][p.turn + 1]}

\* Mutant: what is taken is not looked at.
CanPlace_Overlap(p, taken) == Cells(p) \subseteq (0 .. Width - 1) \X (0 .. Height - 1)

\* _can_place
CanPlace(p, taken) ==
    Cells(p) \subseteq ((0 .. Width - 1) \X (0 .. Height - 1)) \ taken

Row(y) == (0 .. Width - 1) \X {y}
FullRows(taken) == {y \in 0 .. Height - 1 : Row(y) \subseteq taken}

\* _clear_full_rows: what was above a full row comes down by one.
Cleared(taken) ==
    LET full == FullRows(taken)
        fall(y) == Cardinality({r \in full : r > y})
    IN {<<c[1], c[2] + fall(c[2])>> : c \in {d \in taken : d[2] \notin full}}

\* _score_for_clear
Points(lines, level) ==
    level * (CASE lines = 1 -> 40 [] lines = 2 -> 100 [] lines = 3 -> 300
               [] lines = 4 -> 1200 [] OTHER -> 0)

\* lock_active_piece, the score: a level for every ten lines.
Scored(lines) ==
    [lines |-> score.lines + lines, level |-> (score.lines + lines) \div 10 + 1,
     points |-> score.points + Points(lines, score.level)]

\* spawn_next_piece, on a board without an active piece: an empty queue and a piece
\* that does not fit end the game.
NextPiece(taken, left) ==
    IF left = <<>>
    THEN /\ piece' = NoPiece /\ queue' = <<>> /\ status' = "game_over"
         /\ UNCHANGED barred
    ELSE /\ queue' = Tail(left)
         /\ IF CanPlace(Fresh(Head(left)), taken)
            THEN piece' = Fresh(Head(left)) /\ status' = "active" /\ UNCHANGED barred
            ELSE piece' = NoPiece /\ status' = "game_over" /\ barred' = TRUE

NoScore == [lines |-> 0, level |-> 1, points |-> 0]

\* No session yet.
GameInit ==
    /\ stack = {} /\ piece = NoPiece /\ queue = <<>> /\ status = "ready"
    /\ score = NoScore /\ barred = FALSE

\* start_session and restart_session: at the first request, or when asked.
Restart ==
    /\ stack' = {} /\ score' = NoScore
    /\ queue' = Tail(PieceQueue) /\ piece' = Fresh(Head(PieceQueue)) /\ status' = "active"
    /\ CanPlace(Fresh(Head(PieceQueue)), {}) /\ barred' = FALSE

Active == status = "active"

\* move_active_piece: any distance a request asks for, if the piece fits there.
Move(dx, dy) ==
    /\ Active /\ CanPlace([piece EXCEPT !.x = @ + dx, !.y = @ + dy], stack)
    /\ piece' = [piece EXCEPT !.x = @ + dx, !.y = @ + dy]
    /\ UNCHANGED <<stack, queue, status, score, barred>>

\* rotate_active_piece, in place.
Rotate(by) ==
    LET turned == [piece EXCEPT !.turn = (@ + by) % 4] IN
    /\ Active /\ CanPlace(turned, stack)
    /\ piece' = turned
    /\ UNCHANGED <<stack, queue, status, score, barred>>

Dropped == [piece EXCEPT !.y = @ + 1]

\* tick: the piece falls by one ...
Fall ==
    /\ Active /\ CanPlace(Dropped, stack)
    /\ piece' = Dropped
    /\ UNCHANGED <<stack, queue, status, score, barred>>

\* ... or is locked: lock_active_piece clears, scores and spawns.
Lock ==
    LET taken == stack \cup Cells(piece) IN
    /\ Active /\ ~CanPlace(Dropped, stack)
    /\ stack' = Cleared(taken)
    /\ score' = Scored(Cardinality(FullRows(taken)))
    /\ NextPiece(stack', queue)

GameNext ==
    \/ Restart
    \/ \E dx, dy \in -MaxShift .. MaxShift : Move(dx, dy)
    \/ \E by \in {1, 3} : Rotate(by)
    \/ Fall \/ Lock
-------------------------------------------------------------------------------
\* How many pieces were locked: those that left the queue and are not active, but
\* for one that was barred.
PiecesLocked ==
    IF status = "ready" THEN 0
    ELSE Len(PieceQueue) - Len(queue) - (IF Active \/ barred THEN 1 ELSE 0)

\* Whatever is asked for, a piece is locked on free cells, and what leaves the board
\* is its full rows, each once: the cells add up, and no full row stays.
CellsAddUp ==
    /\ Cardinality(stack) + Width * score.lines = 4 * PiecesLocked
    /\ FullRows(stack) = {}

\* "Game over must trigger only when a new piece cannot spawn legally, not during
\* normal stacking" (specs/029-make-tetris/spec.md).
OverWhenBarred == status = "game_over" => barred
===============================================================================
