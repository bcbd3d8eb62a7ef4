--------------------------- MODULE MCControlPlane ---------------------------
(* Instances of ControlPlane for TLC: a catalogue of webhook bodies, from
   which each configuration takes a few. *)
EXTENDS ControlPlane

CONSTANTS t1, t2

Body0 == [occurred_at |-> 2, policy |-> "dispatch", workflow |-> "build_spec",
          gate |-> "dispatch", response |-> FALSE, cancel |-> FALSE]
Comment0 == [Body0 EXCEPT !.policy = "reject_missing_metadata"]

Catalogue ==
    [build   |-> Body0,
     build2  |-> [Body0 EXCEPT !.occurred_at = 3],
     other   |-> Body0,
     qa      |-> [Body0 EXCEPT !.workflow = "qa_loop"],
     blocked |-> [Body0 EXCEPT !.workflow = "qa_loop", !.gate = "qa_unblock_required"],
     nocrit  |-> [Body0 EXCEPT !.workflow = "qa_loop", !.gate = "missing_criteria"],
     unknown |-> [Body0 EXCEPT !.workflow = "other"],
     answer  |-> [Comment0 EXCEPT !.response = TRUE, !.occurred_at = 0],
     move    |-> [Comment0 EXCEPT !.cancel = TRUE, !.occurred_at = 3],
     oldmove |-> [Comment0 EXCEPT !.cancel = TRUE, !.occurred_at = 1]]

MCPayloadOf == [e \in Event |-> Catalogue[e]]
MCTaskOf == [e \in Event |-> IF e = "other" THEN t2 ELSE t1]
=============================================================================
