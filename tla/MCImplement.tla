------------------------------ MODULE MCImplement ------------------------------
(* Instances of Implement for TLC: tasks in order, names of the workers. *)
EXTENDS Implement, TLC

CONSTANTS t1, t2, w1, w2, s1

TwoTasks == <<t1, t2>>
OneTask == <<t1>>
OwnName == [p \in Worker |-> p]

\* Both shells start tasks by the trigger, one of them runs the other tools as well;
\* t1 goes through the whole protocol, and t2 may be started past the gate.
Tools == [s \in Shell |->
    {"trigger"} \cup (IF s = s1 THEN {"register", "append", "closeout"} ELSE {})]
NoEvent == [t \in Task |-> {}]
Protocol == {"discovery_completed", "quality_guards_passed", "functional_goal_achieved",
             "tests_passed", "fix_started", "fix_completed", "commit_created", "ci_completed",
             "qa_verdict", "merge_approved", "merged", "task_closed"}
TwoTracks == [t \in Task |-> IF t = t1 THEN Protocol ELSE {"task_started"}]

MCSymmetry == Permutations({w1, w2})
=============================================================================
