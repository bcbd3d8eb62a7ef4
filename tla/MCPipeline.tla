------------------------------ MODULE MCPipeline ------------------------------
(* Instances of Pipeline for TLC: the histories its features start with. *)
EXTENDS Pipeline, TLC

E(e, ph) == [event |-> e, phase |-> ph]

Registered == << E("backlog_registered", "specify") >>
Researched == Registered \o << E("research_completed", "research") >>
Reviewed == Researched \o << E("planreview_completed", "plan") >>
Tasked == Registered \o << E("plan_approved", "plan"), E("tasking_completed", None) >>

MCStartLogs == {Researched, Tasked}
OneStartLog == {Reviewed}
MCSymmetry == Permutations(Proc)
=============================================================================
