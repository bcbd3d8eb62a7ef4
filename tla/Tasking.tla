-------------------------------- MODULE Tasking --------------------------------
(***************************************************************************)
(* The tasking chain (scripts/speckit_tasking_chain.py) and the Codex runs *)
(* it makes (scripts/speckit_tasking_codex_runner.py): a feature's tasks   *)
(* are estimated, and broken down and estimated again while some are too   *)
(* large.  The agent of each mode is kept warm: its session is remembered  *)
(* until the chain succeeds.  Which session a run was is read afterwards   *)
(* off the index of the Codex home, which every chain shares.              *)
(***************************************************************************)
EXTENDS Integers, Sequences

CONSTANTS
    Chain,         \* features, each with at most one chain at a time
    NoSession,
    MaxRounds,     \* --max-rounds
    MaxSessions    \* bound on the sessions ever made

ASSUME TaskingAssumption ==
    NoSession \notin Nat /\ MaxRounds \in Nat \ {0} /\ MaxSessions \in Nat

Mode == {"estimate", "breakdown"}

VARIABLES
    sessions,      \* sessions[i]: the feature and mode that made session i
    index,         \* the session at the end of the session index, or NoSession
    saved,         \* saved[f][m]: the session in the state file
    chain,         \* chain[f]: where f's chain is
    mixed          \* whether two runs ever overlapped, or one ended without a session

taskingVars == <<sessions, index, saved, chain, mixed>>

NoRun == [pc |-> "idle", mode |-> "estimate", rounds |-> 0, session |-> NoSession, code |-> 0]
Moves(f, pc) == chain' = [chain EXCEPT ![f].pc = pc]
Running == { f \in Chain : chain[f].pc \in {"exec", "in session", "ended"} }

TaskingInit ==
    /\ sessions = <<>> /\ index = NoSession /\ mixed = FALSE
    /\ saved = [f \in Chain |-> [m \in Mode |-> NoSession]]
    /\ chain = [f \in Chain |-> NoRun]

\* run_chain, up to its first command.
StartChain(f) ==
    /\ chain[f].pc = "idle"
    /\ chain' = [chain EXCEPT ![f] = [NoRun EXCEPT !.pc = "run"]]
    /\ UNCHANGED <<sessions, index, saved, mixed>>

\* run_tasking_codex, up to the call: the saved session is resumed.
StartRun(f) ==
    /\ chain[f].pc = "run"
    /\ chain' = [chain EXCEPT ![f].pc = "exec", ![f].session = saved[f][chain[f].mode]]
    /\ mixed' = (mixed \/ Running # {})
    /\ UNCHANGED <<sessions, index, saved>>

\* codex exec: a session is made or resumed, and is then the last of the index ...
OpenSession(f) ==
    /\ chain[f].pc = "exec"
    /\ \/ /\ chain[f].session = NoSession /\ Len(sessions) < MaxSessions
          /\ sessions' = Append(sessions, <<f, chain[f].mode>>)
          /\ index' = Len(sessions) + 1
       \/ /\ chain[f].session # NoSession
          /\ index' \in {index, chain[f].session} /\ UNCHANGED sessions
    /\ Moves(f, "in session")
    /\ UNCHANGED <<saved, mixed>>

\* ... or codex fails before it.
NoSessionMade(f) ==
    /\ chain[f].pc = "exec"
    /\ chain' = [chain EXCEPT ![f].pc = "ended", ![f].code = 1]
    /\ mixed' = (mixed \/ chain[f].session = NoSession)
    /\ UNCHANGED <<sessions, index, saved>>

\* The agent ends.
SessionEnds(f) ==
    /\ chain[f].pc = "in session"
    /\ \E code \in {0, 1} : chain' = [chain EXCEPT ![f].pc = "ended", ![f].code = code]
    /\ UNCHANGED <<sessions, index, saved, mixed>>

\* Mutant: the newest session of the index is taken, even by a run that resumed one.
SessionOf_Newest(f) == IF index # NoSession THEN index ELSE chain[f].session

\* Which session it was: the resumed one, or the newest of the index.
SessionOf(f) == IF chain[f].session # NoSession THEN chain[f].session ELSE index

\* _persist_session_state: a run without a session leaves the state as it was.
Persisted(f) ==
    IF SessionOf(f) = NoSession THEN saved
    ELSE [saved EXCEPT ![f][chain[f].mode] = SessionOf(f)]

\* Where a chain goes after a run: a failure ends it, a breakdown is followed by an
\* estimate, and that by a look at the estimates.
AfterRun(c) ==
    IF c.code # 0 THEN NoRun
    ELSE IF c.mode = "breakdown" THEN [c EXCEPT !.pc = "run", !.mode = "estimate"]
    ELSE [c EXCEPT !.pc = "check", !.rounds = c.rounds + 1]

\* The state is written, whether codex succeeded or not.
EndRun(f) ==
    /\ chain[f].pc = "ended"
    /\ saved' = Persisted(f)
    /\ chain' = [chain EXCEPT ![f] = AfterRun(chain[f])]
    /\ UNCHANGED <<sessions, index, mixed>>

\* The estimates, which are the agent's: no task is too large, and both sessions are
\* forgotten; or one is.
Stabilized(f) ==
    /\ chain[f].pc = "check"
    /\ saved' = [saved EXCEPT ![f] = [m \in Mode |-> NoSession]]
    /\ chain' = [chain EXCEPT ![f] = NoRun]
    /\ UNCHANGED <<sessions, index, mixed>>

BreakDown(f) ==
    /\ chain[f].pc = "check"
    /\ chain' = [chain EXCEPT ![f] = IF @.rounds >= MaxRounds THEN NoRun
                                     ELSE [@ EXCEPT !.pc = "run", !.mode = "breakdown"]]
    /\ UNCHANGED <<sessions, index, saved, mixed>>

TaskingNext ==
    \E f \in Chain :
        \/ StartChain(f) \/ StartRun(f) \/ OpenSession(f) \/ NoSessionMade(f)
        \/ SessionEnds(f) \/ EndRun(f) \/ Stabilized(f) \/ BreakDown(f)

\* As long as no two runs overlapped and every run made a session, the warm agent
\* of each feature and mode is one that worked on that feature in that mode.
WarmAgentsAreOwn ==
    ~mixed => \A f \in Chain, m \in Mode :
                saved[f][m] # NoSession => sessions[saved[f][m]] = <<f, m>>

\* What the state files are for.
AgentsAreModeSpecific ==
    \A f \in Chain, m \in Mode : saved[f][m] # NoSession => sessions[saved[f][m]] = <<f, m>>
===============================================================================
