-------------------------------- MODULE Pyright --------------------------------
(***************************************************************************)
(* The language server behind get_type (src/mcp_codebase/pyright_client.py, *)
(* type_tool.py, server.py): one child process, started, restarted when it *)
(* is found dead, and shut down, by coroutines that interleave at their    *)
(* awaits.  A request is known by its caller: ids are never used again, so *)
(* that an answer to a request that timed out is dropped.                  *)
(***************************************************************************)
EXTENDS Integers, FiniteSets

CONSTANTS
    Asker,         \* concurrent get_type calls
    Host,          \* the server, which starts and stops the client
    MaxRestarts,   \* MAX_RESTART_COUNT
    MaxDeaths      \* bound on the deaths of a child

ASSUME PyrightAssumption ==
    /\ IsFiniteSet(Asker) /\ Host \notin Asker
    /\ MaxRestarts \in Nat /\ MaxDeaths \in Nat

VARIABLES
    lsp,           \* lsp.state and lsp.restarts of the client; lsp.proc: children so far, the last is its own
    live, exited,  \* the children that run, and those whose exit code the client has
    listening,     \* whether the client's reader runs
    pending, wire, \* callers with a future, and of them those whose request a child has
    call,          \* call[c]: where caller c is, what follows a kill, and its answer
    deaths

pyrightVars == <<lsp, live, exited, listening, pending, wire, call, deaths>>

Child == 1 .. MaxRestarts + 1
At == [c \in Asker \cup {Host} |-> call[c].pc]
NoCall == [pc |-> "idle", next |-> "idle", got |-> "none"]

Steps(c, pc) == call' = [call EXCEPT ![c].pc = pc, ![c].got = "none"]
Ends(c) == call' = [call EXCEPT ![c] = NoCall]
Becoming(state) == lsp' = [lsp EXCEPT !.state = state]
Children == <<live, exited, deaths>>

PyrightInit ==
    /\ lsp = [state |-> "not_started", restarts |-> 0, proc |-> 0]
    /\ live = {} /\ exited = {} /\ listening = FALSE
    /\ pending = {} /\ wire = {} /\ deaths = 0
    /\ call = [c \in Asker \cup {Host} |-> NoCall]

\* _kill_process: the reader is cancelled first, when it runs; next is what follows.
Killing(c, next) ==
    call' = [call EXCEPT ![c] = [NoCall EXCEPT !.pc = IF listening THEN "cancel" ELSE "kill",
                                               !.next = next]]

\* A request is registered and sent; a child that is gone may not be noticed.
Sends(c, pc) ==
    /\ pending' = pending \cup {c}
    /\ wire' = IF lsp.proc \in live THEN wire \cup {c} ELSE wire
    /\ Steps(c, pc)

\* The reader's end fails whoever waits.
ReaderDone(calls) ==
    /\ listening' = FALSE /\ pending' = {} /\ wire' = {}
    /\ call' = [c \in DOMAIN calls |->
                  IF c \in pending THEN [calls[c] EXCEPT !.got = "lost"] ELSE calls[c]]

\* start_pyright
StartPyright ==
    /\ At[Host] = "idle" /\ lsp.state = "not_started"
    /\ Becoming("starting") /\ Steps(Host, "spawn")
    /\ UNCHANGED <<Children, listening, pending, wire>>

\* start: the child, its reader, and initialize; or nothing to launch.
Spawn(c) ==
    /\ At[c] = "spawn"
    /\ \/ /\ lsp' = [lsp EXCEPT !.proc = @ + 1] /\ live' = live \cup {lsp.proc + 1}
          /\ listening' = TRUE
          /\ pending' = pending \cup {c} /\ wire' = wire \cup {c} /\ Steps(c, "init")
       \/ /\ Becoming("error") /\ Killing(c, "failed")
          /\ UNCHANGED <<live, listening, pending, wire>>
    /\ UNCHANGED <<exited, deaths>>

\* The handshake's answer: the client is ready, unless it cannot say so.
Initialized(c) ==
    /\ At[c] = "init" /\ call[c].got = "ok"
    /\ Becoming("ready")
    /\ IF c = Host THEN Ends(c) ELSE Steps(c, "open")
    /\ UNCHANGED <<Children, listening, pending, wire>>

\* An error, a lost child or the timeout: the error state, and the child is killed.
StartFails(c) ==
    /\ \/ At[c] = "init" /\ call[c].got # "ok"
       \/ At[c] = "init" /\ call[c].got = "ok" /\ lsp.proc \notin live
    /\ Becoming("error") /\ Killing(c, "failed")
    /\ pending' = pending \ {c} /\ wire' = wire \ {c}
    /\ UNCHANGED <<Children, listening>>

CancelReader(c) ==
    /\ At[c] = "cancel"
    /\ ReaderDone([call EXCEPT ![c].pc = "kill"])
    /\ UNCHANGED <<lsp, Children>>

\* The child is gone.  A restart that failed for the last time says so again.
Kill(c) ==
    /\ At[c] = "kill"
    /\ live' = live \ {lsp.proc} /\ exited' = exited \cup ({lsp.proc} \cap Child)
    /\ wire' = {}
    /\ \/ call[c].next = "start" /\ Becoming("starting") /\ Steps(c, "spawn")
       \/ /\ call[c].next = "failed" /\ Ends(c)
          /\ IF c # Host /\ lsp.restarts >= MaxRestarts THEN Becoming("error") ELSE UNCHANGED lsp
       \/ call[c].next = "stopped" /\ Ends(c) /\ UNCHANGED lsp
    /\ UNCHANGED <<deaths, listening, pending>>

\* Mutant: hover looks at the child, and not at the state.
MayAsk_AnyState == lsp.proc > 0

\* get_type answers LSP_UNAVAILABLE, and hover nothing, in any other state.
MayAsk == lsp.state = "ready"

\* hover, up to its first await; a dead child is replaced, a few times.
Hover(c) ==
    /\ At[c] = "idle" /\ c \in Asker /\ MayAsk
    /\ \/ /\ lsp.proc \notin exited
          /\ Steps(c, "open") /\ UNCHANGED lsp
       \/ /\ lsp.proc \in exited /\ lsp.restarts < MaxRestarts
          /\ lsp' = [lsp EXCEPT !.restarts = @ + 1, !.state = "restarting"]
          /\ Killing(c, "start")
       \/ /\ lsp.proc \in exited /\ lsp.restarts >= MaxRestarts
          /\ lsp' = [lsp EXCEPT !.restarts = @ + 1, !.state = "error"]
          /\ UNCHANGED call
    /\ UNCHANGED <<Children, listening, pending, wire>>

\* didOpen and the request; to a child that is gone either may fail, and what
\* is registered stays.
Open(c) ==
    /\ At[c] = "open"
    /\ Steps(c, "ask") \/ (lsp.proc \notin live /\ Ends(c))
    /\ UNCHANGED <<lsp, Children, listening, pending, wire>>

Ask(c) ==
    /\ At[c] = "ask"
    /\ \/ Sends(c, "wait")
       \/ lsp.proc \notin live /\ pending' = pending \cup {c} /\ Ends(c) /\ UNCHANGED wire
    /\ UNCHANGED <<lsp, Children, listening>>

\* An answer, a lost child or the timeout; then didClose, whatever comes of it.
HoverEnds(c) ==
    /\ At[c] = "wait"
    /\ Ends(c)
    /\ pending' = pending \ {c} /\ wire' = wire \ {c}
    /\ UNCHANGED <<lsp, Children, listening>>

\* stop_pyright, and shutdown up to its request.
Stop ==
    /\ At[Host] = "idle" /\ lsp.state \notin {"not_started", "shutdown"}
    /\ Becoming("shutdown")
    /\ IF lsp.proc \in Child \ exited THEN Sends(Host, "bye")
       ELSE Killing(Host, "stopped") /\ UNCHANGED <<pending, wire>>
    /\ UNCHANGED <<Children, listening>>

\* With an answer the child is told to exit, and waited for.
ByeAnswered ==
    /\ At[Host] = "bye" /\ call[Host].got \in {"ok", "error"}
    /\ Steps(Host, "exit")
    /\ UNCHANGED <<lsp, Children, listening, pending, wire>>

ExitSeen ==
    /\ At[Host] = "exit" /\ Ends(Host)
    /\ live' = live \ {lsp.proc} /\ exited' = exited \cup {lsp.proc}
    /\ wire' = {}
    /\ UNCHANGED <<lsp, deaths, listening, pending>>

\* Neither came: it is killed.
ByeFails ==
    /\ At[Host] = "exit" \/ (At[Host] = "bye" /\ call[Host].got \notin {"ok", "error"})
    /\ Killing(Host, "stopped")
    /\ pending' = pending \ {Host} /\ wire' = wire \ {Host}
    /\ UNCHANGED <<lsp, Children, listening>>

(***************************************************************************)
(* The child and the reader.                                               *)
(***************************************************************************)
Answer(c) ==
    /\ listening /\ lsp.proc \in live /\ c \in wire \cap pending
    /\ \E got \in {"ok", "error"} : call' = [call EXCEPT ![c].got = got]
    /\ pending' = pending \ {c} /\ wire' = wire \ {c}
    /\ UNCHANGED <<lsp, Children, listening>>

Dies ==
    /\ deaths < MaxDeaths /\ deaths' = deaths + 1
    /\ \E p \in live : live' = live \ {p}
    /\ wire' = {}
    /\ UNCHANGED <<lsp, exited, listening, pending, call>>

\* The exit code, and the end of the stream, in either order.
Noticed ==
    /\ lsp.proc \in Child \ (live \cup exited)
    /\ exited' = exited \cup {lsp.proc}
    /\ UNCHANGED <<lsp, live, deaths, listening, pending, wire, call>>

ReaderEnds ==
    /\ listening /\ lsp.proc \notin live
    /\ ReaderDone(call)
    /\ UNCHANGED <<lsp, Children>>

PyrightNext ==
    \/ StartPyright \/ Stop \/ ByeAnswered \/ ExitSeen \/ ByeFails
    \/ \E c \in Asker \cup {Host} :
         Spawn(c) \/ Initialized(c) \/ StartFails(c) \/ CancelReader(c) \/ Kill(c)
            \/ Hover(c) \/ Open(c) \/ Ask(c) \/ HoverEnds(c) \/ Answer(c)
    \/ Dies \/ Noticed \/ ReaderEnds

\* Whatever dies, times out or is stopped meanwhile, one child runs at most, and
\* none once the client is in error and done with killing.
OneLanguageServer ==
    /\ Cardinality(live) <= 1
    /\ lsp.state = "error" /\ (\A c \in DOMAIN call : At[c] \notin {"cancel", "kill"})
         => live = {}

\* What a shutdown is for: a client that was shut down leaves no child.  A
\* restart that is under way at the time brings one.
ShutdownIsFinal ==
    [][ \A p \in Child : p \in live' \ live => lsp.state \in {"starting", "restarting"} ]_pyrightVars
===============================================================================
