------------------------------ MODULE BackendServer ------------------------------
(***************************************************************************)
(* The stdio backend of read-code (src/mcp_codebase/                       *)
(* project_backend_server.py): a server that starts terminates the one its *)
(* launcher's pid file names, writes its own pid there, and removes the    *)
(* file when it exits, if it still names it.  Before its first answer it   *)
(* builds the vector index, when there is none, and warms the reranker.    *)
(***************************************************************************)
EXTENDS Integers, FiniteSets

CONSTANTS
    NoServer,
    Server,        \* the servers one launcher starts; each starts once
    MaxKills       \* bound on the servers that are killed from outside

ASSUME BackendServerAssumption ==
    /\ IsFiniteSet(Server) /\ NoServer \notin Server /\ "empty" \notin Server
    /\ MaxKills \in Nat

VARIABLES
    pidFile,       \* project_backend_server.<owner>.pid: a server, "empty", or NoServer
    server,        \* server[s]: where server s is
    previous,      \* previous[s]: what s read in the pid file
    raced,         \* whether a server ever started while another one did
    built,         \* whether the vector index is there
    loaded, warmed, \* the servers that checked the index, and warmed the reranker
    kills

serverVars == <<pidFile, server, previous, raced, built, loaded, warmed, kills>>

Stays == UNCHANGED <<raced, built, loaded, warmed, kills>>
Is(s, pc) == server[s] = pc
Turns(s, pc) == server' = [server EXCEPT ![s] = pc]

Live == { s \in Server : server[s] \notin {"off", "gone"} }
Starting == { s \in Server : server[s] \in {"read", "reap", "empty", "write"} }
Serving == { s \in Server : server[s] \in {"serve", "first", "exit", "unlink"} }

ServerInit ==
    /\ pidFile = NoServer /\ server = [s \in Server |-> "off"]
    /\ previous = [s \in Server |-> NoServer]
    /\ raced = FALSE /\ built \in BOOLEAN /\ loaded = {} /\ warmed = {} /\ kills = 0

\* main, up to _prepare_stdio_runtime.
StartServer(s) ==
    /\ Is(s, "off") /\ Turns(s, "read")
    /\ raced' = (raced \/ Starting # {})
    /\ UNCHANGED <<pidFile, previous, built, loaded, warmed, kills>>

\* _read_backend_pid: nothing valid is nobody.
ReadPid(s) ==
    /\ Is(s, "read") /\ Turns(s, "reap")
    /\ previous' = [previous EXCEPT ![s] = IF pidFile = "empty" THEN NoServer ELSE pidFile]
    /\ UNCHANGED pidFile /\ Stays

\* Mutant: the server the file names is left alone.
Reaped_None(s) == {}

\* _pid_matches_backend_server: whom the new server has to terminate.
Reaped(s) == Live \cap {previous[s]}

\* _terminate_backend_pid: SIGTERM, and SIGKILL when it is not gone by then.
Reap(s) ==
    /\ Is(s, "reap")
    /\ server' = [t \in Server |-> IF t = s THEN "empty"
                                   ELSE IF t \in Reaped(s) THEN "gone" ELSE server[t]]
    /\ UNCHANGED <<pidFile, previous>> /\ Stays

\* The pid file is emptied and filled.
WritePid(s) ==
    /\ \/ Is(s, "empty") /\ pidFile' = "empty" /\ Turns(s, "write")
       \/ Is(s, "write") /\ pidFile' = s /\ Turns(s, "serve")
    /\ UNCHANGED previous /\ Stays

\* A request: the index is looked for once, and built when it is not there.
Request(s) ==
    /\ Is(s, "serve") /\ s \notin loaded
    /\ IF built THEN loaded' = loaded \cup {s} /\ UNCHANGED server
       ELSE Turns(s, "first") /\ UNCHANGED loaded
    /\ UNCHANGED <<pidFile, previous, raced, built, warmed, kills>>

BuildIndex(s) ==
    /\ Is(s, "first")
    /\ Turns(s, "serve")
    /\ \/ built' = TRUE /\ loaded' = loaded \cup {s}
       \/ UNCHANGED <<built, loaded>>
    /\ UNCHANGED <<pidFile, previous, raced, warmed, kills>>

\* The warmup tool: the index first, then once per server the model and a query.
Warmup(s) ==
    /\ Is(s, "serve") /\ s \in loaded \ warmed
    /\ warmed' = warmed \cup {s}
    /\ UNCHANGED <<pidFile, server, previous, raced, built, loaded, kills>>

\* The launcher closes the pipe: the exit handler reads the file, and then
\* removes it.
Exit(s) ==
    /\ Is(s, "serve")
    /\ Turns(s, "exit")
    /\ UNCHANGED <<pidFile, previous>> /\ Stays

OwnFile(s) == pidFile = s

Cleanup(s) ==
    /\ \/ Is(s, "exit") /\ OwnFile(s) /\ Turns(s, "unlink") /\ UNCHANGED pidFile
       \/ Is(s, "exit") /\ ~OwnFile(s) /\ Turns(s, "gone") /\ UNCHANGED pidFile
       \/ Is(s, "unlink") /\ pidFile' = NoServer /\ Turns(s, "gone")
    /\ UNCHANGED previous /\ Stays

\* Killed, the server leaves its file behind.
KillServer(s) ==
    /\ s \in Live /\ kills < MaxKills /\ kills' = kills + 1
    /\ Turns(s, "gone")
    /\ UNCHANGED <<pidFile, previous, raced, built, loaded, warmed>>

ServerNext ==
    \E s \in Server :
        StartServer(s) \/ ReadPid(s) \/ Reap(s) \/ WritePid(s) \/ Request(s) \/ BuildIndex(s)
           \/ Warmup(s) \/ Exit(s) \/ Cleanup(s) \/ KillServer(s)

\* As long as no two servers of a launcher ever started at the same time,
\* whatever was killed, one server runs at most, and the pid file names it.
OneServerPerLauncher ==
    ~raced => /\ Cardinality(Serving) <= 1
              /\ \A s \in Server : Is(s, "serve") => pidFile = s

\* What the pid file is for.
ServersAreTracked == \A s \in Server : Is(s, "serve") => pidFile = s
===============================================================================
