------------------------------ MODULE RerankDaemon ------------------------------
(***************************************************************************)
(* The reranker daemon of read-code: the client that looks for it, starts  *)
(* it under a startup lock and stops it (scripts/read_code.py), and the    *)
(* daemon, which takes the socket, warms its model and writes its pid      *)
(* (src/mcp_codebase/index/reranker_daemon.py).  Without launchd.          *)
(***************************************************************************)
EXTENDS Integers, FiniteSets

CONSTANTS
    NoDaemon,
    Client,        \* read_code processes
    Daemon,        \* daemon processes; each is started at most once
    MaxSpoils      \* bound on the timeouts, the deaths and the stops

ASSUME RerankDaemonAssumption ==
    /\ IsFiniteSet(Daemon) /\ NoDaemon \notin Client \cup Daemon
    /\ MaxSpoils \in Nat

VARIABLES
    pid,           \* daemon.pid: a daemon, or NoDaemon
    socket,        \* who listens at the socket's path, or NoDaemon
    endpoint,      \* endpoint.json: "uds", "tcp", or NoDaemon
    port,          \* who listens at the port, or NoDaemon
    failure,       \* the failure marker: "recent", "old", or NoDaemon
    flock,         \* who holds the startup lock, or NoDaemon
    daemon,        \* daemon[d]: "off", "boot", "warm", "warm tcp", "ready", "up", "drain", "dead"
    client,        \* client[c]: what client c is doing
    spoils, calm   \* timeouts, deaths and stops so far; whether the pid file still
                   \* tells who lives: see Spoils

daemonVars == <<pid, socket, endpoint, port, failure, flock, daemon, client, spoils, calm>>

Exists(d) == d # NoDaemon /\ daemon[d] \notin {"off", "dead"}

Files == <<pid, socket, endpoint, port>>
Count == <<spoils, calm>>
Does(c, pc) == client' = [client EXCEPT ![c] = pc]
Becomes(d, state) == daemon' = [daemon EXCEPT ![d] = state]

DaemonInit ==
    /\ pid = NoDaemon /\ socket = NoDaemon /\ endpoint = NoDaemon /\ port = NoDaemon
    /\ failure = NoDaemon /\ flock = NoDaemon
    /\ daemon = [d \in Daemon |-> "off"] /\ client = [c \in Client |-> "idle"]
    /\ spoils = 0 /\ calm = TRUE

\* A timeout, a stop, or the death of a daemon or a client.  Calm ends with a
\* timeout or a stop, and with a client that dies waiting for a daemon of no pid.
Spoils(harmless) ==
    /\ spoils < MaxSpoils /\ spoils' = spoils + 1
    /\ calm' = (calm /\ harmless)

(***************************************************************************)
(* The daemon.                                                             *)
(***************************************************************************)
\* main: the socket's path is freed, whoever listens there, and the endpoint written.
Boot(d) ==
    /\ daemon[d] = "boot"
    /\ socket' = NoDaemon /\ endpoint' = "uds"
    /\ Becomes(d, "warm")
    /\ UNCHANGED <<pid, port, failure, flock, client, Count>>

\* The startup of the application: the model is loaded, then the pid is written.
Warmed(d) ==
    /\ daemon[d] \in {"warm", "warm tcp"}
    /\ pid' = d
    /\ Becomes(d, IF daemon[d] = "warm" THEN "ready" ELSE "ready tcp")
    /\ UNCHANGED <<socket, endpoint, port, failure, flock, client, Count>>

\* After it, the server binds: at the path, taking it from whoever is there ...
Bind(d) ==
    /\ daemon[d] = "ready"
    /\ socket' = d /\ Becomes(d, "up")
    /\ UNCHANGED <<pid, endpoint, port, failure, flock, client, Count>>

\* ... or, where it may not, at the port, after the endpoint said so and the model
\* was loaded again.
Denied(d) ==
    /\ daemon[d] = "ready"
    /\ endpoint' = "tcp" /\ Becomes(d, "warm tcp")
    /\ UNCHANGED <<pid, socket, port, failure, flock, client, Count>>

BindPort(d) ==
    /\ daemon[d] = "ready tcp"
    /\ IF port = NoDaemon THEN port' = d /\ Becomes(d, "up")
       ELSE UNCHANGED port /\ Becomes(d, "drain")
    /\ UNCHANGED <<pid, socket, endpoint, failure, flock, client, Count>>

\* The shutdown of the application: whoever's pid and endpoint these are.
Shutdown(d) ==
    /\ daemon[d] = "drain"
    /\ pid' = NoDaemon /\ endpoint' = NoDaemon
    /\ Becomes(d, "dead")
    /\ UNCHANGED <<socket, port, failure, flock, client, Count>>

Unbound(d) ==
    /\ socket' = (IF socket = d THEN NoDaemon ELSE socket)
    /\ port' = (IF port = d THEN NoDaemon ELSE port)

\* Killed, or out of memory: its files stay, and nobody answers at them.
CrashDaemon(d) ==
    /\ Exists(d) /\ Spoils(TRUE)
    /\ Unbound(d) /\ Becomes(d, "dead")
    /\ UNCHANGED <<pid, endpoint, failure, flock, client>>

(***************************************************************************)
(* The client.                                                             *)
(***************************************************************************)
\* _health: the endpoint says where to ask; without one it is the socket.
Answers == IF endpoint = "tcp" THEN port ELSE socket
IsHealthy == Answers # NoDaemon

Ready(c) == Does(c, "idle") /\ failure' = NoDaemon

\* read-code daemon start; with force the cooldown is cleared first.
StartClient(c) ==
    /\ client[c] = "idle"
    /\ \E force \in BOOLEAN : failure' = IF force THEN NoDaemon ELSE failure
    /\ Does(c, "look")
    /\ UNCHANGED <<Files, flock, daemon, Count>>

\* _ensure_healthy, before the lock: a healthy daemon, or a cooldown, ends it.
Look(c) ==
    /\ client[c] = "look"
    /\ \/ IsHealthy /\ Ready(c)
       \/ ~IsHealthy /\ failure = "recent" /\ Does(c, "idle") /\ UNCHANGED failure
       \/ ~IsHealthy /\ failure # "recent" /\ Does(c, "lock") /\ UNCHANGED failure
    /\ UNCHANGED <<Files, flock, daemon, Count>>

\* Mutant: the startup lock is not waited for.
MayLock_Always(c) == TRUE

\* flock(LOCK_EX)
MayLock(c) == flock = NoDaemon

TakeLock(c) ==
    /\ client[c] = "lock" /\ MayLock(c)
    /\ flock' = c /\ Does(c, "locked")
    /\ UNCHANGED <<Files, failure, daemon, Count>>

Unlock(c) == flock' = (IF flock = c THEN NoDaemon ELSE flock)

\* _remove_stale_artifacts, when the pid names no live process.
StaleRemoved ==
    IF Exists(pid) THEN UNCHANGED Files
    ELSE pid' = NoDaemon /\ socket' = NoDaemon /\ endpoint' = NoDaemon /\ UNCHANGED port

\* Under the lock: a daemon became healthy, or lives and is waited for, or is
\* spawned; one whose files are removed goes on, out of reach.
Locked(c) ==
    /\ client[c] = "locked"
    /\ \/ IsHealthy /\ Ready(c) /\ Unlock(c) /\ UNCHANGED <<Files, daemon>>
       \/ ~IsHealthy /\ Exists(pid) /\ Does(c, "await")
             /\ UNCHANGED <<Files, failure, flock, daemon>>
       \/ ~IsHealthy /\ ~Exists(pid) /\ StaleRemoved /\ UNCHANGED <<failure, flock>>
             /\ \E d \in Daemon : daemon[d] = "off" /\ Becomes(d, "boot") /\ Does(c, "await")
       \/ ~IsHealthy /\ ~Exists(pid) /\ StaleRemoved /\ failure' = "recent" /\ Unlock(c)
             /\ Does(c, "idle") /\ UNCHANGED daemon
    /\ UNCHANGED Count

\* _wait_for_ready: it answers, or the timeout comes first.
Await(c) ==
    /\ client[c] = "await"
    /\ \/ IsHealthy /\ Ready(c) /\ UNCHANGED Count
       \/ ~IsHealthy /\ Spoils(FALSE) /\ failure' = "recent" /\ Does(c, "idle")
    /\ Unlock(c)
    /\ UNCHANGED <<Files, daemon>>

\* The client is killed or interrupted: its lock goes with it, the daemon it spawned
\* is a session of its own (start_new_session) and goes on.
Interrupted(c) ==
    /\ client[c] # "idle"
    /\ Spoils(client[c] = "await" => Exists(pid))
    /\ Does(c, "idle") /\ Unlock(c)
    /\ UNCHANGED <<Files, failure, daemon>>

\* read-code daemon stop, without the lock: SIGTERM to what the pid names ...
StopClient(c) ==
    /\ client[c] = "idle" /\ Spoils(FALSE)
    /\ IF Exists(pid)
       THEN /\ Becomes(pid, IF daemon[pid] = "up" THEN "drain" ELSE "dead")
            /\ Unbound(pid) /\ Does(c, "stop") /\ UNCHANGED <<pid, endpoint>>
       ELSE StaleRemoved /\ UNCHANGED <<daemon, client>>
    /\ UNCHANGED <<failure, flock>>

\* ... and once it is gone, or five seconds later, the files and the failure.
Stopped(c) ==
    /\ client[c] = "stop"
    /\ StaleRemoved /\ failure' = NoDaemon /\ Does(c, "idle")
    /\ UNCHANGED <<flock, daemon, Count>>

\* read_code status: a healthy daemon clears the failure.
StatusCall(c) ==
    /\ client[c] = "idle" /\ IsHealthy /\ failure # NoDaemon
    /\ failure' = NoDaemon
    /\ UNCHANGED <<Files, flock, daemon, client, Count>>

CooldownEnds ==
    /\ failure = "recent" /\ failure' = "old"
    /\ UNCHANGED <<Files, flock, daemon, client, Count>>

DaemonNext ==
    \/ \E d \in Daemon :
         Boot(d) \/ Warmed(d) \/ Bind(d) \/ Denied(d) \/ BindPort(d) \/ Shutdown(d) \/ CrashDaemon(d)
    \/ \E c \in Client :
         StartClient(c) \/ Look(c) \/ TakeLock(c) \/ Locked(c) \/ Await(c)
            \/ Interrupted(c) \/ StopClient(c) \/ Stopped(c) \/ StatusCall(c)
    \/ CooldownEnds

\* The startup lock serializes launches: none is begun while a daemon still starts.
LaunchesAreSerial == Cardinality({ d \in Daemon : daemon[d] \in {"boot", "warm"} }) <= 1

\* While no start timed out, nobody stopped the daemon and no client died waiting
\* for one that had not written its pid yet, whatever else died, one daemon lives at
\* most, and one that serves is the one its pid file names.  In the excepted case
\* the code starts a second: the startup lock ends with its holder, not with the start.
OneDaemon ==
    calm => /\ Cardinality({ d \in Daemon : Exists(d) }) <= 1
            /\ \A d \in Daemon : daemon[d] = "up" => pid = d

\* What the pid file is for: a daemon that serves can be found to be stopped.
ServingIsTracked == \A d \in Daemon : daemon[d] = "up" => pid = d
===============================================================================
