----------------------------- MODULE ServerProofs -----------------------------
(***************************************************************************)
(* Proofs about the processes read-code keeps: the stdio backend, the      *)
(* reranker daemon and the language server, for any number of servers,     *)
(* daemons, clients and callers, and any number of kills, crashes,         *)
(* timeouts and deaths.  Each invariant is inductive over the component's  *)
(* own next-state relation; ToolingProofs cites them under the whole.      *)
(***************************************************************************)
EXTENDS BackendServer, RerankDaemon, Pyright, TLAPS, FiniteSetTheorems

\* A set whose elements are all the same has one element at most.
LEMMA AtMostOne ==
    ASSUME NEW S, \A x, y \in S : x = y
    PROVE  Cardinality(S) <= 1
<1>1. CASE S = {}
  BY <1>1, FS_EmptySet
<1>2. CASE S # {}
  <2>1. PICK x : x \in S
    BY <1>2
  <2>2. S = {x}
    BY <2>1
  <2> QED BY <2>2, FS_Singleton
<1> QED BY <1>1, <1>2

(***************************************************************************)
(* The stdio backend.  The pid file is the only thing a new server knows of *)
(* its predecessor: Tracked says that it is enough while servers of one    *)
(* launcher start one after the other.                                     *)
(***************************************************************************)

ServerPC == {"off", "read", "reap", "empty", "write", "serve", "first", "exit", "unlink", "gone"}

ServerTypeOK ==
    /\ server \in [Server -> ServerPC]
    /\ previous \in [Server -> Server \cup {NoServer}]
    /\ pidFile \in Server \cup {NoServer, "empty"}
    /\ raced \in BOOLEAN

\* One server starts, what serves is what the file names, and the one that starts
\* knows of it, or has terminated it.
Tracked ==
    /\ \A s, t \in Starting : s = t
    /\ \A t \in Serving : pidFile = t
    /\ \A s \in Server, t \in Serving : Is(s, "reap") => previous[s] = t
    /\ \A s \in Server : server[s] \in {"empty", "write"} => Serving = {}

ServerInv == ServerTypeOK /\ (~raced => Tracked)

LEMMA ServerInvInit == ServerInit => ServerInv
  BY DEF ServerInit, ServerInv, ServerTypeOK, ServerPC, Tracked, Starting, Serving, Is

\* A server goes from one state to another.
LEMMA TurnsOne ==
    ASSUME ServerTypeOK, NEW s \in Server, NEW pc \in ServerPC, Turns(s, pc)
    PROVE  /\ server' \in [Server -> ServerPC] /\ server'[s] = pc
           /\ \A t \in Server : t # s => server'[t] = server[t]
  BY DEF ServerTypeOK, Turns

LEMMA StartServerInv == ASSUME ServerInv, NEW s \in Server, StartServer(s) PROVE ServerInv'
<1>1. /\ server' \in [Server -> ServerPC] /\ server'[s] = "read" /\ server[s] = "off"
      /\ \A t \in Server : t # s => server'[t] = server[t]
  BY TurnsOne DEF StartServer, ServerInv, ServerPC, Is
<1>2. UNCHANGED <<pidFile, previous>> /\ raced' = (raced \/ Starting # {})
  BY DEF StartServer
<1>3. ServerTypeOK'
  BY <1>1, <1>2 DEF ServerInv, ServerTypeOK
<1>4. ASSUME ~raced' PROVE Tracked'
  <2>1. Tracked /\ Starting = {}
    BY <1>2, <1>4 DEF ServerInv
  <2>2. Starting' = {s} /\ Serving' = Serving
    BY <1>1, <2>1 DEF Starting, Serving
  <2> QED BY <1>1, <1>2, <2>1, <2>2 DEF Tracked, Is, Starting
<1> QED BY <1>3, <1>4 DEF ServerInv

LEMMA ReadPidInv == ASSUME ServerInv, NEW s \in Server, ReadPid(s) PROVE ServerInv'
<1>1. /\ server' \in [Server -> ServerPC] /\ server'[s] = "reap" /\ server[s] = "read"
      /\ \A t \in Server : t # s => server'[t] = server[t]
  BY TurnsOne DEF ReadPid, ServerInv, ServerPC, Is
<1>2. /\ pidFile' = pidFile /\ raced' = raced
      /\ previous' = [previous EXCEPT ![s] = IF pidFile = "empty" THEN NoServer ELSE pidFile]
  BY DEF ReadPid, Stays
<1>3. ServerTypeOK'
  BY <1>1, <1>2 DEF ServerInv, ServerTypeOK
<1>4. ASSUME ~raced' PROVE Tracked'
  <2>1. Tracked
    BY <1>2, <1>4 DEF ServerInv
  <2>2. Starting' = Starting /\ Serving' = Serving /\ s \in Starting
    BY <1>1 DEF Starting, Serving
  <2>3. \A t \in Serving : previous'[s] = t
    BY <1>2, <2>1, BackendServerAssumption DEF Tracked, ServerInv, ServerTypeOK, Serving
  <2>4. \A u \in Server : Is(u, "reap")' => u = s
    BY <1>1, <2>1, <2>2 DEF Is, Tracked, Starting
  <2> QED BY <1>1, <1>2, <2>1, <2>2, <2>3, <2>4 DEF Tracked, Is
<1> QED BY <1>3, <1>4 DEF ServerInv

LEMMA ReapInv == ASSUME ServerInv, NEW s \in Server, Reap(s) PROVE ServerInv'
<1>1. /\ server[s] = "reap" /\ UNCHANGED <<pidFile, previous, raced>>
      /\ server' = [t \in Server |-> IF t = s THEN "empty"
                                     ELSE IF t \in Reaped(s) THEN "gone" ELSE server[t]]
  BY DEF Reap, Stays, Is
<1>2. ServerTypeOK'
  BY <1>1 DEF ServerInv, ServerTypeOK, ServerPC
<1>3. ASSUME ~raced' PROVE Tracked'
  <2>1. Tracked
    BY <1>1, <1>3 DEF ServerInv
  <2>2. Starting' \subseteq Starting /\ s \in Starting
    BY <1>1 DEF Starting
  <2>3. Serving' = {}
    <3> SUFFICES ASSUME NEW t \in Serving' PROVE FALSE
      OBVIOUS
    <3>1. t \in Serving /\ t # s /\ t \notin Reaped(s)
      BY <1>1 DEF Serving
    <3>2. previous[s] = t /\ t \in Live
      BY <1>1, <2>1, <3>1 DEF Tracked, Is, Serving, Live
    <3> QED BY <3>1, <3>2 DEF Reaped
  <2> QED BY <2>1, <2>2, <2>3 DEF Tracked
<1> QED BY <1>2, <1>3 DEF ServerInv

LEMMA WritePidInv == ASSUME ServerInv, NEW s \in Server, WritePid(s) PROVE ServerInv'
<1>1. CASE Is(s, "empty") /\ pidFile' = "empty" /\ Turns(s, "write")
  <2>1. /\ server' \in [Server -> ServerPC] /\ server'[s] = "write" /\ server[s] = "empty"
        /\ \A t \in Server : t # s => server'[t] = server[t]
    BY <1>1, TurnsOne DEF ServerInv, ServerPC, Is
  <2>2. UNCHANGED <<previous, raced>>
    BY DEF WritePid, Stays
  <2>3. Starting' = Starting /\ Serving' = Serving
    BY <2>1 DEF Starting, Serving
  <2> QED BY <1>1, <2>1, <2>2, <2>3 DEF ServerInv, ServerTypeOK, Tracked, Is
<1>2. CASE Is(s, "write") /\ pidFile' = s /\ Turns(s, "serve")
  <2>1. /\ server' \in [Server -> ServerPC] /\ server'[s] = "serve" /\ server[s] = "write"
        /\ \A t \in Server : t # s => server'[t] = server[t]
    BY <1>2, TurnsOne DEF ServerInv, ServerPC, Is
  <2>2. UNCHANGED <<previous, raced>>
    BY DEF WritePid, Stays
  <2>3. Starting' = Starting \ {s} /\ Serving' = Serving \cup {s} /\ s \in Starting
    BY <2>1 DEF Starting, Serving
  <2>4. ASSUME ~raced PROVE Tracked'
    <3>1. Serving = {} /\ \A t \in Starting : t = s
      BY <2>1, <2>3, <2>4 DEF ServerInv, Tracked
    <3>2. Starting' = {}
      BY <2>3, <3>1
    <3> QED BY <1>2, <2>3, <3>1, <3>2 DEF Tracked, Is, Starting
  <2> QED BY <1>2, <2>1, <2>2, <2>4 DEF ServerInv, ServerTypeOK
<1> QED BY <1>1, <1>2 DEF WritePid

\* A server that serves goes on, or is gone.
LEMMA ServingMoves ==
    ASSUME ServerInv, NEW s \in Server, NEW pc \in {"serve", "first", "exit", "unlink", "gone"},
           server[s] \in {"serve", "first", "exit", "unlink"} \/ pc = "gone",
           Turns(s, pc), UNCHANGED <<pidFile, previous, raced>>
    PROVE  ServerInv'
<1>1. /\ server' \in [Server -> ServerPC] /\ server'[s] = pc
      /\ \A t \in Server : t # s => server'[t] = server[t]
  BY TurnsOne DEF ServerInv, ServerPC
<1>2. Starting' \subseteq Starting /\ Serving' \subseteq Serving
  BY <1>1 DEF Starting, Serving
<1> QED BY <1>1, <1>2 DEF ServerInv, ServerTypeOK, Tracked, Is

LEMMA CleanupInv == ASSUME ServerInv, NEW s \in Server, Cleanup(s) PROVE ServerInv'
<1>1. UNCHANGED <<previous, raced>>
  BY DEF Cleanup, Stays
<1>2. CASE pidFile' = pidFile /\ (Turns(s, "unlink") \/ Turns(s, "gone")) /\ Is(s, "exit")
  BY <1>1, <1>2, ServingMoves DEF Is
<1>3. CASE Is(s, "unlink") /\ pidFile' = NoServer /\ Turns(s, "gone")
  <2>1. /\ server' \in [Server -> ServerPC] /\ server'[s] = "gone" /\ server[s] = "unlink"
        /\ \A t \in Server : t # s => server'[t] = server[t]
    BY <1>3, TurnsOne DEF ServerInv, ServerPC, Is
  <2>2. Starting' = Starting /\ Serving' = Serving \ {s} /\ s \in Serving
    BY <2>1 DEF Starting, Serving
  <2>3. ASSUME ~raced PROVE Tracked'
    <3>1. Serving' = {}
      BY <2>2, <2>3 DEF ServerInv, Tracked
    <3> QED BY <2>2, <2>3, <3>1 DEF ServerInv, Tracked
  <2> QED BY <1>1, <1>3, <2>1, <2>3 DEF ServerInv, ServerTypeOK
<1> QED BY <1>2, <1>3 DEF Cleanup

LEMMA ServerInvStep == ServerInv /\ [ServerNext]_serverVars => ServerInv'
<1> SUFFICES ASSUME ServerInv, [ServerNext]_serverVars PROVE ServerInv'
  OBVIOUS
<1>1. ASSUME UNCHANGED <<pidFile, server, previous, raced>> PROVE ServerInv'
  BY <1>1 DEF ServerInv, ServerTypeOK, Tracked, Starting, Serving, Is
<1>2. CASE UNCHANGED serverVars
  BY <1>1, <1>2 DEF serverVars
<1>3. ASSUME NEW s \in Server, Request(s) \/ BuildIndex(s) PROVE ServerInv'
  BY <1>1, <1>3, ServingMoves DEF Request, BuildIndex, Is
<1>4. ASSUME NEW s \in Server, Warmup(s) PROVE ServerInv'
  BY <1>1, <1>4 DEF Warmup
<1>5. ASSUME NEW s \in Server, Exit(s) PROVE ServerInv'
  BY <1>5, ServingMoves DEF Exit, Stays, Is
<1>6. ASSUME NEW s \in Server, KillServer(s) PROVE ServerInv'
  BY <1>6, ServingMoves DEF KillServer
<1>7. CASE ServerNext
  BY <1>3, <1>4, <1>5, <1>6, <1>7, StartServerInv, ReadPidInv, ReapInv, WritePidInv, CleanupInv
     DEF ServerNext
<1> QED BY <1>2, <1>7

LEMMA ServerInvOne == ServerInv => OneServerPerLauncher
<1> SUFFICES ASSUME ServerInv, ~raced
             PROVE  Cardinality(Serving) <= 1 /\ \A s \in Server : Is(s, "serve") => pidFile = s
  BY DEF OneServerPerLauncher
<1>1. \A s, t \in Serving : s = t
  BY DEF ServerInv, Tracked
<1>2. \A s \in Server : Is(s, "serve") => s \in Serving
  BY DEF Serving, Is
<1> QED BY <1>1, <1>2, AtMostOne DEF ServerInv, Tracked

(***************************************************************************)
(* The reranker daemon.  Under the startup lock a client decides on what   *)
(* the pid file and the sockets tell: DaemonKnown says that they tell of   *)
(* every daemon that lives, or that its spawner still waits for it.        *)
(***************************************************************************)

DaemonPC == {"off", "boot", "warm", "warm tcp", "ready", "ready tcp", "up", "drain", "dead"}
ClientPC == {"idle", "look", "lock", "locked", "await", "stop"}

DaemonTypeOK ==
    /\ daemon \in [Daemon -> DaemonPC]
    /\ client \in [Client -> ClientPC]
    /\ pid \in Daemon \cup {NoDaemon}
    /\ calm \in BOOLEAN

\* A daemon whose pid is not written yet, and who spawned it still waits for it.
Awaited(d) == daemon[d] \in {"boot", "warm"} /\ \E c \in Client : client[c] = "await"

\* While calm: the lock is that of who looks and waits under it, one daemon lives, it
\* is awaited or named, and who listens is up.
DaemonKnown ==
    /\ \A c \in Client : client[c] \in {"locked", "await"} => flock = c
    /\ \A c \in Client : client[c] # "stop"
    /\ \A d \in Daemon : daemon[d] # "drain"
    /\ \A d, e \in Daemon : Exists(d) /\ Exists(e) => d = e
    /\ \A d \in Daemon : socket = d \/ port = d => daemon[d] = "up"
    /\ socket \in Daemon \cup {NoDaemon} /\ port \in Daemon \cup {NoDaemon}
    /\ \A d \in Daemon : Exists(d) => Awaited(d) \/ pid = d

DaemonInv == DaemonTypeOK /\ (calm => DaemonKnown)

LEMMA DaemonInvInit == DaemonInit => DaemonInv
  BY RerankDaemonAssumption
     DEF DaemonInit, DaemonInv, DaemonTypeOK, DaemonPC, ClientPC, DaemonKnown, Exists

LEMMA BecomesOne ==
    ASSUME DaemonTypeOK, NEW d \in Daemon, NEW pc \in DaemonPC, Becomes(d, pc)
    PROVE  /\ daemon' \in [Daemon -> DaemonPC] /\ daemon'[d] = pc
           /\ \A e \in Daemon : e # d => daemon'[e] = daemon[e]
           /\ \A e \in Daemon : e # d => Exists(e)' = Exists(e)
  BY DEF DaemonTypeOK, Becomes, Exists

LEMMA DoesOne ==
    ASSUME DaemonTypeOK, NEW c \in Client, NEW pc \in ClientPC, Does(c, pc)
    PROVE  /\ client' \in [Client -> ClientPC] /\ client'[c] = pc
           /\ \A e \in Client : e # c => client'[e] = client[e]
  BY DEF DaemonTypeOK, Does

\* A daemon that lives goes on to a state in which it is awaited or named.
LEMMA DaemonMoves ==
    ASSUME DaemonInv, NEW d \in Daemon, NEW pc \in DaemonPC, Becomes(d, pc),
           Exists(d), UNCHANGED <<flock, client, calm>>, pid' \in {pid, d},
           calm => /\ pc # "drain"
                   /\ socket' \in {socket, NoDaemon} \/ (socket' = d /\ pc = "up")
                   /\ port' = port \/ (port' = d /\ pc = "up")
                   /\ socket = d \/ port = d => pc = "up"
                   /\ Exists(d)' => \/ daemon[d] \in {"boot", "warm"} /\ pc \in {"boot", "warm"}
                                           /\ pid' = pid
                                    \/ pid' = d
    PROVE  DaemonInv'
<1>1. /\ daemon' \in [Daemon -> DaemonPC] /\ daemon'[d] = pc
      /\ \A e \in Daemon : e # d => daemon'[e] = daemon[e]
      /\ \A e \in Daemon : e # d => Exists(e)' = Exists(e)
  BY BecomesOne DEF DaemonInv
<1>2. ASSUME calm PROVE DaemonKnown'
  <2>1. DaemonKnown /\ \A e \in Daemon : Exists(e)' => e = d
    BY <1>1, <1>2 DEF DaemonInv, DaemonKnown
  <2>2. \A e \in Daemon : (socket = e \/ port = e)' => daemon'[e] = "up"
    BY <1>1, <1>2, <2>1, RerankDaemonAssumption DEF DaemonKnown
  <2>3. Exists(d)' => Awaited(d)' \/ pid' = d
    <3>1. CASE daemon[d] \in {"boot", "warm"} /\ pc \in {"boot", "warm"} /\ pid' = pid
      BY <1>1, <2>1, <3>1 DEF DaemonKnown, Awaited
    <3> QED BY <1>2, <3>1
  <2>4. socket' \in Daemon \cup {NoDaemon} /\ port' \in Daemon \cup {NoDaemon}
    BY <1>2, <2>1 DEF DaemonKnown
  <2> QED BY <1>1, <1>2, <2>1, <2>2, <2>3, <2>4 DEF DaemonKnown
<1> QED BY <1>1, <1>2 DEF DaemonInv, DaemonTypeOK

\* What d knows of itself before each of its steps.
LEMMA DaemonFacts ==
    ASSUME DaemonInv, calm, NEW d \in Daemon
    PROVE  /\ socket = d \/ port = d => daemon[d] = "up"
           /\ Exists(d) /\ daemon[d] \notin {"boot", "warm"} => pid = d
           /\ Exists(d) => port \in {d, NoDaemon}
<1>1. DaemonKnown
  BY DEF DaemonInv
<1>2. ASSUME NEW e \in Daemon, port = e PROVE Exists(e)
  BY <1>1, <1>2, RerankDaemonAssumption DEF DaemonKnown, Exists
<1> QED BY <1>1, <1>2 DEF DaemonKnown, Awaited

LEMMA DaemonStepInv ==
    ASSUME DaemonInv, NEW d \in Daemon,
           Boot(d) \/ Warmed(d) \/ Bind(d) \/ Denied(d) \/ BindPort(d) \/ Shutdown(d)
             \/ CrashDaemon(d)
    PROVE  DaemonInv'
<1> USE RerankDaemonAssumption DEF DaemonPC
<1>1. CASE Boot(d)
  BY <1>1, DaemonMoves, DaemonFacts DEF Boot, Exists, Count
<1>2. CASE Warmed(d)
  BY <1>2, DaemonMoves, DaemonFacts DEF Warmed, Exists, Count
<1>3. CASE Bind(d)
  BY <1>3, DaemonMoves, DaemonFacts DEF Bind, Exists, Count
<1>4. CASE Denied(d)
  BY <1>4, DaemonMoves, DaemonFacts DEF Denied, Exists, Count
<1>5. CASE BindPort(d)
  BY <1>5, DaemonMoves, DaemonFacts DEF BindPort, Exists, Count
<1>6. CASE Shutdown(d)
  <2>1. ~calm
    BY <1>6 DEF Shutdown, DaemonInv, DaemonKnown
  <2> QED BY <1>6, <2>1, BecomesOne DEF Shutdown, DaemonInv, DaemonTypeOK, Count
<1>7. CASE CrashDaemon(d)
  <2>1. /\ daemon' \in [Daemon -> DaemonPC] /\ daemon'[d] = "dead"
        /\ \A e \in Daemon : e # d => daemon'[e] = daemon[e] /\ Exists(e)' = Exists(e)
    BY <1>7, BecomesOne DEF CrashDaemon, DaemonInv
  <2>2. /\ calm' = calm /\ UNCHANGED <<pid, flock, client>>
        /\ socket' = (IF socket = d THEN NoDaemon ELSE socket)
        /\ port' = (IF port = d THEN NoDaemon ELSE port)
    BY <1>7 DEF CrashDaemon, Spoils, Unbound, DaemonInv, DaemonTypeOK
  <2>3. ASSUME calm PROVE DaemonKnown'
    <3>1. ~Exists(d)' /\ DaemonKnown
      BY <2>1, <2>3 DEF Exists, DaemonInv
    <3> QED BY <2>1, <2>2, <3>1 DEF DaemonKnown, Awaited
  <2> QED BY <2>1, <2>2, <2>3 DEF DaemonInv, DaemonTypeOK
<1> QED BY <1>1, <1>2, <1>3, <1>4, <1>5, <1>6, <1>7

\* A client that neither holds the lock nor takes it does something else.
LEMMA ClientMoves ==
    ASSUME DaemonInv, NEW c \in Client, NEW pc \in {"idle", "look", "lock"}, Does(c, pc),
           client[c] \in {"idle", "look", "lock"}, UNCHANGED <<Files, flock, daemon, calm>>
    PROVE  DaemonInv'
<1>1. /\ client' \in [Client -> ClientPC] /\ client'[c] = pc
      /\ \A e \in Client : e # c => client'[e] = client[e]
  BY DoesOne DEF DaemonInv, ClientPC
<1> QED BY <1>1 DEF DaemonInv, DaemonTypeOK, DaemonKnown, Awaited, Exists, Files

\* Where a daemon answers, the one that lives is up.
LEMMA HealthyIsUp ==
    ASSUME DaemonInv, calm, IsHealthy, NEW d \in Daemon, Exists(d)
    PROVE  daemon[d] = "up" /\ pid = d
<1>1. PICK e \in Daemon : (socket = e \/ port = e) /\ daemon[e] = "up"
  BY RerankDaemonAssumption DEF IsHealthy, Answers, DaemonInv, DaemonKnown
<1>2. e = d
  BY <1>1, RerankDaemonAssumption DEF Exists, DaemonInv, DaemonKnown
<1> QED BY <1>1, <1>2 DEF DaemonInv, DaemonKnown, Awaited

\* The lock is let go of by a client after whom nothing has to wait.
LEMMA UnlockMoves ==
    ASSUME DaemonInv, NEW c \in Client, Does(c, "idle"), client[c] \in {"locked", "await"},
           Unlock(c), UNCHANGED <<daemon, calm, socket, port>>, pid' \in {pid, NoDaemon},
           calm => \A d \in Daemon : Exists(d) => pid' = d
    PROVE  DaemonInv'
<1>1. /\ client' \in [Client -> ClientPC] /\ client'[c] = "idle"
      /\ \A e \in Client : e # c => client'[e] = client[e]
  BY DoesOne DEF DaemonInv, ClientPC
<1>2. ASSUME calm PROVE DaemonKnown'
  <2>1. flock = c /\ \A e \in Client : e # c => client[e] \notin {"locked", "await"}
    BY <1>2 DEF DaemonInv, DaemonKnown
  <2> QED BY <1>1, <1>2, <2>1 DEF DaemonInv, DaemonKnown, Exists
<1> QED BY <1>1, <1>2 DEF DaemonInv, DaemonTypeOK

\* Under the lock, nobody waits, and nobody lives whom the pid does not name.
LEMMA LockedFacts ==
    ASSUME DaemonInv, calm, NEW c \in Client, client[c] = "locked", NEW d \in Daemon, Exists(d)
    PROVE  pid = d
<1>1. \A e \in Client : client[e] # "await"
  BY DEF DaemonInv, DaemonKnown
<1> QED BY <1>1 DEF DaemonInv, DaemonKnown, Awaited

LEMMA LockedInv == ASSUME DaemonInv, NEW c \in Client, Locked(c) PROVE DaemonInv'
<1>1. client[c] = "locked" /\ calm' = calm
  BY DEF Locked, Count
<1>2. CASE IsHealthy /\ Ready(c) /\ Unlock(c) /\ UNCHANGED <<Files, daemon>>
  BY <1>1, <1>2, UnlockMoves, HealthyIsUp DEF Ready, Files
<1>3. CASE Does(c, "await") /\ UNCHANGED <<Files, failure, flock, daemon>>
  <2>1. /\ client' \in [Client -> ClientPC] /\ client'[c] = "await"
        /\ \A e \in Client : e # c => client'[e] = client[e]
    BY <1>3, DoesOne DEF DaemonInv, ClientPC
  <2> QED BY <1>1, <1>3, <2>1 DEF DaemonInv, DaemonTypeOK, DaemonKnown, Awaited, Exists, Files
<1>4. ASSUME ~Exists(pid), StaleRemoved, UNCHANGED flock,
             NEW d \in Daemon, daemon[d] = "off", Becomes(d, "boot"), Does(c, "await")
      PROVE  DaemonInv'
  <2>1. /\ client' \in [Client -> ClientPC] /\ client'[c] = "await"
        /\ \A e \in Client : e # c => client'[e] = client[e]
    BY <1>4, DoesOne DEF DaemonInv, ClientPC
  <2>2. /\ daemon' \in [Daemon -> DaemonPC] /\ daemon'[d] = "boot"
        /\ \A e \in Daemon : e # d => daemon'[e] = daemon[e] /\ Exists(e)' = Exists(e)
    BY <1>4, BecomesOne DEF DaemonInv, DaemonPC
  <2>3. socket' = NoDaemon /\ port' = port
    BY <1>4 DEF StaleRemoved
  <2>4. ASSUME calm PROVE DaemonKnown'
    <3>1. DaemonKnown /\ \A e \in Daemon : ~Exists(e)
      BY <1>1, <1>4, <2>4, LockedFacts DEF DaemonInv
    <3>2. \A e \in Daemon : Exists(e)' => e = d
      BY <2>2, <3>1
    <3>3. Awaited(d)'
      BY <2>1, <2>2 DEF Awaited
    <3>4. \A e \in Daemon : port # e
      BY <3>1, RerankDaemonAssumption DEF DaemonKnown, Exists
    <3> QED BY <1>1, <1>4, <2>1, <2>2, <2>3, <3>1, <3>2, <3>3, <3>4, RerankDaemonAssumption
            DEF DaemonKnown
  <2> QED BY <1>1, <1>4, <2>1, <2>2, <2>4 DEF DaemonInv, DaemonTypeOK, StaleRemoved
<1>5. CASE ~Exists(pid) /\ StaleRemoved /\ Unlock(c) /\ Does(c, "idle") /\ UNCHANGED daemon
  <2>1. /\ client' \in [Client -> ClientPC] /\ client'[c] = "idle"
        /\ \A e \in Client : e # c => client'[e] = client[e]
    BY <1>5, DoesOne DEF DaemonInv, ClientPC
  <2>2. ASSUME calm PROVE DaemonKnown'
    <3>1. DaemonKnown /\ \A e \in Daemon : ~Exists(e)
      BY <1>1, <1>5, <2>2, LockedFacts DEF DaemonInv
    <3>2. socket' = NoDaemon /\ port' = port
      BY <1>5 DEF StaleRemoved
    <3>3. \A e \in Client : e # c => client[e] \notin {"locked", "await"}
      BY <1>1, <3>1 DEF DaemonKnown
    <3> QED BY <1>1, <1>5, <2>1, <3>1, <3>2, <3>3, RerankDaemonAssumption DEF DaemonKnown, Exists
  <2> QED BY <1>1, <1>5, <2>1, <2>2 DEF DaemonInv, DaemonTypeOK, StaleRemoved
<1> QED BY <1>2, <1>3, <1>4, <1>5 DEF Locked

LEMMA TakeLockInv == ASSUME DaemonInv, NEW c \in Client, TakeLock(c) PROVE DaemonInv'
<1>1. /\ client' \in [Client -> ClientPC] /\ client'[c] = "locked"
      /\ \A e \in Client : e # c => client'[e] = client[e]
  BY DoesOne DEF TakeLock, DaemonInv, ClientPC
<1>2. /\ client[c] = "lock" /\ flock = NoDaemon /\ flock' = c
      /\ UNCHANGED <<pid, socket, port, daemon, calm>>
  BY DEF TakeLock, MayLock, Files, Count
<1> QED BY <1>1, <1>2, RerankDaemonAssumption
        DEF DaemonInv, DaemonTypeOK, DaemonKnown, Awaited, Exists

LEMMA AwaitInv == ASSUME DaemonInv, NEW c \in Client, Await(c) PROVE DaemonInv'
<1>1. client[c] = "await" /\ Unlock(c) /\ UNCHANGED <<Files, daemon>> /\ Does(c, "idle")
  BY DEF Await, Ready
<1>2. CASE IsHealthy /\ UNCHANGED Count
  BY <1>1, <1>2, UnlockMoves, HealthyIsUp DEF Files, Count
<1>3. CASE Spoils(FALSE)
  BY <1>1, <1>3, DoesOne DEF Spoils, DaemonInv, DaemonTypeOK, ClientPC, Files
<1> QED BY <1>2, <1>3 DEF Await

\* A client that dies waiting leaves a daemon that its pid names, or calm is over.
LEMMA InterruptedInv == ASSUME DaemonInv, NEW c \in Client, Interrupted(c) PROVE DaemonInv'
<1>1. /\ client' \in [Client -> ClientPC] /\ client'[c] = "idle"
      /\ \A e \in Client : e # c => client'[e] = client[e]
  BY DoesOne DEF Interrupted, DaemonInv, ClientPC
<1>2. /\ calm' = (calm /\ (client[c] = "await" => Exists(pid)))
      /\ Unlock(c) /\ UNCHANGED <<pid, socket, port, daemon>>
  BY DEF Interrupted, Spoils, Files
<1>3. CASE calm /\ client[c] \in {"locked", "await"}
  <2>1. flock = c /\ \A e \in Client : e # c => client[e] \notin {"locked", "await"}
    BY <1>3 DEF DaemonInv, DaemonKnown
  <2>2. ASSUME calm', NEW d \in Daemon, Exists(d) PROVE pid = d
    <3>1. CASE client[c] = "locked"
      BY <1>3, <2>2, <3>1, LockedFacts
    <3>2. CASE client[c] = "await"
      <4>1. Exists(pid)
        BY <1>2, <2>2, <3>2
      <4>2. pid \in Daemon
        BY <4>1 DEF DaemonInv, DaemonTypeOK, Exists
      <4> QED BY <1>3, <2>2, <4>1, <4>2 DEF DaemonInv, DaemonKnown
    <3> QED BY <1>3, <3>1, <3>2
  <2>3. ASSUME calm' PROVE DaemonKnown'
    BY <1>1, <1>2, <1>3, <2>1, <2>2, <2>3 DEF DaemonInv, DaemonKnown, Exists
  <2> QED BY <1>1, <1>2, <1>3, <2>3 DEF DaemonInv, DaemonTypeOK
<1>4. CASE calm /\ client[c] \notin {"locked", "await"}
  <2>1. DaemonKnown
    BY <1>4 DEF DaemonInv
  <2>2. \A d \in Daemon : Awaited(d) => Awaited(d)'
    BY <1>1, <1>2, <1>4 DEF Awaited
  <2>3. \A e \in Client : client'[e] \in {"locked", "await"} => flock' = e
    BY <1>1, <1>2, <1>4, <2>1 DEF DaemonKnown, Unlock
  <2> QED BY <1>1, <1>2, <1>4, <2>1, <2>2, <2>3 DEF DaemonInv, DaemonTypeOK, DaemonKnown, Exists
<1>5. CASE ~calm
  BY <1>1, <1>2, <1>5 DEF DaemonInv, DaemonTypeOK
<1> QED BY <1>3, <1>4, <1>5

LEMMA StopClientInv == ASSUME DaemonInv, NEW c \in Client, StopClient(c) PROVE DaemonInv'
<1>1. calm' = FALSE
  BY DEF StopClient, Spoils
<1>2. CASE Exists(pid)
  <2>1. pid \in Daemon => daemon' \in [Daemon -> DaemonPC]
    BY <1>2 DEF StopClient, Becomes, DaemonInv, DaemonTypeOK, DaemonPC
  <2>2. pid \notin Daemon => daemon' \in [Daemon -> DaemonPC]
    BY <1>2 DEF StopClient, Becomes, DaemonInv, DaemonTypeOK
  <2>3. client' \in [Client -> ClientPC]
    BY <1>2, DoesOne DEF StopClient, DaemonInv, ClientPC
  <2>4. pid' = pid
    BY <1>2 DEF StopClient
  <2> QED BY <1>1, <2>1, <2>2, <2>3, <2>4 DEF DaemonInv, DaemonTypeOK
<1>3. CASE ~Exists(pid)
  BY <1>1, <1>3 DEF StopClient, DaemonInv, DaemonTypeOK, StaleRemoved
<1> QED BY <1>2, <1>3

LEMMA StoppedInv == ASSUME DaemonInv, NEW c \in Client, Stopped(c) PROVE DaemonInv'
<1>1. ~calm /\ calm' = calm /\ daemon' = daemon
  BY DEF Stopped, DaemonInv, DaemonKnown, Count
<1> QED BY <1>1, DoesOne DEF Stopped, StaleRemoved, Files, DaemonInv, DaemonTypeOK, ClientPC

LEMMA DaemonInvStep == DaemonInv /\ [DaemonNext]_daemonVars => DaemonInv'
<1> SUFFICES ASSUME DaemonInv, [DaemonNext]_daemonVars PROVE DaemonInv'
  OBVIOUS
<1>1. ASSUME UNCHANGED <<pid, socket, port, flock, daemon, client, calm>> PROVE DaemonInv'
  BY <1>1 DEF DaemonInv, DaemonTypeOK, DaemonKnown, Awaited, Exists
<1>2. CASE UNCHANGED daemonVars \/ CooldownEnds
  BY <1>1, <1>2 DEF daemonVars, CooldownEnds, Files, Count
<1>3. ASSUME NEW c \in Client, StatusCall(c) PROVE DaemonInv'
  BY <1>1, <1>3 DEF StatusCall, Files, Count
<1>4. ASSUME NEW c \in Client, StartClient(c) \/ Look(c) PROVE DaemonInv'
  BY <1>4, ClientMoves DEF StartClient, Look, Ready, Count
<1>5. CASE DaemonNext
  BY <1>2, <1>3, <1>4, <1>5, DaemonStepInv, TakeLockInv, LockedInv, AwaitInv, InterruptedInv,
     StopClientInv, StoppedInv DEF DaemonNext
<1> QED BY <1>2, <1>5

LEMMA DaemonInvOne == DaemonInv => OneDaemon
<1> SUFFICES ASSUME DaemonInv, calm
             PROVE  /\ Cardinality({ d \in Daemon : Exists(d) }) <= 1
                    /\ \A d \in Daemon : daemon[d] = "up" => pid = d
  BY DEF OneDaemon
<1>1. \A d, e \in { x \in Daemon : Exists(x) } : d = e
  BY DEF DaemonInv, DaemonKnown
<1>2. \A d \in Daemon : daemon[d] = "up" => pid = d
  BY RerankDaemonAssumption DEF DaemonInv, DaemonKnown, Awaited, Exists
<1> QED BY <1>1, <1>2, AtMostOne

(***************************************************************************)
(* The language server.  Cardinality(live) <= 1 is kept because who spawns *)
(* has killed before, nobody else is about to spawn, and what failed to    *)
(* start never starts again.                                               *)
(***************************************************************************)

Caller == Asker \cup {Host}
CallPC == {"idle", "spawn", "init", "cancel", "kill", "open", "ask", "wait", "bye", "exit"}
CallState == [pc : CallPC, next : {"idle", "start", "failed", "stopped"},
              got : {"none", "ok", "error", "lost"}]
LspState == [state : {"not_started", "starting", "restarting", "ready", "error", "shutdown"},
             restarts : Nat, proc : Nat]

PyrightTypeOK ==
    /\ lsp \in LspState
    /\ call \in [Caller -> CallState]

\* A caller that starts the child or will, and one whose start failed.
AtKill(c) == call[c].pc \in {"cancel", "kill"}
Starter(c) == call[c].pc \in {"spawn", "init"} \/ (AtKill(c) /\ call[c].next = "start")
Failing(c) == AtKill(c) /\ call[c].next = "failed"

PyrightInv ==
    /\ PyrightTypeOK
    /\ live \subseteq {lsp.proc}
    /\ exited \subseteq 0 .. lsp.proc /\ live \cap exited = {}
    /\ lsp.state = "not_started" => live = {}
    /\ \A c, d \in Caller : Starter(c) /\ Starter(d) => c = d
    /\ \A c \in Caller : Starter(c) => lsp.state \in {"starting", "restarting", "shutdown"}
    /\ \A c \in Caller : call[c].pc = "spawn" => live = {}
    /\ \A c \in Caller : Failing(c) =>
         lsp.state \in {"error", "shutdown"} /\ \A d \in Caller : ~Starter(d)
    /\ lsp.state = "error" /\ live # {} => \E c \in Caller : AtKill(c)

LEMMA PyrightInvInit == PyrightInit => PyrightInv
<1> SUFFICES ASSUME PyrightInit PROVE PyrightInv
  OBVIOUS
<1>1. lsp \in LspState /\ lsp.state = "not_started" /\ lsp.proc = 0
  BY DEF PyrightInit, LspState
<1>2. NoCall \in CallState /\ NoCall.pc = "idle"
  BY DEF NoCall, CallState, CallPC
<1>3. call \in [Caller -> CallState] /\ \A c \in Caller : call[c].pc = "idle"
  BY <1>2 DEF PyrightInit, Caller
<1>4. \A c \in Caller : ~Starter(c) /\ ~Failing(c)
  BY <1>3 DEF Starter, Failing, AtKill
<1> QED BY <1>1, <1>3, <1>4 DEF PyrightInv, PyrightTypeOK, PyrightInit

(***************************************************************************)
(* What the operators of the model do to the state of one caller.          *)
(***************************************************************************)
LEMMA CallFields ==
    ASSUME NEW s \in CallState
    PROVE  /\ s.pc \in CallPC /\ s.next \in {"idle", "start", "failed", "stopped"}
           /\ s.got \in {"none", "ok", "error", "lost"}
  BY DEF CallState

\* The caller goes to another state.
Shifts(c, s) ==
    /\ call' \in [Caller -> CallState] /\ call'[c] = s
    /\ \A d \in Caller : d # c => call'[d] = call[d]

LEMMA StepsTo ==
    ASSUME PyrightTypeOK, NEW c \in Caller, NEW pc \in CallPC, Steps(c, pc)
    PROVE  \E s \in CallState : Shifts(c, s) /\ s.pc = pc
<1> DEFINE s == [[call[c] EXCEPT !.pc = pc] EXCEPT !.got = "none"]
<1>1. call[c] \in CallState
  BY DEF PyrightTypeOK
<1>2. s \in CallState /\ s.pc = pc
  BY <1>1 DEF CallState
<1>3. call' = [call EXCEPT ![c] = s]
  BY DEF Steps, PyrightTypeOK
<1> HIDE DEF s
<1> QED BY <1>2, <1>3 DEF PyrightTypeOK, Shifts

LEMMA NoCallState == NoCall \in CallState /\ NoCall.pc = "idle" /\ NoCall.next = "idle"
  BY DEF NoCall, CallState, CallPC

LEMMA EndsTo ==
    ASSUME PyrightTypeOK, NEW c \in Caller, Ends(c)
    PROVE  \E s \in CallState : Shifts(c, s) /\ s.pc = "idle"
  BY NoCallState DEF PyrightTypeOK, Ends, Shifts

LEMMA KillingTo ==
    ASSUME PyrightTypeOK, NEW c \in Caller, NEW next \in {"start", "failed", "stopped"},
           Killing(c, next)
    PROVE  \E s \in CallState :
              Shifts(c, s) /\ s.pc \in {"cancel", "kill"} /\ s.next = next
<1> DEFINE s == [NoCall EXCEPT !.pc = IF listening THEN "cancel" ELSE "kill", !.next = next]
<1>1. s \in CallState /\ s.pc \in {"cancel", "kill"} /\ s.next = next
  BY DEF NoCall, CallState, CallPC
<1>2. call' = [call EXCEPT ![c] = s]
  BY DEF Killing
<1> HIDE DEF s
<1> QED BY <1>1, <1>2 DEF PyrightTypeOK, Shifts

LEMMA BecomingTo ==
    ASSUME PyrightTypeOK,
           NEW state \in {"starting", "restarting", "ready", "error", "shutdown"}, Becoming(state)
    PROVE  lsp' \in LspState /\ lsp'.state = state /\ lsp'.proc = lsp.proc
  BY DEF PyrightTypeOK, LspState, Becoming

LEMMA RestartsTo ==
    ASSUME PyrightTypeOK, NEW state \in {"restarting", "error"},
           lsp' = [lsp EXCEPT !.restarts = @ + 1, !.state = state]
    PROVE  lsp' \in LspState /\ lsp'.state = state /\ lsp'.proc = lsp.proc
<1> DEFINE n == lsp.restarts + 1
<1>1. lsp \in LspState /\ lsp.restarts \in Nat
  BY DEF PyrightTypeOK, LspState
<1>2. n \in Nat
  BY <1>1
<1>3. lsp' = [lsp EXCEPT !.restarts = n, !.state = state]
  OBVIOUS
<1> HIDE DEF n
<1> QED BY <1>1, <1>2, <1>3 DEF LspState

LEMMA StartPyrightInv == ASSUME PyrightInv, StartPyright PROVE PyrightInv'
<1>1. Host \in Caller
  BY DEF Caller
<1>2. PICK s \in CallState : Shifts(Host, s) /\ s.pc = "spawn"
  BY <1>1, StepsTo DEF StartPyright, PyrightInv, CallPC
<1>3. lsp' \in LspState /\ lsp'.state = "starting" /\ lsp'.proc = lsp.proc
  BY BecomingTo DEF StartPyright, PyrightInv
<1>4. lsp.state = "not_started" /\ live' = live /\ exited' = exited
  BY DEF StartPyright, Children
<1> QED BY <1>1, <1>2, <1>3, <1>4
        DEF PyrightInv, PyrightTypeOK, Shifts, Starter, Failing, AtKill

LEMMA SpawnInv == ASSUME PyrightInv, NEW c \in Caller, Spawn(c) PROVE PyrightInv'
<1>1. call[c].pc = "spawn" /\ exited' = exited
  BY DEF Spawn, At, Children, Caller
<1>2. /\ live = {} /\ Starter(c) /\ \A d \in Caller : Starter(d) => d = c
      /\ lsp.state \in {"starting", "restarting", "shutdown"}
      /\ \A d \in Caller : ~Failing(d)
  BY <1>1 DEF PyrightInv, Starter
<1>3. CASE /\ lsp' = [lsp EXCEPT !.proc = @ + 1] /\ live' = live \cup {lsp.proc + 1}
           /\ Steps(c, "init")
  <2>1. PICK s \in CallState : Shifts(c, s) /\ s.pc = "init"
    BY <1>3, StepsTo DEF PyrightInv, CallPC
  <2>2. /\ lsp' \in LspState /\ lsp'.state = lsp.state /\ lsp'.proc = lsp.proc + 1
        /\ lsp.proc \in Nat
    BY <1>3 DEF PyrightInv, PyrightTypeOK, LspState
  <2>3. live' = {lsp.proc + 1}
    BY <1>2, <1>3
  <2>4. exited' \subseteq 0 .. lsp'.proc /\ live' \cap exited' = {}
    BY <1>1, <2>2, <2>3 DEF PyrightInv
  <2> QED BY <1>1, <1>2, <2>1, <2>2, <2>3, <2>4
          DEF PyrightInv, PyrightTypeOK, Shifts, Starter, Failing, AtKill
<1>4. CASE Becoming("error") /\ Killing(c, "failed") /\ live' = live
  <2>1. PICK s \in CallState : Shifts(c, s) /\ s.pc \in {"cancel", "kill"} /\ s.next = "failed"
    BY <1>4, KillingTo DEF PyrightInv
  <2>2. lsp' \in LspState /\ lsp'.state = "error" /\ lsp'.proc = lsp.proc
    BY <1>4, BecomingTo DEF PyrightInv
  <2> QED BY <1>1, <1>2, <1>4, <2>1, <2>2
          DEF PyrightInv, PyrightTypeOK, Shifts, Starter, Failing, AtKill
<1> QED BY <1>3, <1>4 DEF Spawn

LEMMA InitializedInv == ASSUME PyrightInv, NEW c \in Caller, Initialized(c) PROVE PyrightInv'
<1>1. call[c].pc = "init" /\ live' = live /\ exited' = exited
  BY DEF Initialized, At, Children, Caller
<1>2. PICK s \in CallState : Shifts(c, s) /\ s.pc \in {"idle", "open"}
  BY StepsTo, EndsTo DEF Initialized, PyrightInv, CallPC
<1>3. lsp' \in LspState /\ lsp'.state = "ready" /\ lsp'.proc = lsp.proc
  BY BecomingTo DEF Initialized, PyrightInv
<1>4. \A d \in Caller : ~Failing(d) /\ (Starter(d) => d = c)
  BY <1>1 DEF PyrightInv, Starter
<1> QED BY <1>1, <1>2, <1>3, <1>4
        DEF PyrightInv, PyrightTypeOK, Shifts, Starter, Failing, AtKill

LEMMA StartFailsInv == ASSUME PyrightInv, NEW c \in Caller, StartFails(c) PROVE PyrightInv'
<1>1. call[c].pc = "init" /\ live' = live /\ exited' = exited
  BY DEF StartFails, At, Children, Caller
<1>2. PICK s \in CallState : Shifts(c, s) /\ s.pc \in {"cancel", "kill"} /\ s.next = "failed"
  BY KillingTo DEF StartFails, PyrightInv
<1>3. lsp' \in LspState /\ lsp'.state = "error" /\ lsp'.proc = lsp.proc
  BY BecomingTo DEF StartFails, PyrightInv
<1>4. \A d \in Caller : ~Failing(d) /\ (Starter(d) => d = c)
  BY <1>1 DEF PyrightInv, Starter
<1> QED BY <1>1, <1>2, <1>3, <1>4
        DEF PyrightInv, PyrightTypeOK, Shifts, Starter, Failing, AtKill

\* The reader's end tells those who wait, and moves nobody.
LEMMA ReaderTells ==
    ASSUME NEW calls \in [Caller -> CallState], ReaderDone(calls)
    PROVE  /\ call' \in [Caller -> CallState]
           /\ \A d \in Caller : call'[d].pc = calls[d].pc /\ call'[d].next = calls[d].next
<1>1. call' = [d \in Caller |-> IF d \in pending THEN [calls[d] EXCEPT !.got = "lost"] ELSE calls[d]]
  BY DEF ReaderDone
<1>2. ASSUME NEW d \in Caller
      PROVE  /\ [calls[d] EXCEPT !.got = "lost"] \in CallState
             /\ [calls[d] EXCEPT !.got = "lost"].pc = calls[d].pc
             /\ [calls[d] EXCEPT !.got = "lost"].next = calls[d].next
  <2>1. calls[d] \in CallState
    OBVIOUS
  <2> QED BY <2>1 DEF CallState
<1> QED BY <1>1, <1>2

\* Where nobody moves but from cancelling to killing, nothing else changes.
LEMMA NobodyMoves ==
    ASSUME PyrightInv, call' \in [Caller -> CallState],
           lsp' = lsp, live' \subseteq live, exited' \subseteq 0 .. lsp.proc,
           live' \cap exited' = {},
           \A d \in Caller : call'[d].next = call[d].next,
           \A d \in Caller : \/ call'[d].pc = call[d].pc
                             \/ call[d].pc = "cancel" /\ call'[d].pc = "kill"
    PROVE  PyrightInv'
<1>1. \A d \in Caller : /\ AtKill(d)' = AtKill(d) /\ Starter(d)' = Starter(d)
                        /\ Failing(d)' = Failing(d)
  BY DEF AtKill, Starter, Failing
<1> QED BY <1>1 DEF PyrightInv, PyrightTypeOK

LEMMA CancelReaderInv == ASSUME PyrightInv, NEW c \in Caller, CancelReader(c) PROVE PyrightInv'
<1> DEFINE s == [call[c] EXCEPT !.pc = "kill"]
           calls == [call EXCEPT ![c] = s]
<1>1. call[c].pc = "cancel" /\ ReaderDone(calls) /\ UNCHANGED <<lsp, live, exited>>
  BY DEF CancelReader, At, Children, Caller
<1>2. s \in CallState /\ s.pc = "kill" /\ s.next = call[c].next
  <2>1. call[c] \in CallState
    BY DEF PyrightInv, PyrightTypeOK
  <2> QED BY <2>1 DEF CallState, CallPC
<1> HIDE DEF s
<1>3. /\ calls \in [Caller -> CallState] /\ calls[c] = s
      /\ \A d \in Caller : d # c => calls[d] = call[d]
  BY <1>2 DEF PyrightInv, PyrightTypeOK
<1> HIDE DEF calls
<1>4. /\ call' \in [Caller -> CallState]
      /\ \A d \in Caller : call'[d].pc = calls[d].pc /\ call'[d].next = calls[d].next
  BY <1>1, <1>3, ReaderTells
<1>5. \A d \in Caller : /\ call'[d].next = call[d].next
                        /\ \/ call'[d].pc = call[d].pc
                           \/ call[d].pc = "cancel" /\ call'[d].pc = "kill"
  BY <1>1, <1>2, <1>3, <1>4
<1> QED BY <1>1, <1>4, <1>5, NobodyMoves DEF PyrightInv

LEMMA ReaderEndsInv == ASSUME PyrightInv, ReaderEnds PROVE PyrightInv'
<1>1. ReaderDone(call) /\ UNCHANGED <<lsp, live, exited>> /\ call \in [Caller -> CallState]
  BY DEF ReaderEnds, Children, PyrightInv, PyrightTypeOK
<1>2. /\ call' \in [Caller -> CallState]
      /\ \A d \in Caller : call'[d].pc = call[d].pc /\ call'[d].next = call[d].next
  BY <1>1, ReaderTells
<1> QED BY <1>1, <1>2, NobodyMoves DEF PyrightInv

LEMMA AnswerInv == ASSUME PyrightInv, NEW c \in Caller, Answer(c) PROVE PyrightInv'
<1>1. PICK got \in {"ok", "error"} : call' = [call EXCEPT ![c].got = got]
  BY DEF Answer
<1> DEFINE s == [call[c] EXCEPT !.got = got]
<1>2. s \in CallState /\ s.pc = call[c].pc /\ s.next = call[c].next
  <2>1. call[c] \in CallState
    BY DEF PyrightInv, PyrightTypeOK
  <2> QED BY <2>1 DEF CallState
<1>3. call' = [call EXCEPT ![c] = s]
  BY <1>1
<1> HIDE DEF s
<1>4. call' \in [Caller -> CallState]
      /\ \A d \in Caller : call'[d].pc = call[d].pc /\ call'[d].next = call[d].next
  BY <1>2, <1>3 DEF PyrightInv, PyrightTypeOK
<1>5. UNCHANGED <<lsp, live, exited>>
  BY DEF Answer, Children
<1> QED BY <1>4, <1>5, NobodyMoves DEF PyrightInv

LEMMA DiesInv == ASSUME PyrightInv, Dies PROVE PyrightInv'
  BY NobodyMoves DEF Dies, PyrightInv, PyrightTypeOK

LEMMA NoticedInv == ASSUME PyrightInv, Noticed PROVE PyrightInv'
<1>1. /\ exited' = exited \cup {lsp.proc} /\ lsp.proc \notin live
      /\ UNCHANGED <<lsp, live, call>> /\ lsp.proc \in Nat
  BY DEF Noticed, PyrightInv, PyrightTypeOK, LspState
<1>2. lsp.proc \in 0 .. lsp.proc
  BY <1>1
<1>3. exited' \subseteq 0 .. lsp.proc /\ live' \cap exited' = {}
  BY <1>1, <1>2 DEF PyrightInv
<1> QED BY <1>1, <1>3, NobodyMoves DEF PyrightInv, PyrightTypeOK

\* A caller goes on that neither starts nor kills, before or after.
LEMMA BystanderMoves ==
    ASSUME PyrightInv, NEW c \in Caller, NEW s \in CallState, Shifts(c, s),
           ~Starter(c), ~AtKill(c),
           s.pc \notin {"spawn", "init", "cancel", "kill"}, lsp' = lsp, live' \subseteq live,
           exited' \subseteq 0 .. lsp.proc, live' \cap exited' = {}
    PROVE  PyrightInv'
<1>1. ~Starter(c)' /\ ~Failing(c)' /\ ~AtKill(c)'
  BY DEF Starter, Failing, AtKill, Shifts
<1>2. \A d \in Caller : d # c => /\ AtKill(d)' = AtKill(d) /\ Starter(d)' = Starter(d)
                                 /\ Failing(d)' = Failing(d)
  BY DEF AtKill, Starter, Failing, Shifts
<1> QED BY <1>1, <1>2 DEF PyrightInv, PyrightTypeOK, Shifts

LEMMA HoverPathInv ==
    ASSUME PyrightInv, NEW c \in Caller, Open(c) \/ Ask(c) \/ HoverEnds(c)
    PROVE  PyrightInv'
<1>1. call[c].pc \in {"open", "ask", "wait"} /\ UNCHANGED <<lsp, live, exited>>
  BY DEF Open, Ask, HoverEnds, At, Children, Caller
<1>2. ~Starter(c) /\ ~AtKill(c)
  BY <1>1 DEF Starter, AtKill
<1>3. PICK s \in CallState : Shifts(c, s) /\ s.pc \in {"idle", "ask", "wait"}
  BY StepsTo, EndsTo DEF Open, Ask, HoverEnds, Sends, PyrightInv, CallPC
<1> QED BY <1>1, <1>2, <1>3, BystanderMoves DEF PyrightInv

LEMMA ByeAnsweredInv == ASSUME PyrightInv, ByeAnswered PROVE PyrightInv'
<1>1. Host \in Caller /\ call[Host].pc = "bye" /\ UNCHANGED <<lsp, live, exited>>
  BY DEF ByeAnswered, At, Children, Caller
<1>2. ~Starter(Host) /\ ~AtKill(Host)
  BY <1>1 DEF Starter, AtKill
<1>3. PICK s \in CallState : Shifts(Host, s) /\ s.pc = "exit"
  BY <1>1, StepsTo DEF ByeAnswered, PyrightInv, CallPC
<1> QED BY <1>1, <1>2, <1>3, BystanderMoves DEF PyrightInv

LEMMA ExitSeenInv == ASSUME PyrightInv, ExitSeen PROVE PyrightInv'
<1>1. /\ Host \in Caller /\ call[Host].pc = "exit" /\ lsp' = lsp
      /\ live' = live \ {lsp.proc} /\ exited' = exited \cup {lsp.proc} /\ lsp.proc \in Nat
  BY DEF ExitSeen, At, Caller, PyrightInv, PyrightTypeOK, LspState
<1>2. ~Starter(Host) /\ ~AtKill(Host)
  BY <1>1 DEF Starter, AtKill
<1>3. PICK s \in CallState : Shifts(Host, s) /\ s.pc = "idle"
  BY <1>1, EndsTo DEF ExitSeen, PyrightInv
<1>4. lsp.proc \in 0 .. lsp.proc
  BY <1>1
<1>5. live' \subseteq live /\ exited' \subseteq 0 .. lsp.proc /\ live' \cap exited' = {}
  BY <1>1, <1>4 DEF PyrightInv
<1> QED BY <1>1, <1>2, <1>3, <1>5, BystanderMoves

LEMMA ByeFailsInv == ASSUME PyrightInv, ByeFails PROVE PyrightInv'
<1>1. /\ Host \in Caller /\ call[Host].pc \in {"bye", "exit"}
      /\ UNCHANGED <<lsp, live, exited>>
  BY DEF ByeFails, At, Children, Caller
<1>2. ~Starter(Host) /\ ~AtKill(Host)
  BY <1>1 DEF Starter, AtKill
<1>3. PICK s \in CallState :
        Shifts(Host, s) /\ s.pc \in {"cancel", "kill"} /\ s.next = "stopped"
  BY <1>1, KillingTo DEF ByeFails, PyrightInv
<1>4. ~Starter(Host)' /\ ~Failing(Host)'
  BY <1>3 DEF Starter, Failing, AtKill, Shifts
<1>5. \A d \in Caller : d # Host => /\ AtKill(d)' = AtKill(d) /\ Starter(d)' = Starter(d)
                                    /\ Failing(d)' = Failing(d)
  BY <1>3 DEF AtKill, Starter, Failing, Shifts
<1> QED BY <1>1, <1>2, <1>3, <1>4, <1>5 DEF PyrightInv, PyrightTypeOK, Shifts

LEMMA StopInv == ASSUME PyrightInv, Stop PROVE PyrightInv'
<1>1. /\ Host \in Caller /\ call[Host].pc = "idle" /\ live' = live /\ exited' = exited
      /\ lsp.state # "not_started"
  BY DEF Stop, At, Children, Caller
<1>2. ~Starter(Host) /\ ~AtKill(Host)
  BY <1>1 DEF Starter, AtKill
<1>3. lsp' \in LspState /\ lsp'.state = "shutdown" /\ lsp'.proc = lsp.proc
  BY BecomingTo DEF Stop, PyrightInv
<1>4. PICK s \in CallState :
        /\ Shifts(Host, s)
        /\ s.pc = "bye" \/ (s.pc \in {"cancel", "kill"} /\ s.next = "stopped")
  <2>1. CASE Sends(Host, "bye")
    BY <1>1, <2>1, StepsTo DEF Sends, PyrightInv, CallPC
  <2>2. CASE Killing(Host, "stopped")
    BY <1>1, <2>2, KillingTo DEF PyrightInv
  <2> QED BY <2>1, <2>2 DEF Stop
<1>5. ~Starter(Host)' /\ ~Failing(Host)'
  BY <1>4 DEF Starter, Failing, AtKill, Shifts
<1>6. \A d \in Caller : d # Host => Starter(d)' = Starter(d) /\ Failing(d)' = Failing(d)
                                    /\ call'[d] = call[d]
  BY <1>4 DEF AtKill, Starter, Failing, Shifts
<1>7. call'[Host].pc # "spawn"
  BY <1>4 DEF Shifts
<1>8. PyrightTypeOK'
  BY <1>3, <1>4 DEF PyrightTypeOK, Shifts
<1> QED BY <1>1, <1>2, <1>3, <1>5, <1>6, <1>7, <1>8 DEF PyrightInv

LEMMA HoverInv == ASSUME PyrightInv, NEW c \in Caller, Hover(c) PROVE PyrightInv'
<1>1. /\ call[c].pc = "idle" /\ live' = live /\ exited' = exited /\ lsp.state = "ready"
  BY DEF Hover, At, Children, Caller, MayAsk
<1>2. ~Starter(c) /\ ~AtKill(c)
  BY <1>1 DEF Starter, AtKill
<1>3. \A d \in Caller : ~Starter(d) /\ ~Failing(d)
  BY <1>1 DEF PyrightInv
<1>4. CASE lsp' = lsp /\ Steps(c, "open")
  <2>1. PICK s \in CallState : Shifts(c, s) /\ s.pc = "open"
    BY <1>4, StepsTo DEF PyrightInv, CallPC
  <2> QED BY <1>1, <1>2, <1>4, <2>1, BystanderMoves DEF PyrightInv
<1>5. CASE /\ lsp' = [lsp EXCEPT !.restarts = @ + 1, !.state = "restarting"]
           /\ Killing(c, "start")
  <2>1. PICK s \in CallState : Shifts(c, s) /\ s.pc \in {"cancel", "kill"} /\ s.next = "start"
    BY <1>5, KillingTo DEF PyrightInv
  <2>2. lsp' \in LspState /\ lsp'.state = "restarting" /\ lsp'.proc = lsp.proc
    BY <1>5, RestartsTo DEF PyrightInv
  <2>3. ~Failing(c)' /\ \A d \in Caller : d # c => ~Starter(d)' /\ ~Failing(d)'
    BY <1>3, <2>1 DEF AtKill, Starter, Failing, Shifts
  <2>4. \A d \in Caller : call'[d].pc = "spawn" => FALSE
    BY <1>3, <2>1 DEF Starter, Shifts
  <2> QED BY <1>1, <2>1, <2>2, <2>3, <2>4 DEF PyrightInv, PyrightTypeOK, Shifts
<1>6. CASE /\ lsp.proc \in exited /\ lsp' = [lsp EXCEPT !.restarts = @ + 1, !.state = "error"]
           /\ call' = call
  <2>1. lsp' \in LspState /\ lsp'.state = "error" /\ lsp'.proc = lsp.proc
    BY <1>6, RestartsTo DEF PyrightInv
  <2>2. live = {}
    BY <1>6 DEF PyrightInv
  <2>3. \A d \in Caller : ~Starter(d)' /\ ~Failing(d)'
    BY <1>3, <1>6 DEF AtKill, Starter, Failing
  <2> QED BY <1>1, <1>6, <2>1, <2>2, <2>3 DEF PyrightInv, PyrightTypeOK
<1> QED BY <1>4, <1>5, <1>6 DEF Hover

LEMMA KillInv == ASSUME PyrightInv, NEW c \in Caller, Kill(c) PROVE PyrightInv'
<1>1. /\ call[c].pc = "kill" /\ live' = live \ {lsp.proc}
      /\ exited' = exited \cup ({lsp.proc} \cap Child) /\ lsp.proc \in Nat
  BY DEF Kill, At, Caller, PyrightInv, PyrightTypeOK, LspState
<1>2. live' = {}
  BY <1>1 DEF PyrightInv
<1>3. exited' \subseteq 0 .. lsp.proc
  <2>1. lsp.proc \in 0 .. lsp.proc
    BY <1>1
  <2> QED BY <1>1, <2>1 DEF PyrightInv
<1>4. CASE call[c].next = "start" /\ Becoming("starting") /\ Steps(c, "spawn")
  <2>1. PICK s \in CallState : Shifts(c, s) /\ s.pc = "spawn"
    BY <1>4, StepsTo DEF PyrightInv, CallPC
  <2>2. lsp' \in LspState /\ lsp'.state = "starting" /\ lsp'.proc = lsp.proc
    BY <1>4, BecomingTo DEF PyrightInv
  <2>3. Starter(c) /\ \A d \in Caller : ~Failing(d) /\ (Starter(d) => d = c)
    BY <1>1, <1>4 DEF PyrightInv, Starter, AtKill
  <2>4. \A d \in Caller : ~Failing(d)' /\ (Starter(d)' => d = c)
    BY <2>1, <2>3 DEF AtKill, Starter, Failing, Shifts
  <2> QED BY <1>2, <1>3, <2>1, <2>2, <2>4 DEF PyrightInv, PyrightTypeOK, Shifts
<1>5. CASE /\ Ends(c)
           /\ lsp' = lsp \/ (call[c].next = "failed" /\ Becoming("error"))
  <2>1. PICK s \in CallState : Shifts(c, s) /\ s.pc = "idle"
    BY <1>5, EndsTo DEF PyrightInv
  <2>2. ~Starter(c)' /\ ~Failing(c)' /\ call'[c].pc # "spawn"
    BY <2>1 DEF AtKill, Starter, Failing, Shifts
  <2>3. \A d \in Caller : d # c => /\ call'[d] = call[d] /\ Starter(d)' = Starter(d)
                                   /\ Failing(d)' = Failing(d)
    BY <2>1 DEF AtKill, Starter, Failing, Shifts
  <2>4. CASE lsp' = lsp
    BY <1>2, <1>3, <2>1, <2>2, <2>3, <2>4 DEF PyrightInv, PyrightTypeOK, Shifts
  <2>5. CASE call[c].next = "failed" /\ Becoming("error")
    <3>1. lsp' \in LspState /\ lsp'.state = "error" /\ lsp'.proc = lsp.proc
      BY <2>5, BecomingTo DEF PyrightInv
    <3>2. \A d \in Caller : ~Starter(d)
      BY <1>1, <2>5 DEF PyrightInv, Failing, AtKill
    <3> QED BY <1>2, <1>3, <2>1, <2>2, <2>3, <3>1, <3>2 DEF PyrightInv, PyrightTypeOK, Shifts
  <2> QED BY <1>5, <2>4, <2>5
<1> QED BY <1>4, <1>5 DEF Kill

LEMMA PyrightInvStep == PyrightInv /\ [PyrightNext]_pyrightVars => PyrightInv'
<1> SUFFICES ASSUME PyrightInv, [PyrightNext]_pyrightVars PROVE PyrightInv'
  OBVIOUS
<1>1. CASE UNCHANGED pyrightVars
  BY <1>1 DEF pyrightVars, PyrightInv, PyrightTypeOK, Starter, Failing, AtKill
<1>2. ASSUME NEW c \in Caller,
             Spawn(c) \/ Initialized(c) \/ StartFails(c) \/ CancelReader(c) \/ Kill(c)
               \/ Hover(c) \/ Open(c) \/ Ask(c) \/ HoverEnds(c) \/ Answer(c)
      PROVE  PyrightInv'
  BY <1>2, SpawnInv, InitializedInv, StartFailsInv, CancelReaderInv, KillInv, HoverInv,
     HoverPathInv, AnswerInv
<1>3. CASE PyrightNext
  BY <1>2, <1>3, StartPyrightInv, StopInv, ByeAnsweredInv, ExitSeenInv, ByeFailsInv, DiesInv,
     NoticedInv, ReaderEndsInv DEF PyrightNext, Caller
<1> QED BY <1>1, <1>3

LEMMA PyrightInvOne == PyrightInv => OneLanguageServer
<1> SUFFICES ASSUME PyrightInv PROVE OneLanguageServer
  OBVIOUS
<1>1. \A x, y \in live : x = y
  BY DEF PyrightInv
<1>2. DOMAIN call = Caller /\ \A c \in Caller : At[c] = call[c].pc
  BY DEF PyrightInv, PyrightTypeOK, At, Caller
<1> QED BY <1>1, <1>2, AtMostOne DEF OneLanguageServer, PyrightInv, AtKill
===============================================================================
