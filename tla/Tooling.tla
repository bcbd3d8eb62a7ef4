------------------------------- MODULE Tooling -------------------------------
(***************************************************************************)
(* The parts that share no file and no process with each other: index runs *)
(* of the code graph, the reranker daemon, the stdio backend, the language *)
(* server, the feature lock, the numbering of features, the warm agents of *)
(* the tasking chain, the QA loop of the control plane, and the game.  A   *)
(* behaviour is one of one part, and the others stay as they are.          *)
(***************************************************************************)
EXTENDS Codegraph, RerankDaemon, BackendServer, Pyright, FeatureLock, Specify, Tasking,
        QaLoop, Tetris

VARIABLE part      \* the part this behaviour is of

vars == <<treeVars, graphVars, daemonVars, serverVars, pyrightVars, lockVars, specifyVars, taskingVars,
          qaVars, gameVars, part>>

Init ==
    /\ TreeInit /\ CodegraphInit /\ DaemonInit /\ ServerInit
    /\ PyrightInit /\ LockInit /\ SpecifyInit /\ TaskingInit /\ QaInit /\ GameInit
    /\ part \in {"graph", "daemon", "server", "pyright", "lock", "specify", "tasking", "qa",
                "game"}
    /\ part # "graph" => graph = None
    /\ part # "server" => built = TRUE

Next ==
    /\ \/ part = "graph" /\ CodegraphNext
       \/ part # "graph" /\ UNCHANGED <<treeVars, graphVars>>
    /\ \/ part = "daemon" /\ DaemonNext
       \/ part # "daemon" /\ UNCHANGED daemonVars
    /\ \/ part = "server" /\ ServerNext
       \/ part # "server" /\ UNCHANGED serverVars
    /\ \/ part = "pyright" /\ PyrightNext
       \/ part # "pyright" /\ UNCHANGED pyrightVars
    /\ \/ part = "lock" /\ LockNext
       \/ part # "lock" /\ UNCHANGED lockVars
    /\ \/ part = "tasking" /\ TaskingNext
       \/ part # "tasking" /\ UNCHANGED taskingVars
    /\ \/ part = "specify" /\ SpecifyNext
       \/ part # "specify" /\ UNCHANGED specifyVars
    /\ \/ part = "qa" /\ QaNext
       \/ part # "qa" /\ UNCHANGED qaVars
    /\ \/ part = "game" /\ GameNext
       \/ part # "game" /\ UNCHANGED gameVars
    /\ UNCHANGED part

Spec == Init /\ [][Next]_vars
===============================================================================
