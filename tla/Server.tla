------------------------------- MODULE Server -------------------------------
(***************************************************************************)
(* The life of the process (server.go, cmd/sensor-server/main.go): run     *)
(* opens the server, which acquires its parts one by one and gives them up *)
(* when a later one fails; the configuration poller, the TCP and the UDP   *)
(* server run until one fails or the server is closed; a signal, the end   *)
(* of the server or of the HTTP plugin makes run shut all of it down.      *)
(*                                                                         *)
(* Of the parts that have modules of their own only what matters here is   *)
(* kept: who may still call Route and what Close waits for (Presence,      *)
(* UDPServer); that the data engine may accept a record of a call begun    *)
(* before its Close until the last stream has finished, and holds it until *)
(* it is handled (DataEngine).                                             *)
(***************************************************************************)
EXTENDS Integers, Sequences

CONSTANTS
    Conns,          \* TCP connections that may arrive
    Workers,        \* workers of the UDP server
    Opener,         \* the goroutine of run, which replays the quarantine
    QueueCapacity,  \* datagrams the UDP server can queue
    Room            \* records the data streams can hold

ASSUME ServerAssumption ==
    /\ Workers # {} /\ Conns \cap Workers = {} /\ Opener \notin Conns \cup Workers
    /\ QueueCapacity \in Nat \ {0} /\ Room \in Nat \ {0}

VARIABLES
    main,           \* where run is
    exit,           \* what run has returned: "none", "ok" or "error"
    http,           \* the HTTP plugin: "off", "serving" or "failed"
    step,           \* OpenServer: the next of Parts
    open,           \* resources that are open, the engine aside
    component,      \* goroutine of start -> "off", "running", "failed" or "exited"
    runErr,         \* server.runErr # nil
    closeStage,     \* where the function passed to closeOnce is
    closeErr,       \* server.closeErr # nil
    conn,           \* connection -> "none", "accepted", "inserted", "serving" or "done"
    sockets,        \* connection -> its socket is open on our side
    queued,         \* datagrams in the UDP server's queue
    worker,         \* worker -> "off", "running" or "exited"
    routing,        \* goroutines inside Route (or, the opener, ReplayQuarantine)
    engine,         \* the data engine: "none", "open", "closing" or "closed"
    pending,        \* records it has accepted and not handled
    late            \* history: connections Serve was starting when Close went through the map

process == <<main, exit, http>>
lifecycle == <<component, runErr, closeStage, closeErr>>
tcp == <<conn, sockets, late>>
udp == <<queued, worker>>
storage == <<routing, engine, pending>>
svVars == <<process, step, open, lifecycle, tcp, udp, storage>>

Components == {"poller", "tcp", "udp"}

SVInit ==
    /\ main = "open" /\ exit = "none" /\ http = "off" /\ step = 1 /\ open = {}
    /\ component = [p \in Components |-> "off"] /\ runErr = FALSE
    /\ closeStage = "idle" /\ closeErr = FALSE
    /\ conn = [c \in Conns |-> "none"] /\ sockets = [c \in Conns |-> FALSE] /\ late = {}
    /\ queued = 0 /\ worker = [w \in Workers |-> "off"]
    /\ routing = {} /\ engine = "none" /\ pending = 0

Exit(value) == main' = "exited" /\ exit' = value /\ UNCHANGED http

-----------------------------------------------------------------------------
(* OpenServer *)

Parts == <<"config", "engine", "quarantine", "replay", "router", "listenTCP",
           "listenUDP", "newTCP", "newUDP", "poller">>

(* The resources a part adds, and those closed when it fails; the engine,  *)
(* there from the second part on, is closed after them.                    *)
Acquires(part) ==
    CASE part = "quarantine" -> {"quarantine"}
      [] part = "listenTCP" -> {"listener"}
      [] part = "listenUDP" -> {"packets"}
      [] part = "newUDP" -> {"workers"}
      [] OTHER -> {}

(* Mutant: a failing ListenPacket leaves the TCP listener open.            *)
Cleanup_Listener(part) ==
    CASE part \in {"replay", "router", "listenTCP", "listenUDP"} -> {"quarantine"}
      [] part \in {"newTCP", "newUDP"} -> {"quarantine", "listener", "packets"}
      [] part = "poller" -> {"quarantine", "listener", "packets", "workers"}
      [] OTHER -> {}

Cleanup(part) ==
    CASE part \in {"replay", "router", "listenTCP"} -> {"quarantine"}
      [] part = "listenUDP" -> {"quarantine", "listener"}
      [] part \in {"newTCP", "newUDP"} -> {"quarantine", "listener", "packets"}
      [] part = "poller" -> {"quarantine", "listener", "packets", "workers"}
      [] OTHER -> {}

(* ReplayQuarantine writes to the engine; the next part waits for it.      *)
Replay ==
    /\ main = "open" /\ step <= Len(Parts) /\ Parts[step] = "replay" /\ Opener \notin routing
    /\ routing' = routing \cup {Opener}
    /\ UNCHANGED <<process, step, open, lifecycle, tcp, udp, engine, pending>>

(* The next part is there; after the last one start runs the components.   *)
Acquire ==
    /\ main = "open" /\ step <= Len(Parts) /\ Opener \notin routing
    /\ step' = step + 1
    /\ open' = open \cup Acquires(Parts[step])
    /\ engine' = IF Parts[step] = "engine" THEN "open" ELSE engine
    /\ worker' = IF Parts[step] = "newUDP" THEN [w \in Workers |-> "running"] ELSE worker
    /\ IF step = Len(Parts)
       THEN main' = "plugin" /\ component' = [p \in Components |-> "running"]
       ELSE UNCHANGED <<main, component>>
    /\ UNCHANGED <<exit, http, runErr, closeStage, closeErr, tcp, queued, routing, pending>>

AcquireFails ==
    /\ main = "open" /\ step <= Len(Parts) /\ Opener \notin routing
    /\ open' = open \ Cleanup(Parts[step])
    /\ worker' = IF "workers" \in Cleanup(Parts[step]) THEN [w \in Workers |-> "exited"] ELSE worker
    /\ IF step <= 2
       THEN Exit("error") /\ UNCHANGED engine
       ELSE main' = "cleanup" /\ engine' = "closing" /\ UNCHANGED <<exit, http>>
    /\ UNCHANGED <<step, lifecycle, tcp, queued, routing, pending>>

OpenFailed ==
    /\ main = "cleanup" /\ engine = "closed"
    /\ Exit("error")
    /\ UNCHANGED <<step, open, lifecycle, tcp, udp, storage>>

-----------------------------------------------------------------------------
(* run, once the server is open *)

(* The plugin is not enabled, serves, or could not be made.                *)
StartPlugin(outcome) ==
    /\ main = "plugin"
    /\ main' = IF outcome = "failed" THEN "close" ELSE "select"
    /\ http' = IF outcome = "failed" THEN "off" ELSE outcome
    /\ UNCHANGED <<exit, step, open, lifecycle, tcp, udp, storage>>

HTTPServeFails ==
    /\ main = "select" /\ http = "serving"
    /\ http' = "failed"
    /\ UNCHANGED <<main, exit, step, open, lifecycle, tcp, udp, storage>>

(* A signal arrives, or server.Done or httpServer.Done is closed.          *)
LeaveSelect ==
    /\ main = "select"
    /\ main' = IF http = "off" THEN "shutdown" ELSE "httpShutdown"
    /\ UNCHANGED <<exit, http, step, open, lifecycle, tcp, udp, storage>>

(* httpServer.Shutdown fails when a request outlives its ten seconds, or   *)
(* with the error Serve met.                                               *)
HTTPShutdown(inTime) ==
    /\ main = "httpShutdown"
    /\ main' = IF inTime /\ http = "serving" THEN "shutdown" ELSE "close"
    /\ http' = "off"
    /\ UNCHANGED <<exit, step, open, lifecycle, tcp, udp, storage>>

(* server.Shutdown: Close has returned, or the deadline has passed.        *)
ShutdownReturns ==
    /\ main = "shutdown" /\ closeStage = "done"
    /\ Exit(IF closeErr THEN "error" ELSE "ok")
    /\ UNCHANGED <<step, open, lifecycle, tcp, udp, storage>>

ShutdownExpires ==
    /\ main = "shutdown"
    /\ Exit("error")
    /\ UNCHANGED <<step, open, lifecycle, tcp, udp, storage>>

(* server.Close after an error of the plugin.                              *)
CloseFinished ==
    /\ main = "close" /\ closeStage = "done"
    /\ Exit("error")
    /\ UNCHANGED <<step, open, lifecycle, tcp, udp, storage>>

-----------------------------------------------------------------------------
(* The goroutines of start *)

(* Serve and Run return nil: after Close has cancelled or closed theirs,   *)
(* and Serve of the TCP server not while it starts a connection.           *)
ComponentReturns(p) ==
    /\ main # "exited" /\ component[p] = "running"
    /\ CASE p = "poller" -> closeStage # "idle"
         [] p = "tcp" -> "listener" \notin open /\ \A c \in Conns : conn[c] \notin {"accepted", "inserted"}
         [] p = "udp" -> "packets" \notin open
    /\ component' = [component EXCEPT ![p] = "exited"]
    /\ UNCHANGED <<process, step, open, runErr, closeStage, closeErr, tcp, udp, storage>>

(* fail: an error or a recovered panic; the first one is kept.             *)
ComponentFails(p) ==
    /\ main # "exited" /\ component[p] = "running"
    /\ p = "tcp" => \A c \in Conns : conn[c] \notin {"accepted", "inserted"}
    /\ component' = [component EXCEPT ![p] = "failed"]
    /\ runErr' = TRUE
    /\ UNCHANGED <<process, step, open, closeStage, closeErr, tcp, udp, storage>>

(* Mutant: fail waits for Close instead of leaving it to a goroutine.      *)
ComponentDone_Waits(p) ==
    /\ main # "exited" /\ component[p] = "failed" /\ closeStage = "done"
    /\ component' = [component EXCEPT ![p] = "exited"]
    /\ UNCHANGED <<process, step, open, runErr, closeStage, closeErr, tcp, udp, storage>>

ComponentDone(p) ==
    /\ main # "exited" /\ component[p] = "failed"
    /\ component' = [component EXCEPT ![p] = "exited"]
    /\ UNCHANGED <<process, step, open, runErr, closeStage, closeErr, tcp, udp, storage>>

-----------------------------------------------------------------------------
(* Server.Close.  Callers after the first wait until done.                 *)

(* Close is called by run, by the goroutine fail starts, or by the one     *)
(* that watches the context OpenServer was given (which main.go never      *)
(* cancels, other callers may); the server's context is cancelled.         *)
CloseCalled(watched) ==
    /\ main \in {"plugin", "select", "httpShutdown", "shutdown", "close"} /\ closeStage = "idle"
    /\ watched \/ runErr \/ main \in {"shutdown", "close"}
    /\ closeStage' = "udp"
    /\ UNCHANGED <<process, step, open, component, runErr, closeErr, tcp, udp, storage>>

(* One call of the function: from is where it is, to where it goes next.   *)
Closing(from, to) ==
    /\ main # "exited" /\ closeStage = from
    /\ closeStage' = to
    /\ UNCHANGED <<process, step, component, runErr, closeErr>>

CloseUDP ==
    /\ Closing("udp", "udpWait")
    /\ open' = open \ {"packets", "workers"}
    /\ UNCHANGED <<tcp, udp, storage>>

CloseUDPWaited ==
    /\ Closing("udpWait", "tcp")
    /\ \A w \in Workers : worker[w] = "exited"
    /\ UNCHANGED <<open, tcp, udp, storage>>

CloseTCP ==
    /\ Closing("tcp", "collect")
    /\ open' = open \ {"listener"}
    /\ UNCHANGED <<tcp, udp, storage>>

(* The sockets of the connections in the map are closed.                   *)
CloseTCPCollect ==
    /\ Closing("collect", "tcpWait")
    /\ sockets' = [c \in Conns |-> sockets[c] /\ conn[c] \notin {"inserted", "serving"}]
    /\ late' = {c \in Conns : conn[c] \in {"accepted", "inserted"}}
    /\ UNCHANGED <<open, conn, udp, storage>>

CloseTCPWaited ==
    /\ Closing("tcpWait", "components")
    /\ \A c \in Conns : conn[c] # "serving"
    /\ UNCHANGED <<open, tcp, udp, storage>>

(* Mutant: the server's WaitGroup is not waited for.                       *)
CloseComponents_NoWait ==
    /\ Closing("components", "quarantine")
    /\ UNCHANGED <<open, tcp, udp, storage>>

CloseComponents ==
    /\ Closing("components", "quarantine")
    /\ \A p \in Components : component[p] = "exited"
    /\ UNCHANGED <<open, tcp, udp, storage>>

CloseQuarantine ==
    /\ Closing("quarantine", "engine")
    /\ open' = open \ {"quarantine"}
    /\ engine' = "closing"
    /\ UNCHANGED <<tcp, udp, routing, pending>>

(* Mutant: engine.Close is not waited for.                                 *)
CloseEngine_NoWait ==
    /\ Closing("engine", "join")
    /\ UNCHANGED <<open, tcp, udp, storage>>

CloseEngine ==
    /\ Closing("engine", "join") /\ engine = "closed"
    /\ UNCHANGED <<open, tcp, udp, storage>>

(* The error of run is joined with those of the calls above (err).         *)
CloseDone(err) ==
    /\ main # "exited" /\ closeStage = "join"
    /\ closeStage' = "done" /\ closeErr' = (runErr \/ err)
    /\ UNCHANGED <<process, step, open, component, runErr, tcp, udp, storage>>

-----------------------------------------------------------------------------
(* The TCP server *)

AcceptConn(c) ==
    /\ main # "exited" /\ component["tcp"] = "running" /\ "listener" \in open
    /\ conn[c] = "none" /\ \A d \in Conns : conn[d] \notin {"accepted", "inserted"}
    /\ conn' = [conn EXCEPT ![c] = "accepted"] /\ sockets' = [sockets EXCEPT ![c] = TRUE]
    /\ UNCHANGED <<process, step, open, lifecycle, late, udp, storage>>

(* startConnection puts the connection into the map, then counts it in the *)
(* WaitGroup and starts its goroutine.                                     *)
StartConnection(c) ==
    /\ main # "exited" /\ conn[c] \in {"accepted", "inserted"}
    /\ conn' = [conn EXCEPT ![c] = IF @ = "accepted" THEN "inserted" ELSE "serving"]
    /\ UNCHANGED <<process, step, open, lifecycle, sockets, late, udp, storage>>

(* A message is read and routed; once the engine is closed that changes    *)
(* nothing any more.                                                       *)
ConnectionReads(c) ==
    /\ main # "exited" /\ conn[c] = "serving" /\ sockets[c] /\ c \notin routing /\ engine = "open"
    /\ routing' = routing \cup {c}
    /\ UNCHANGED <<process, step, open, lifecycle, tcp, udp, engine, pending>>

(* Our side has closed the socket, or (hangup) the peer.                   *)
ConnectionEnds(c, hangup) ==
    /\ main # "exited" /\ conn[c] = "serving" /\ c \notin routing
    /\ ~sockets[c] \/ hangup
    /\ conn' = [conn EXCEPT ![c] = "done"] /\ sockets' = [sockets EXCEPT ![c] = FALSE]
    /\ UNCHANGED <<process, step, open, lifecycle, late, udp, storage>>

-----------------------------------------------------------------------------
(* The UDP server *)

Enqueue ==
    /\ main # "exited" /\ component["udp"] = "running" /\ "packets" \in open
    /\ queued < QueueCapacity
    /\ queued' = queued + 1
    /\ UNCHANGED <<process, step, open, lifecycle, tcp, worker, storage>>

WorkerRoutes(w) ==
    /\ main # "exited" /\ worker[w] = "running" /\ w \notin routing /\ queued > 0
    /\ routing' = routing \cup {w}
    /\ queued' = queued - 1
    /\ UNCHANGED <<process, step, open, lifecycle, tcp, worker, engine, pending>>

WorkerExits(w) ==
    /\ main # "exited" /\ worker[w] = "running" /\ w \notin routing
    /\ queued = 0 /\ "workers" \notin open
    /\ worker' = [worker EXCEPT ![w] = "exited"]
    /\ UNCHANGED <<process, step, open, lifecycle, tcp, queued, storage>>

-----------------------------------------------------------------------------
(* Storage *)

(* Route ends: a data stream has accepted the record, or it was refused or *)
(* was not for a stream.                                                   *)
RouteReturns(h, accepted) ==
    /\ main # "exited" /\ h \in routing
    /\ accepted => engine \in {"open", "closing"} /\ pending < Room
    /\ pending' = IF accepted THEN pending + 1 ELSE pending
    /\ routing' = routing \ {h}
    /\ UNCHANGED <<process, step, open, lifecycle, tcp, udp, engine>>

(* A stream handles a record.                                              *)
Handle ==
    /\ main # "exited" /\ pending > 0
    /\ pending' = pending - 1
    /\ UNCHANGED <<process, step, open, lifecycle, tcp, udp, routing, engine>>

(* engine.Close returns when its streams are empty.                        *)
EngineCloses ==
    /\ main # "exited" /\ engine = "closing" /\ pending = 0
    /\ engine' = "closed"
    /\ UNCHANGED <<process, step, open, lifecycle, tcp, udp, routing, pending>>

-----------------------------------------------------------------------------
OpenNext == Acquire \/ AcquireFails \/ OpenFailed

MainNext ==
    \/ \E outcome \in {"off", "serving", "failed"} : StartPlugin(outcome)
    \/ \E inTime \in BOOLEAN : HTTPShutdown(inTime)
    \/ ShutdownReturns \/ ShutdownExpires \/ CloseFinished

SVCloseNext ==
    \/ CloseUDP \/ CloseUDPWaited \/ CloseTCP \/ CloseTCPCollect \/ CloseTCPWaited
    \/ CloseComponents \/ CloseQuarantine \/ CloseEngine
    \/ \E err \in BOOLEAN : CloseDone(err)

WorkerNext(w) == WorkerRoutes(w) \/ WorkerExits(w)
StorageNext == Handle \/ EngineCloses

SVNext ==
    \/ OpenNext \/ Replay
    \/ LeaveSelect \/ HTTPServeFails \/ MainNext
    \/ \E p \in Components : ComponentReturns(p) \/ ComponentFails(p) \/ ComponentDone(p)
    \/ \E watched \in BOOLEAN : CloseCalled(watched)
    \/ SVCloseNext
    \/ \E c \in Conns : \/ AcceptConn(c) \/ StartConnection(c) \/ ConnectionReads(c)
                        \/ \E hangup \in BOOLEAN : ConnectionEnds(c, hangup)
    \/ Enqueue \/ \E w \in Workers : WorkerNext(w)
    \/ \E h \in routing, accepted \in BOOLEAN : RouteReturns(h, accepted)
    \/ StorageNext

SVSpec == SVInit /\ [][SVNext]_svVars

(* Goroutines that can move do, Route returns, timers fire and streams     *)
(* drain.  Nothing is assumed of peers, signals or failures.               *)
SVFairness ==
    /\ WF_svVars(OpenNext) /\ WF_svVars(MainNext) /\ WF_svVars(LeaveSelect /\ (closeStage = "done" \/ http = "failed"))
    /\ \A p \in Components : WF_svVars(ComponentReturns(p) \/ ComponentDone(p))
    /\ WF_svVars(CloseCalled(FALSE)) /\ WF_svVars(SVCloseNext) /\ WF_svVars(StorageNext)
    /\ \A c \in Conns : WF_svVars(StartConnection(c) \/ ConnectionEnds(c, FALSE))
    /\ \A w \in Workers : WF_svVars(WorkerNext(w))
    /\ \A h \in Conns \cup Workers \cup {Opener} : WF_svVars(\E accepted \in BOOLEAN : RouteReturns(h, accepted))

SVFairSpec == SVSpec /\ SVFairness

-----------------------------------------------------------------------------
(* Properties *)

Resources == {"quarantine", "listener", "packets", "workers"}
CloserStages == {"idle", "udp", "udpWait", "tcp", "collect", "tcpWait", "components", "quarantine", "engine", "join", "done"}

SVTypeOK ==
    /\ main \in {"open", "cleanup", "plugin", "select", "httpShutdown", "shutdown", "close", "exited"}
    /\ exit \in {"none", "ok", "error"} /\ http \in {"off", "serving", "failed"}
    /\ step \in 1..(Len(Parts) + 1) /\ open \subseteq Resources
    /\ component \in [Components -> {"off", "running", "failed", "exited"}]
    /\ closeStage \in CloserStages /\ runErr \in BOOLEAN /\ closeErr \in BOOLEAN
    /\ conn \in [Conns -> {"none", "accepted", "inserted", "serving", "done"}]
    /\ sockets \in [Conns -> BOOLEAN] /\ late \subseteq Conns
    /\ queued \in 0..QueueCapacity /\ worker \in [Workers -> {"off", "running", "exited"}]
    /\ routing \subseteq Conns \cup Workers \cup {Opener}
    /\ engine \in {"none", "open", "closing", "closed"} /\ pending \in 0..Room

(* "Failure before readiness stops startup and closes all resources        *)
(* already opened" (docs/design.md): whichever part of OpenServer fails,   *)
(* when it returns no socket is open, no worker runs, and what the replay  *)
(* wrote is drained and its streams closed.                                *)
FailedOpenLeavesNothing ==
    main = "exited" /\ step <= Len(Parts) =>
        /\ open = {} /\ \A w \in Workers : worker[w] # "running"
        /\ engine \in {"none", "closed"} /\ pending = 0

(* When Done is closed or run returns nil, the server has stopped but for  *)
(* one connection at most: the components and the workers have ended, the  *)
(* listeners and the quarantine are closed, every record accepted has been *)
(* handled, and so have all connections but the one that Serve was still   *)
(* starting when Close went through its map.  Close neither waits for that *)
(* one nor, unless it was in the map already, closes its socket, whereas   *)
(* docs/design.md (line 415) has it "wait for all owned goroutines to      *)
(* exit"; no one else is inside Route, and what it routes is not stored.   *)
DoneMeansStopped ==
    closeStage = "done" \/ exit = "ok" =>
        /\ open = {} /\ queued = 0 /\ engine = "closed" /\ pending = 0
        /\ \A p \in Components : component[p] = "exited"
        /\ \A w \in Workers : worker[w] = "exited"
        /\ \A c \in Conns \ late : conn[c] \in {"none", "done"} /\ ~sockets[c]
        /\ routing \subseteq late /\ \A c, d \in late : c = d

(* A component that failed, be it while Close was already under way, is in *)
(* the error Close returns: nobody is told that all went well.             *)
FailuresAreReported == closeStage = "done" \/ exit = "ok" => (runErr => closeErr) /\ (closeErr => exit # "ok")

(* A connection that Close waits for although it has not closed it.        *)
Straggler == closeStage = "tcpWait" /\ \E c \in Conns : conn[c] = "serving" /\ sockets[c]

(* Once a component has failed, Close has been called or run has been told *)
(* to stop, the process ends, unless a connection started behind the back  *)
(* of Close holds it up; and not even that while run is in Shutdown.       *)
ProcessEnds ==
    (runErr \/ closeStage # "idle" \/ main \in {"httpShutdown", "shutdown", "close"})
        ~> (main = "exited" \/ (Straggler /\ main # "shutdown"))

=============================================================================
