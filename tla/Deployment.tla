----------------------------- MODULE Deployment ------------------------------
(***************************************************************************)
(* Backend and desktop clients together: the clients of Client.tla are the *)
(* peers of EchoServer.tla, and the backend logs through AsyncLogger.tla.  *)
(*                                                                         *)
(* The two are joined where main.cpp joins them.  The completion handler   *)
(* of a session (backend main.cpp:109-117) calls log_info, on the one      *)
(* thread that runs io_context: while that call waits for room in the      *)
(* queue no coroutine runs, and if the log file cannot be opened its       *)
(* exception leaves the handler, ioc.run() and main.                       *)
(***************************************************************************)
EXTENDS EchoServer, FiniteSets

CONSTANTS
  Backend,        \* the backend, as a process that logs
  Hello,          \* the client's first text
  Greeting,       \* the text it sends when it is connected
  Elided,         \* does the client's compiler elide the move of its socket?
  Capacity        \* entries of the log queue

ASSUME DeploymentAssumption ==
  /\ Bodies = {Hello, Greeting} /\ Hello # Greeting
  /\ Elided \in BOOLEAN
  /\ MaxMsgs >= 1

VARIABLES
  main, socket, got,                                        \* Client
  proc, made, posted, queue, taken, todo, out, missed       \* AsyncLogger

C == INSTANCE Client WITH Clients <- Conns
L == INSTANCE AsyncLogger
       WITH Procs <- {Backend}, MaxLines <- [p \in {Backend} |-> Cardinality(Conns)]

onlyClient == <<main, socket, got>>
onlyPeer   == <<listener, peer, left, faulty, sessionVars>>
logVars    == <<proc, made, posted, queue, taken, todo, out, missed>>
systemVars == <<vars, onlyClient, logVars>>

\* Every variable has its type.
SystemTypeOK == TypeOK /\ C!TypeOK /\ L!LogTypeOK

SystemInit == Init /\ C!Init /\ L!LogInit

-----------------------------------------------------------------------------
(* The backend.                                                            *)

\* Its thread is in ioc.run() and not waiting for the log.
ThreadRuns == proc[Backend] = "running"
BackendUp  == proc[Backend] \notin {"ended", "dead"}

\* The completion handler of a session that ends logs why.
CompletionHandler(c) ==
  IF session[c] # "over" /\ session'[c] = "over"
    THEN L!Call(Backend) \/ L!CallThrows(Backend)
    ELSE UNCHANGED logVars

SessionStep(c) ==
  /\ ThreadRuns
  /\ Server(c)
  /\ CompletionHandler(c)
  /\ UNCHANGED onlyClient

\* The listener's errors go to std::cerr, not to the log.
ListenerStep ==
  /\ ThreadRuns
  /\ ListenerOpens \/ ListenerFails
  /\ UNCHANGED <<onlyClient, logVars>>

\* Without a listener and without sessions ioc.run() returns, and so does main.
BackendExits ==
  /\ listener = "failed"
  /\ \A c \in Conns : session[c] \in {"none", "over"}
  /\ L!Exits(Backend)
  /\ UNCHANGED <<vars, onlyClient>>

\* What becomes of the log file is a matter of SharedLog: the sink never throws.
BackendLogs ==
  /\ L!LogStep(Backend)
  /\ UNCHANGED missed
  /\ UNCHANGED <<vars, onlyClient>>

\* Its stdio buffer is, too.
BackendKilled ==
  /\ L!Kill(Backend, 0)
  /\ UNCHANGED <<vars, onlyClient>>

-----------------------------------------------------------------------------
(* The clients, each the peer of one connection.                           *)

\* The kernel ends the connection of a client that is gone.
Drops(c) ==
  IF peer[c] \in {"idle", "gone"} THEN UNCHANGED <<onlyPeer, sent>> ELSE PeerVanishes(c)

ClientStarts(c) ==
  /\ C!Starts(c) \/ C!StartFails(c)
  /\ UNCHANGED <<onlyPeer, logVars>>

\* Qt connects and asks for the upgrade while the event loop runs.
ClientDials(c) ==
  /\ main[c] = "exec"
  /\ socket[c] = "connecting"
  /\ \/ BackendUp /\ PeerConnects(c)
     \/ PeerRequests(c) /\ peer'[c] = "requested"
  /\ UNCHANGED <<onlyClient, logVars>>

ClientConnected(c) ==
  /\ peer[c] = "open"
  /\ C!Connected(c)
  /\ \/ main'[c] = "exec" /\ UNCHANGED onlyPeer
     \/ main'[c] = "dead" /\ PeerVanishes(c)
  /\ UNCHANGED logVars

ClientReceives(c) ==
  /\ Len(got[c]) < Len(echoed[c])
  /\ C!Receives(c, echoed[c][Len(got[c]) + 1])
  /\ UNCHANGED <<onlyPeer, logVars>>

\* The connection is refused, reset, or ended by the server or with it.
ClientNotices(c) ==
  /\ C!Lost(c)
  /\ \/ peer[c] = "idle" /\ (listener # "listening" \/ ~BackendUp) /\ UNCHANGED onlyPeer
     \/ peer[c] = "gone" /\ UNCHANGED onlyPeer
     \/ PeerNotices(c)
     \/ ~BackendUp /\ PeerVanishes(c)
  /\ UNCHANGED logVars

\* The network loses the connection.
ClientLosesNetwork(c) ==
  /\ C!Lost(c)
  /\ PeerVanishes(c)
  /\ UNCHANGED logVars

ClientQuits(c) ==
  /\ C!Quits(c)
  /\ IF socket[c] = "connected" /\ peer[c] = "open" THEN PeerCloses(c) ELSE Drops(c)
  /\ UNCHANGED logVars

ClientKilled(c) ==
  /\ C!Killed(c)
  /\ Drops(c)
  /\ UNCHANGED logVars

\* The TCP connection ends behind the close frame.
ClosedBehind(c) ==
  /\ peer[c] = "closing"
  /\ PeerVanishes(c)
  /\ UNCHANGED <<onlyClient, logVars>>

-----------------------------------------------------------------------------
ClientEvent(c) ==
  ClientDials(c) \/ ClientConnected(c) \/ ClientReceives(c) \/ ClientNotices(c)

SystemNext ==
  \/ ListenerStep \/ BackendExits \/ BackendLogs \/ BackendKilled
  \/ \E c \in Conns :
       \/ SessionStep(c)
       \/ ClientStarts(c) \/ ClientEvent(c)
       \/ ClientLosesNetwork(c) \/ ClientQuits(c) \/ ClientKilled(c) \/ ClosedBehind(c)

(* io_context::run resumes every coroutine it can, the log's worker works, *)
(* and Qt delivers what has happened to a socket.  Nobody has to start,    *)
(* quit, fail or lose anything.                                            *)
SystemFairness ==
  /\ WF_systemVars(ListenerStep /\ listener' = "listening")
  /\ WF_systemVars(BackendLogs)
  /\ \A c \in Conns : WF_systemVars(SessionStep(c)) /\ WF_systemVars(ClientEvent(c))

SystemSpec == SystemInit /\ [][SystemNext]_systemVars /\ SystemFairness

-----------------------------------------------------------------------------
(* Properties.                                                             *)

\* Clients, a log that blocks or kills the backend, and its end are nothing
\* but peers and pauses to the server: what is checked and proved of
\* EchoServer is true of it here.
ImplementsEchoServer == Spec

\* Over both programs: a client is given back what it sent, once, and the
\* server never sees the text it sent before it was connected.
\* client main.cpp:20-36.
OnlyGreetings ==
  \A c \in Conns :
    /\ \A i \in DOMAIN sent[c] : sent[c][i].body = Greeting
    /\ Len(got[c]) <= Len(sent[c]) /\ Len(sent[c]) <= 1
    /\ \A i \in DOMAIN got[c] : got[c][i] = sent[c][i].body

\* A greeting is answered, unless the connection is lost or given up, though
\* its session shares a thread with others and with their log lines.
\* client main.cpp:20-25, backend main.cpp:69-74.
GreetingAnswered ==
  \A c \in Conns : (sent[c] # << >>) ~> (got[c] # << >> \/ left[c])

\* Whoever is left learns that the other side is gone: the session of a client
\* that crashes in a callback, is killed or quits is not left behind, and a
\* client that is connected is told when its session is over or the backend is
\* gone.  client main.cpp:20-32, backend main.cpp:77-81.
SurvivorsNotice ==
  \A c \in Conns :
    /\ (main[c] \in {"over", "dead"} /\ session[c] # "none")
         ~> (session[c] = "over" \/ ~BackendUp)
    /\ (socket[c] = "connected" /\ (session[c] = "over" \/ ~BackendUp))
         ~> (socket[c] # "connected" \/ main[c] # "exec")

\* A full queue holds the io_context thread up, but not for ever: the end of
\* every session gets its line on the console, and the log does not keep the
\* backend from exiting.  logger.cpp:18, backend main.cpp:109-117.
LogOnlyDelays ==
  /\ \A n \in 1 .. Cardinality(Conns) :
       (Cardinality({c \in Conns : session[c] = "over"}) >= n)
         ~> (Len(out[Backend]["console"]) >= n \/ proc[Backend] = "dead")
  /\ L!ExitCompletes
=============================================================================
