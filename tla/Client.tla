------------------------------- MODULE Client --------------------------------
(***************************************************************************)
(* The desktop client (uav-rf-detector-client/app/src/main.cpp).  main     *)
(* makes a QWebSocket with four lambdas on its signals, opens it and runs  *)
(* the event loop; Qt then calls the lambdas, one at a time, as the        *)
(* connection changes.  An action is main up to app.exec(), one event with *)
(* all the lambdas it runs, or the end of main.                            *)
(*                                                                         *)
(* The lambdas capture a REFERENCE to the local unique_ptr of the function *)
(* that made the socket and returned it.  If the compiler elides the move  *)
(* (it may, C++ does not require it for a named local) the reference is to *)
(* main's pWebSocket, otherwise to a stack slot that is gone.              *)
(*                                                                         *)
(* Qt is external.  Every lambda logs first; these calls are left out here *)
(* and modelled, for both programs, in AsyncLogger and SharedLog.          *)
(***************************************************************************)
EXTENDS Naturals, Sequences

CONSTANTS
  Clients,    \* the clients that may be started
  Hello,      \* the body "hello, server!"
  Greeting,   \* the body "msg after connected..."
  Elided      \* does the compiler elide the move of the returned socket?

VARIABLES
  main,       \* [Clients -> where main is]
  socket,     \* [Clients -> the state of the QWebSocket]
  sent,       \* [Clients -> the messages it has put on the wire]
  got         \* [Clients -> the bodies of the texts it has received]

MainState   == {"start", "exec", "over", "dead"}
SocketState == {"none", "connecting", "connected", "unconnected"}

TypeOK ==
  /\ main   \in [Clients -> MainState]
  /\ socket \in [Clients -> SocketState]

Init ==
  /\ main   = [c \in Clients |-> "start"]
  /\ socket = [c \in Clients |-> "none"]
  /\ sent   = [c \in Clients |-> << >>]
  /\ got    = [c \in Clients |-> << >>]

\* Mutant: the socket keeps the text until it is connected.
MutSendText(c, state, body) ==
  sent' = [sent EXCEPT ![c] = Append(@, [text |-> TRUE, body |-> body])]

\* QWebSocket::sendTextMessage: a socket that is not connected drops the text.
SendText(c, state, body) ==
  sent' = IF state = "connected"
            THEN [sent EXCEPT ![c] = Append(@, [text |-> TRUE, body |-> body])]
            ELSE sent

-----------------------------------------------------------------------------
\* main up to app.exec(): the socket is made, its signals are connected, it is
\* opened, and the first text is sent before it can be connected.
Starts(c) ==
  /\ main[c] = "start"
  /\ main'   = [main EXCEPT ![c] = "exec"]
  /\ socket' = [socket EXCEPT ![c] = "connecting"]
  /\ SendText(c, "connecting", Hello)
  /\ UNCHANGED got

\* The process is gone, main has not returned.
Dies(c) ==
  /\ main'   = [main EXCEPT ![c] = "dead"]
  /\ socket' = [socket EXCEPT ![c] = "none"]
  /\ UNCHANGED <<sent, got>>

\* The first log_info cannot open the log file and throws; main catches nothing.
StartFails(c) == main[c] = "start" /\ Dies(c)

\* A lambda uses a reference to a dead stack slot.  The pointer may still be
\* found there, in which case all goes on as if it were good, or not.
Crashes(c) == ~Elided /\ Dies(c)

\* The handshake is done: signal connected.
Connected(c) ==
  /\ main[c] = "exec"
  /\ socket[c] = "connecting"
  /\ \/ /\ socket' = [socket EXCEPT ![c] = "connected"]
        /\ SendText(c, "connected", Greeting)
        /\ UNCHANGED <<main, got>>
     \/ Crashes(c)

\* A text arrives: signal textMessageReceived, whose lambda captures nothing.
\* A binary message would raise another signal, which nobody listens to.
Receives(c, m) ==
  /\ main[c] = "exec"
  /\ socket[c] = "connected"
  /\ m.text
  /\ got' = [got EXCEPT ![c] = Append(@, m.body)]
  /\ UNCHANGED <<main, socket, sent>>

\* Mutant: only a connection that cannot be made is noticed.
MutLost(c) ==
  /\ main[c] = "exec"
  /\ socket[c] = "connecting"
  /\ socket' = [socket EXCEPT ![c] = "unconnected"]
  /\ UNCHANGED <<main, sent, got>>

\* The connection cannot be made or is lost: signals errorOccurred and then
\* disconnected.  Nothing opens it again.
Lost(c) ==
  /\ main[c] = "exec"
  /\ socket[c] \in {"connecting", "connected"}
  /\ \/ /\ socket' = [socket EXCEPT ![c] = "unconnected"]
        /\ UNCHANGED <<main, sent, got>>
     \/ Crashes(c)

\* app.exec() returns and main destroys its locals.  The destructor of a
\* connected socket sends a close frame and may signal disconnected.
Quits(c) ==
  /\ main[c] = "exec"
  /\ \/ /\ main'   = [main EXCEPT ![c] = "over"]
        /\ socket' = [socket EXCEPT ![c] = "none"]
        /\ UNCHANGED <<sent, got>>
     \/ socket[c] # "unconnected" /\ Crashes(c)

Killed(c) == main[c] = "exec" /\ Dies(c)
=============================================================================
