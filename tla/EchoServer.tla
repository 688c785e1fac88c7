----------------------------- MODULE EchoServer -----------------------------
(***************************************************************************)
(* The backend of the detector as src/app/main.cpp runs it: main starts    *)
(* the listener coroutine do_listen on an io_context with ONE thread, the  *)
(* listener spawns one do_session coroutine per accepted connection, and   *)
(* every session performs the websocket handshake and then echoes.         *)
(*                                                                         *)
(* One thread runs all coroutines, so an action of this module is one      *)
(* resumption of a coroutine: everything from the completion of one        *)
(* co_await to the next co_await, or to the exception that ends it.        *)
(*                                                                         *)
(* The peers, the network and the libraries (Boost.Asio, Boost.Beast and   *)
(* nlohmann::json) are not part of the repository; the actions whose names *)
(* start with Peer, and the completions a co_await may have, are modelled  *)
(* from how main.cpp uses them.                                            *)
(***************************************************************************)
EXTENDS Naturals, Sequences

CONSTANTS
  Conns,       \* the connections that peers may open
  Bodies,      \* the payloads a peer may send
  MaxMsgs,     \* bound: messages a peer sends on one connection
  JsonThrows   \* does json.get_to(json_string) throw on a JSON object?

ASSUME EchoServerAssumption ==
  /\ MaxMsgs \in Nat
  /\ JsonThrows \in BOOLEAN

VARIABLES
  listener,    \* where do_listen is
  peer,        \* [Conns -> the peer's own view of its connection]
  left,        \* [Conns -> did the peer give the connection up itself?]
  faulty,      \* [Conns -> did it send what the stream refuses, or fall silent?]
  session,     \* [Conns -> where do_session(stream) is]
  closed,      \* [Conns -> has the websocket stream seen the closing handshake?]
  sent,        \* [Conns -> the messages the peer has sent, in order]
  nread,       \* [Conns -> how many of them async_read has delivered]
  buffer,      \* [Conns -> the body in the flat_buffer of this iteration]
  textMode,    \* [Conns -> the stream's text option, set by ws.text]
  echoed       \* [Conns -> the messages async_write has put on the wire]

peerVars    == <<peer, left, faulty, sent>>
sessionVars == <<session, closed, nread, buffer, textMode, echoed>>
vars        == <<listener, peerVars, sessionVars>>

Message == [text : BOOLEAN, body : Bodies]
NoBody  == "no body"

ListenerState == {"opening", "listening", "failed"}
PeerState     == {"idle", "tcp", "requested", "bad", "open", "closing", "gone"}
SessionState  == {"none", "spawned", "handshake", "reading", "writing", "over"}

(* Every variable has its type; a session that is writing has a body.      *)
TypeOK ==
  /\ listener \in ListenerState
  /\ peer     \in [Conns -> PeerState]
  /\ left     \in [Conns -> BOOLEAN]
  /\ faulty   \in [Conns -> BOOLEAN]
  /\ session  \in [Conns -> SessionState]
  /\ closed   \in [Conns -> BOOLEAN]
  /\ sent     \in [Conns -> Seq(Message)]
  /\ nread    \in [Conns -> Nat]
  /\ buffer   \in [Conns -> Bodies \union {NoBody}]
  /\ textMode \in [Conns -> BOOLEAN]
  /\ echoed   \in [Conns -> Seq(Message)]
  /\ \A c \in Conns : session[c] = "writing" => buffer[c] \in Bodies

Init ==
  /\ listener = "opening"
  /\ peer     = [c \in Conns |-> "idle"]
  /\ left     = [c \in Conns |-> FALSE]
  /\ faulty   = [c \in Conns |-> FALSE]
  /\ session  = [c \in Conns |-> "none"]
  /\ closed   = [c \in Conns |-> FALSE]
  /\ sent     = [c \in Conns |-> << >>]
  /\ nread    = [c \in Conns |-> 0]
  /\ buffer   = [c \in Conns |-> NoBody]
  /\ textMode = [c \in Conns |-> TRUE]
  /\ echoed   = [c \in Conns |-> << >>]

-----------------------------------------------------------------------------
(* The listener: do_listen.                                                *)

\* open, set_option, bind and listen succeed, and the accept loop starts.
ListenerOpens ==
  /\ listener = "opening"
  /\ listener' = "listening"
  /\ UNCHANGED <<peerVars, sessionVars>>

\* One of them throws, or async_accept does.  The exception ends do_listen
\* for good: no handler restarts it.  Its acceptor is destroyed, so the
\* connections nobody accepted are reset; running sessions are not touched.
ListenerFails ==
  /\ listener \in {"opening", "listening"}
  /\ listener' = "failed"
  /\ peer' = [c \in Conns |-> IF session[c] = "none" /\ peer[c] # "idle"
                                THEN "gone" ELSE peer[c]]
  /\ UNCHANGED <<left, faulty, sent, sessionVars>>

\* Mutant: the listener runs the session itself instead of co_spawning it.
MutAcceptAwaits(c) ==
  /\ listener = "listening"
  /\ session[c] = "none"
  /\ peer[c] # "idle"
  /\ \A d \in Conns : session[d] \in {"none", "over"}
  /\ session' = [session EXCEPT ![c] = "spawned"]
  /\ UNCHANGED <<listener, peerVars, closed, nread, buffer, textMode, echoed>>

\* async_accept delivers c; co_spawn starts a session for it and the loop
\* awaits the next connection.
Accept(c) ==
  /\ listener = "listening"
  /\ session[c] = "none"
  /\ peer[c] # "idle"
  /\ session' = [session EXCEPT ![c] = "spawned"]
  /\ UNCHANGED <<listener, peerVars, closed, nread, buffer, textMode, echoed>>

-----------------------------------------------------------------------------
(* The session: do_session.                                                *)

\* An exception leaves do_session: the stream is destroyed and the completion
\* handler logs what() and returns.
SessionEnds(c) ==
  /\ session' = [session EXCEPT ![c] = "over"]
  /\ buffer'  = [buffer EXCEPT ![c] = NoBody]

\* Mutant: the iteration ends the session, as if the loop were missing.
MutIterationEnds(c) == SessionEnds(c)

\* The top of an iteration: a fresh flat_buffer, the JSON placeholder, and
\* then async_read.  json holds an object, so get_to into a std::string
\* throws type_error, which the handler for system_error does not catch.
IterationStarts(c) ==
  IF JsonThrows
    THEN SessionEnds(c)
    ELSE /\ session' = [session EXCEPT ![c] = "reading"]
         /\ buffer'  = [buffer EXCEPT ![c] = NoBody]

\* The coroutine runs to async_accept of the handshake.
SessionStarts(c) ==
  /\ session[c] = "spawned"
  /\ session' = [session EXCEPT ![c] = "handshake"]
  /\ UNCHANGED <<listener, peerVars, closed, nread, buffer, textMode, echoed>>

\* The upgrade request is valid: the response is on its way to the peer and
\* the echo loop starts.
HandshakeDone(c) ==
  /\ session[c] = "handshake"
  /\ peer[c] = "requested"
  /\ peer' = [peer EXCEPT ![c] = "open"]
  /\ IterationStarts(c)
  /\ UNCHANGED <<listener, left, faulty, sent, closed, nread, textMode, echoed>>

\* A bad request, a lost peer, or the handshake timeout of
\* timeout::suggested.  This co_await is outside the try block.
HandshakeFails(c) ==
  /\ session[c] = "handshake"
  /\ peer[c] \in {"tcp", "requested", "bad", "gone"}
  /\ SessionEnds(c)
  /\ UNCHANGED <<listener, peerVars, closed, nread, textMode, echoed>>

\* Mutant: the message is read into a buffer that is not the one written.
MutReadElsewhere(c) ==
  /\ session[c] = "reading"
  /\ ~closed[c]
  /\ nread[c] < Len(sent[c])
  /\ nread'    = [nread EXCEPT ![c] = @ + 1]
  /\ textMode' = [textMode EXCEPT ![c] = sent[c][nread[c] + 1].text]
  /\ session'  = [session EXCEPT ![c] = "writing"]
  /\ UNCHANGED <<listener, peerVars, closed, buffer, echoed>>

\* Mutant: ws.text(ws.got_text()) is missing.
MutReadKeepsMode(c) ==
  /\ session[c] = "reading"
  /\ ~closed[c]
  /\ nread[c] < Len(sent[c])
  /\ nread'    = [nread EXCEPT ![c] = @ + 1]
  /\ buffer'   = [buffer EXCEPT ![c] = sent[c][nread[c] + 1].body]
  /\ session'  = [session EXCEPT ![c] = "writing"]
  /\ UNCHANGED <<listener, peerVars, closed, textMode, echoed>>

\* Mutant: async_write is not awaited, the loop reads on at once.
MutReadOnly(c) ==
  /\ session[c] = "reading"
  /\ ~closed[c]
  /\ nread[c] < Len(sent[c])
  /\ nread' = [nread EXCEPT ![c] = @ + 1]
  /\ IterationStarts(c)
  /\ UNCHANGED <<listener, peerVars, closed, textMode, echoed>>

\* async_read delivers the next message; the reply is given its type with
\* ws.text(ws.got_text()) and async_write starts.  What the kernel has
\* received can be read even after the peer is gone.
ReadDone(c) ==
  /\ session[c] = "reading"
  /\ ~closed[c]
  /\ nread[c] < Len(sent[c])
  /\ nread'    = [nread EXCEPT ![c] = @ + 1]
  /\ buffer'   = [buffer EXCEPT ![c] = sent[c][nread[c] + 1].body]
  /\ textMode' = [textMode EXCEPT ![c] = sent[c][nread[c] + 1].text]
  /\ session'  = [session EXCEPT ![c] = "writing"]
  /\ UNCHANGED <<listener, peerVars, closed, echoed>>

\* async_read meets the peer's close frame: the stream answers it, tears the
\* connection down and throws error::closed.  The handler swallows exactly
\* that error and the loop goes round again.
ReadClosed(c) ==
  /\ session[c] = "reading"
  /\ ~closed[c]
  /\ peer[c] = "closing"
  /\ ~faulty[c]
  /\ nread[c] = Len(sent[c])
  /\ closed' = [closed EXCEPT ![c] = TRUE]
  /\ peer'   = [peer EXCEPT ![c] = "gone"]
  /\ IterationStarts(c)
  /\ UNCHANGED <<listener, left, faulty, sent, nread, textMode, echoed>>

\* Nothing more is to come that the stream could deliver: it is closed, its
\* peer is lost, or behind its messages the peer has sent a frame that breaks
\* the protocol or is too big, or no longer answers pings.
Unreadable(c) ==
  closed[c] \/ peer[c] = "gone" \/ (faulty[c] /\ nread[c] = Len(sent[c]))

\* Mutant: the handler swallows every error, not only error::closed.
MutReadFailsSwallowed(c) ==
  /\ session[c] = "reading"
  /\ Unreadable(c)
  /\ IterationStarts(c)
  /\ UNCHANGED <<listener, peerVars, closed, nread, textMode, echoed>>

\* Every other error of async_read is rethrown: reading from a stream that
\* is closed gives operation_aborted, a lost peer gives a transport error or
\* the idle timeout, a faulty one the error the stream has for it.
ReadFails(c) ==
  /\ session[c] = "reading"
  /\ Unreadable(c)
  /\ SessionEnds(c)
  /\ UNCHANGED <<listener, peerVars, closed, nread, textMode, echoed>>

\* async_write(buffer.data()) completes and the loop goes round.  It completes
\* when the kernel has the bytes, whatever becomes of the peer.
WriteDone(c) ==
  /\ session[c] = "writing"
  /\ echoed' = [echoed EXCEPT ![c] =
                  Append(@, [text |-> textMode[c], body |-> buffer[c]])]
  /\ IterationStarts(c)
  /\ UNCHANGED <<listener, peerVars, closed, nread, textMode>>

\* The peer was lost while the reply was being written, or is there and takes
\* nothing more, until the idle timeout.
WriteFails(c) ==
  /\ session[c] = "writing"
  /\ peer[c] = "gone" \/ faulty[c]
  /\ SessionEnds(c)
  /\ UNCHANGED <<listener, peerVars, closed, nread, textMode, echoed>>

Server(c) ==
  \/ Accept(c) \/ SessionStarts(c)
  \/ HandshakeDone(c) \/ HandshakeFails(c)
  \/ ReadDone(c) \/ ReadClosed(c) \/ ReadFails(c)
  \/ WriteDone(c) \/ WriteFails(c)

-----------------------------------------------------------------------------
(* The peers and the network, external.                                    *)

PeerConnects(c) ==
  /\ peer[c] = "idle"
  /\ listener = "listening"
  /\ peer' = [peer EXCEPT ![c] = "tcp"]
  /\ UNCHANGED <<listener, left, faulty, sent, sessionVars>>

PeerRequests(c) ==
  /\ peer[c] = "tcp"
  /\ peer' \in {[peer EXCEPT ![c] = p] : p \in {"requested", "bad"}}
  /\ UNCHANGED <<listener, left, faulty, sent, sessionVars>>

\* A peer does not know yet that the server ended the session.  What a faulty
\* one sends is never read.
PeerSends(c, m) ==
  /\ peer[c] = "open"
  /\ ~faulty[c]
  /\ Len(sent[c]) < MaxMsgs
  /\ sent' = [sent EXCEPT ![c] = Append(@, m)]
  /\ UNCHANGED <<listener, peer, left, faulty, sessionVars>>

\* It sends what the stream refuses, a message above read_message_max or a
\* frame that is malformed, or it stops reading and answering.
PeerErrs(c) ==
  /\ peer[c] = "open"
  /\ ~faulty[c]
  /\ faulty' = [faulty EXCEPT ![c] = TRUE]
  /\ UNCHANGED <<listener, peer, left, sent, sessionVars>>

PeerCloses(c) ==
  /\ peer[c] = "open"
  /\ peer' = [peer EXCEPT ![c] = "closing"]
  /\ left' = [left EXCEPT ![c] = TRUE]
  /\ UNCHANGED <<listener, faulty, sent, sessionVars>>

\* The peer or the network drops the connection without a close frame.
PeerVanishes(c) ==
  /\ peer[c] \notin {"idle", "gone"}
  /\ peer' = [peer EXCEPT ![c] = "gone"]
  /\ left' = [left EXCEPT ![c] = TRUE]
  /\ UNCHANGED <<listener, faulty, sent, sessionVars>>

\* The peer notices that the server has torn the connection down.
PeerNotices(c) ==
  /\ peer[c] \notin {"idle", "gone"}
  /\ session[c] = "over"
  /\ peer' = [peer EXCEPT ![c] = "gone"]
  /\ UNCHANGED <<listener, left, faulty, sent, sessionVars>>

Peer(c) ==
  \/ PeerConnects(c) \/ PeerRequests(c) \/ PeerErrs(c) \/ PeerCloses(c)
  \/ PeerVanishes(c) \/ PeerNotices(c)
  \/ \E m \in Message : PeerSends(c, m)

-----------------------------------------------------------------------------
Next ==
  \/ ListenerOpens
  \/ ListenerFails
  \/ \E c \in Conns : Server(c) \/ Peer(c)

(* io_context::run resumes every coroutine whose co_await has completed;   *)
(* peers and failures of the listener owe nothing.                         *)
Fairness ==
  /\ WF_vars(ListenerOpens)
  /\ \A c \in Conns : WF_vars(Server(c))

Spec     == Init /\ [][Next]_vars
FairSpec == Spec /\ Fairness

-----------------------------------------------------------------------------
(* Properties.                                                             *)

\* What a peer gets back is what it sent, in the order and with the type
\* (text or binary) it sent it, without gaps and without duplicates.
\* main.cpp:70-74.
EchoIsPrefix ==
  \A c \in Conns :
    /\ Len(echoed[c]) <= Len(sent[c])
    /\ \A i \in 1 .. Len(echoed[c]) : echoed[c][i] = sent[c][i]

\* The loop reads the next message only once the reply to the previous one is
\* written, and gives no message up while its session lives: what is read and
\* not yet echoed is the one message in the buffer.  main.cpp:56-76.
OneMessageInFlight ==
  \A c \in Conns :
    session[c] # "over" =>
      /\ nread[c] = Len(echoed[c]) + (IF session[c] = "writing" THEN 1 ELSE 0)
      /\ session[c] = "writing" => buffer[c] = sent[c][nread[c]].body

\* Failures stay where they happen: the session of a peer that keeps its side
\* of the connection is not ended by another session or by the listener.
\* It ends only during the handshake, or in the echo loop after its peer left
\* or broke the protocol.
\* main.cpp:106-117 (the completion handler swallows every std::exception).
EndsOnlyByItsPeer ==
  \A c \in Conns :
    (session[c] = "over" /\ nread[c] + Len(sent[c]) > 0) => left[c] \/ faulty[c]

\* "Echoes back all received WebSocket messages" (main.cpp:35): every message
\* is answered unless the peer that sent it leaves or breaks the protocol.
EchoesAll ==
  \A c \in Conns : \A i \in 1 .. MaxMsgs :
    (Len(sent[c]) >= i) ~> (Len(echoed[c]) >= i \/ left[c] \/ faulty[c])

\* A closing handshake ends the session although the handler swallows
\* error::closed and loops: the second async_read fails with another error.
\* So does losing the peer, and a peer that breaks the protocol.
\* main.cpp:77-81.
ClosedSessionEnds ==
  \A c \in Conns :
    (session[c] = "reading" /\ (peer[c] \in {"closing", "gone"} \/ faulty[c]))
      ~> (session[c] = "over")

\* A connection in the backlog gets a session as long as the listener lives,
\* however many sessions are waiting for their peers.  main.cpp:105-117.
ConnectionsGetSessions ==
  \A c \in Conns :
    (peer[c] = "tcp") ~> (session[c] # "none" \/ listener = "failed")
=============================================================================
