-------------------------- MODULE DeploymentProofs ---------------------------
(***************************************************************************)
(* The backend among its clients, with its log, is the echo server of      *)
(* EchoServer, for any number of clients and any capacity of the log       *)
(* queue.  So what is proved of EchoServer is true of the deployment, and  *)
(* a client gets back what it sent, once.                                  *)
(***************************************************************************)
EXTENDS Deployment, EchoServerProofs

USE EchoServerAssumption, DeploymentAssumption

-----------------------------------------------------------------------------
(* What the clients' state says about the wire.                            *)

\* Before its connection is made a client has sent nothing.
Silent(c) == (main[c] = "start" \/ socket[c] = "connecting") => sent[c] = << >>

\* Qt's sockets keep to the protocol.
Faultless == \A c \in Conns : ~faulty[c]

SystemInv == TypeOK /\ C!TypeOK /\ (\A c \in Conns : Silent(c)) /\ Faultless

\* What the program, its user and its network do, and the kernel for it.
ClientStep(c) ==
  \/ ClientStarts(c) \/ ClientEvent(c)
  \/ ClientLosesNetwork(c) \/ ClientQuits(c) \/ ClientKilled(c) \/ ClosedBehind(c)

\* The kernel's end of a connection is the peer's.
LEMMA DropsIsPeer ==
  ASSUME NEW c \in Conns, Drops(c)
  PROVE  Peer(c) \/ UNCHANGED vars
BY DEF Drops, Peer, onlyPeer, vars, peerVars

\* A client that dies, or notices, sends nothing.
LEMMA LostSendsNothing ==
  ASSUME NEW c \in Conns, C!Lost(c)
  PROVE  UNCHANGED sent
BY DEF C!Lost, C!Crashes, C!Dies

\* What a client does is what a peer does, or nothing that the server sees.
LEMMA ClientIsPeer ==
  ASSUME SystemInv, NEW c \in Conns, ClientStep(c)
  PROVE  Peer(c) \/ UNCHANGED vars
<1> USE DEF onlyPeer, vars, peerVars
<1>1. CASE ClientStarts(c)
  BY <1>1 DEF ClientStarts, C!Starts, C!StartFails, C!Dies, C!SendText
<1>2. CASE ClientDials(c)
  BY <1>2 DEF ClientDials, Peer
<1>3. CASE ClientConnected(c)
  <2>1. peer[c] = "open" /\ C!Connected(c)
    BY <1>3 DEF ClientConnected
  <2>2. CASE C!Crashes(c)
    <3>1. main'[c] = "dead" /\ UNCHANGED sent
      BY <2>2 DEF C!Crashes, C!Dies, SystemInv, C!TypeOK
    <3>2. PeerVanishes(c)
      BY <1>3, <3>1 DEF ClientConnected
    <3> QED BY <3>2 DEF Peer
  <2>3. CASE ~C!Crashes(c)
    <3> DEFINE m == [text |-> TRUE, body |-> Greeting]
    <3>1. /\ main[c] = "exec" /\ socket[c] = "connecting" /\ UNCHANGED main
          /\ sent' = [sent EXCEPT ![c] = Append(@, m)]
      BY <2>1, <2>3 DEF C!Connected, C!SendText
    <3>2. UNCHANGED onlyPeer
      BY <1>3, <3>1 DEF ClientConnected
    <3>3. m \in Message
      BY DEF Message
    <3>4. Len(sent[c]) < MaxMsgs
      <4>1. sent[c] = << >>
        BY <3>1 DEF SystemInv, Silent
      <4>2. Len(sent[c]) = 0
        BY <4>1
      <4> QED BY <4>2
    <3>5. PeerSends(c, m)
      BY <2>1, <3>1, <3>2, <3>4 DEF PeerSends, SystemInv, Faultless
    <3> QED BY <3>3, <3>5 DEF Peer
  <2> QED BY <2>2, <2>3
<1>4. CASE ClientReceives(c)
  BY <1>4 DEF ClientReceives, C!Receives
<1>5. CASE ClientNotices(c)
  BY <1>5, LostSendsNothing DEF ClientNotices, Peer
<1>6. CASE ClientLosesNetwork(c)
  BY <1>6 DEF ClientLosesNetwork, Peer
<1>7. CASE ClientQuits(c)
  BY <1>7, DropsIsPeer DEF ClientQuits, Peer
<1>8. CASE ClientKilled(c)
  BY <1>8, DropsIsPeer DEF ClientKilled
<1>9. CASE ClosedBehind(c)
  BY <1>9 DEF ClosedBehind, Peer
<1> QED
  BY <1>1, <1>2, <1>3, <1>4, <1>5, <1>6, <1>7, <1>8, <1>9 DEF ClientStep, ClientEvent

\* What the backend does is what the server does, or only about its log.
LEMMA BackendIsServer ==
  ASSUME \/ ListenerStep \/ BackendExits \/ BackendLogs \/ BackendKilled
         \/ \E c \in Conns : SessionStep(c)
  PROVE  [Next]_vars
BY DEF ListenerStep, BackendExits, BackendLogs, BackendKilled, SessionStep, Next

\* Every step of the deployment is a step of the echo server, or none.
LEMMA StepIsEchoStep ==
  ASSUME SystemInv, [SystemNext]_systemVars
  PROVE  [Next]_vars
<1>1. ASSUME NEW c \in Conns, ClientStep(c) PROVE [Next]_vars
  BY <1>1, ClientIsPeer DEF Next
<1> QED BY <1>1, BackendIsServer DEF SystemNext, ClientStep, systemVars

\* A client that is not among those that move keeps what SystemInv says of it.
LEMMA StepSilent ==
  ASSUME SystemInv, [SystemNext]_systemVars
  PROVE  C!TypeOK' /\ \A c \in Conns : Silent(c)'
<1> USE DEF SystemInv, C!TypeOK, C!MainState, C!SocketState, Silent
<1>1. CASE UNCHANGED <<main, socket, sent>>
  BY <1>1
<1>2. ASSUME NEW d \in Conns, C!Dies(d) PROVE C!TypeOK' /\ \A c \in Conns : Silent(c)'
  BY <1>2 DEF C!Dies
<1>3. ASSUME NEW d \in Conns, ClientStarts(d)
      PROVE  C!TypeOK' /\ \A c \in Conns : Silent(c)'
  BY <1>2, <1>3 DEF ClientStarts, C!Starts, C!StartFails, C!SendText
<1>4. ASSUME NEW d \in Conns, ClientDials(d) PROVE UNCHANGED <<main, socket, sent>>
  BY <1>4 DEF ClientDials, PeerConnects, PeerRequests, onlyClient
<1>5. ASSUME NEW d \in Conns, C!Connected(d)
      PROVE  C!TypeOK' /\ \A c \in Conns : Silent(c)'
  <2>1. CASE C!Crashes(d)
    BY <1>2, <2>1 DEF C!Crashes
  <2>2. CASE ~C!Crashes(d)
    <3>1. /\ main[d] = "exec" /\ UNCHANGED main
          /\ socket' = [socket EXCEPT ![d] = "connected"]
          /\ \A c \in Conns \ {d} : sent'[c] = sent[c]
      BY <1>5, <2>2 DEF C!Connected, C!SendText, TypeOK
    <3> QED BY <3>1
  <2> QED BY <2>1, <2>2
<1>6. ASSUME NEW d \in Conns, ClientReceives(d) PROVE UNCHANGED <<main, socket, sent>>
  BY <1>6 DEF ClientReceives, C!Receives
<1>7. ASSUME NEW d \in Conns, C!Lost(d)
      PROVE  C!TypeOK' /\ \A c \in Conns : Silent(c)'
  BY <1>2, <1>7 DEF C!Lost, C!Crashes
<1>8. ASSUME NEW d \in Conns, C!Quits(d)
      PROVE  C!TypeOK' /\ \A c \in Conns : Silent(c)'
  BY <1>2, <1>8 DEF C!Quits, C!Crashes
<1>9. ASSUME NEW d \in Conns, ClosedBehind(d) PROVE UNCHANGED <<main, socket, sent>>
  BY <1>9 DEF ClosedBehind, PeerVanishes, onlyClient
<1>10. ASSUME NEW d \in Conns, SessionStep(d) PROVE UNCHANGED <<main, socket, sent>>
  BY <1>10 DEF SessionStep, onlyClient, Server, Accept, SessionStarts, HandshakeDone,
     HandshakeFails, ReadDone, ReadClosed, ReadFails, WriteDone, WriteFails, peerVars
<1>11. ASSUME ListenerStep \/ BackendExits \/ BackendLogs \/ BackendKilled
       PROVE  UNCHANGED <<main, socket, sent>>
  BY <1>11 DEF ListenerStep, BackendExits, BackendLogs, BackendKilled, ListenerOpens,
     ListenerFails, onlyClient, vars, peerVars
<1>12. CASE UNCHANGED systemVars
  BY <1>1, <1>12 DEF systemVars, vars, peerVars, onlyClient
<1>13. ASSUME NEW d \in Conns,
              \/ ClientConnected(d) \/ ClientNotices(d) \/ ClientLosesNetwork(d)
              \/ ClientQuits(d) \/ ClientKilled(d)
       PROVE  C!TypeOK' /\ \A c \in Conns : Silent(c)'
  BY <1>13, <1>2, <1>5, <1>7, <1>8
  DEF ClientConnected, ClientNotices, ClientLosesNetwork, ClientQuits, ClientKilled, C!Killed
<1> HIDE DEF SystemInv, C!TypeOK, C!MainState, C!SocketState, Silent
<1> QED
  BY <1>1, <1>3, <1>4, <1>6, <1>9, <1>10, <1>11, <1>12, <1>13 DEF SystemNext, ClientEvent

\* No client starts to break the protocol.
LEMMA StepFaultless ==
  ASSUME SystemInv, [SystemNext]_systemVars
  PROVE  Faultless'
<1> USE DEF onlyPeer, vars, peerVars, sessionVars
<1>1. ASSUME NEW c \in Conns, ClientStep(c) PROVE UNCHANGED faulty
  <2>1. Drops(c) => UNCHANGED faulty
    BY DEF Drops, PeerVanishes
  <2> QED
    BY <1>1, <2>1 DEF ClientStep, ClientEvent, ClientStarts, ClientDials, ClientConnected,
       ClientReceives, ClientNotices, ClientLosesNetwork, ClientQuits, ClientKilled,
       ClosedBehind, PeerConnects, PeerRequests, PeerCloses, PeerVanishes, PeerNotices
<1>2. ASSUME NEW c \in Conns, SessionStep(c) PROVE UNCHANGED faulty
  BY <1>2 DEF SessionStep, Server, Accept, SessionStarts, HandshakeDone,
     HandshakeFails, ReadDone, ReadClosed, ReadFails, WriteDone, WriteFails
<1>3. ASSUME ListenerStep \/ BackendExits \/ BackendLogs \/ BackendKilled
      PROVE  UNCHANGED faulty
  BY <1>3 DEF ListenerStep, BackendExits, BackendLogs, BackendKilled, ListenerOpens,
     ListenerFails
<1>4. UNCHANGED faulty
  BY <1>1, <1>2, <1>3 DEF SystemNext, ClientStep, systemVars
<1> QED  BY <1>4 DEF SystemInv, Faultless

\* At first no client runs.
LEMMA InitSystem == SystemInit => SystemInv
<1> SUFFICES ASSUME SystemInit PROVE SystemInv
  OBVIOUS
<1>1. TypeOK
  BY InitType DEF SystemInit
<1>2. C!TypeOK
  BY DEF SystemInit, C!Init, C!TypeOK, C!MainState, C!SocketState
<1>3. \A c \in Conns : Silent(c)
  BY DEF SystemInit, Init, Silent
<1>4. Faultless
  BY DEF SystemInit, Init, Faultless
<1> QED BY <1>1, <1>2, <1>3, <1>4 DEF SystemInv

LEMMA SystemForever == SystemSpec => []SystemInv
<1>1. SystemInv /\ [SystemNext]_systemVars => SystemInv'
  BY StepIsEchoStep, StepType, StepSilent, StepFaultless DEF SystemInv
<1> QED BY <1>1, InitSystem, PTL DEF SystemSpec

\* For any number of clients and any capacity of the log queue the backend
\* among them is the echo server of EchoServer: clients, log, crash and exit
\* are peers and pauses.
THEOREM DeploymentImplementsEchoServer == SystemSpec => ImplementsEchoServer
<1>1. SystemInit => Init
  BY DEF SystemInit
<1>2. SystemInv /\ [SystemNext]_systemVars => [Next]_vars
  BY StepIsEchoStep
<1> QED BY <1>1, <1>2, SystemForever, PTL DEF SystemSpec, Spec, ImplementsEchoServer

-----------------------------------------------------------------------------
(* From one program through the other and back.                            *)

\* A client sends the greeting, once, and what it has received is what the
\* server has echoed, as far as it has arrived.
Conversation(c) ==
  /\ Len(sent[c]) <= 1
  /\ \A i \in 1 .. Len(sent[c]) : sent[c][i].body = Greeting
  /\ got[c] \in Seq(Bodies)
  /\ Len(got[c]) <= Len(echoed[c])
  /\ \A i \in 1 .. Len(got[c]) : got[c][i] = echoed[c][i].body

TalkInv == got \in [Conns -> Seq(Bodies)] /\ \A c \in Conns : Conversation(c)

\* The replies on the wire only get more.
LEMMA EchoedGrows ==
  ASSUME TypeOK, [Next]_vars, NEW c \in Conns
  PROVE  /\ Len(echoed[c]) \in Nat /\ Len(echoed'[c]) >= Len(echoed[c])
         /\ Len(echoed'[c]) \in Nat
         /\ \A i \in 1 .. Len(echoed[c]) : echoed'[c][i] = echoed[c][i]
<1>1. echoed[c] \in Seq(Message) /\ Len(echoed[c]) \in Nat
  BY DEF TypeOK
<1>2. CASE UNCHANGED echoed
  BY <1>1, <1>2
<1>3. ASSUME NEW d \in Conns, WriteDone(d)
      PROVE  \/ echoed'[c] = echoed[c]
             \/ \E m \in Message : echoed'[c] = Append(echoed[c], m)
  <2>1. [text |-> textMode[d], body |-> buffer[d]] \in Message
    BY <1>3 DEF WriteDone, TypeOK, Message
  <2>2. echoed' = [echoed EXCEPT ![d] =
                     Append(@, [text |-> textMode[d], body |-> buffer[d]])]
    BY <1>3 DEF WriteDone
  <2> QED BY <2>1, <2>2 DEF TypeOK
<1>4. ASSUME NEW d \in Conns, WriteDone(d)
      PROVE  /\ Len(echoed'[c]) >= Len(echoed[c]) /\ Len(echoed'[c]) \in Nat
             /\ \A i \in 1 .. Len(echoed[c]) : echoed'[c][i] = echoed[c][i]
  <2>1. CASE echoed'[c] = echoed[c]
    BY <1>1, <2>1
  <2>2. ASSUME NEW m \in Message, echoed'[c] = Append(echoed[c], m)
        PROVE  /\ Len(echoed'[c]) >= Len(echoed[c]) /\ Len(echoed'[c]) \in Nat
               /\ \A i \in 1 .. Len(echoed[c]) : echoed'[c][i] = echoed[c][i]
    <3>1. /\ Len(Append(echoed[c], m)) = Len(echoed[c]) + 1
          /\ \A i \in 1 .. Len(echoed[c]) : Append(echoed[c], m)[i] = echoed[c][i]
      BY <1>1, AppendFacts
    <3> QED BY <1>1, <2>2, <3>1
  <2> QED BY <1>3, <1>4, <2>1, <2>2
<1>5. UNCHANGED echoed \/ \E d \in Conns : WriteDone(d)
  BY DEF Next, Server, Peer, ListenerOpens, ListenerFails, Accept, SessionStarts,
     HandshakeDone, HandshakeFails, ReadDone, ReadClosed, ReadFails, WriteFails,
     PeerConnects, PeerRequests, PeerSends, PeerErrs, PeerCloses, PeerVanishes,
     PeerNotices, sessionVars, vars
<1> QED BY <1>1, <1>2, <1>4, <1>5

\* What the clients send and receive in a step.
LEMMA WhoTalks ==
  ASSUME SystemInv, [SystemNext]_systemVars
  PROVE  \/ UNCHANGED <<sent, got>>
         \/ \E d \in Conns :
              /\ sent[d] = << >> /\ UNCHANGED got
              /\ sent' = [sent EXCEPT ![d] = Append(@, [text |-> TRUE, body |-> Greeting])]
         \/ \E d \in Conns :
              /\ Len(got[d]) < Len(echoed[d]) /\ UNCHANGED <<sent, echoed>>
              /\ got' = [got EXCEPT ![d] = Append(@, echoed[d][Len(got[d]) + 1].body)]
<1>1. ASSUME NEW d \in Conns, C!Dies(d) PROVE UNCHANGED <<sent, got>>
  BY <1>1 DEF C!Dies
<1>2. ASSUME NEW d \in Conns, ClientStarts(d) PROVE UNCHANGED <<sent, got>>
  BY <1>1, <1>2 DEF ClientStarts, C!Starts, C!StartFails, C!SendText
<1>3. ASSUME NEW d \in Conns, ClientDials(d) PROVE UNCHANGED <<sent, got>>
  BY <1>3 DEF ClientDials, PeerConnects, PeerRequests, onlyClient
<1>4. ASSUME NEW d \in Conns, ClientConnected(d)
      PROVE  \/ UNCHANGED <<sent, got>>
             \/ /\ sent[d] = << >> /\ UNCHANGED got
                /\ sent' = [sent EXCEPT ![d] = Append(@, [text |-> TRUE, body |-> Greeting])]
  <2>1. C!Connected(d) /\ Silent(d)
    BY <1>4 DEF ClientConnected, SystemInv
  <2> QED BY <1>1, <2>1 DEF C!Connected, C!Crashes, C!SendText, Silent
<1>5. ASSUME NEW d \in Conns, ClientReceives(d)
      PROVE  /\ Len(got[d]) < Len(echoed[d]) /\ UNCHANGED <<sent, echoed>>
             /\ got' = [got EXCEPT ![d] = Append(@, echoed[d][Len(got[d]) + 1].body)]
  BY <1>5 DEF ClientReceives, C!Receives, onlyPeer, sessionVars
<1>6. ASSUME NEW d \in Conns, C!Lost(d) \/ C!Quits(d) \/ C!Killed(d)
      PROVE  UNCHANGED <<sent, got>>
  BY <1>1, <1>6 DEF C!Lost, C!Quits, C!Killed, C!Crashes
<1>7. ASSUME NEW d \in Conns,
             ClientNotices(d) \/ ClientLosesNetwork(d) \/ ClientQuits(d) \/ ClientKilled(d)
      PROVE  UNCHANGED <<sent, got>>
  BY <1>6, <1>7 DEF ClientNotices, ClientLosesNetwork, ClientQuits, ClientKilled
<1>8. ASSUME NEW d \in Conns, ClosedBehind(d) PROVE UNCHANGED <<sent, got>>
  BY <1>8 DEF ClosedBehind, PeerVanishes, onlyClient
<1>9. ASSUME NEW d \in Conns, SessionStep(d) PROVE UNCHANGED <<sent, got>>
  BY <1>9 DEF SessionStep, onlyClient, Server, Accept, SessionStarts, HandshakeDone,
     HandshakeFails, ReadDone, ReadClosed, ReadFails, WriteDone, WriteFails, peerVars
<1>10. ASSUME ListenerStep \/ BackendExits \/ BackendLogs \/ BackendKilled
       PROVE  UNCHANGED <<sent, got>>
  BY <1>10 DEF ListenerStep, BackendExits, BackendLogs, BackendKilled, ListenerOpens,
     ListenerFails, onlyClient, vars, peerVars
<1>11. CASE UNCHANGED systemVars
  BY <1>11 DEF systemVars, vars, peerVars, onlyClient
<1> QED
  BY <1>2, <1>3, <1>4, <1>5, <1>7, <1>8, <1>9, <1>10, <1>11 DEF SystemNext, ClientEvent

\* Every step keeps the conversations.
LEMMA StepTalk ==
  ASSUME SystemInv, TalkInv, [SystemNext]_systemVars
  PROVE  TalkInv'
<1>1. TypeOK /\ sent \in [Conns -> Seq(Message)] /\ echoed \in [Conns -> Seq(Message)]
  BY DEF SystemInv, TypeOK
<1>2. [Next]_vars
  BY StepIsEchoStep
\* Whatever becomes of the replies: those that have arrived stay what they are.
<1>3. ASSUME NEW c \in Conns, got'[c] = got[c]
      PROVE  /\ got'[c] \in Seq(Bodies) /\ Len(got'[c]) <= Len(echoed'[c])
             /\ \A i \in 1 .. Len(got'[c]) : got'[c][i] = echoed'[c][i].body
  <2>1. /\ Len(echoed[c]) \in Nat /\ Len(echoed'[c]) >= Len(echoed[c])
        /\ Len(echoed'[c]) \in Nat
        /\ \A i \in 1 .. Len(echoed[c]) : echoed'[c][i] = echoed[c][i]
    BY <1>1, <1>2, EchoedGrows
  <2>2. /\ got[c] \in Seq(Bodies) /\ Len(got[c]) <= Len(echoed[c])
        /\ \A i \in 1 .. Len(got[c]) : got[c][i] = echoed[c][i].body
    BY DEF TalkInv, Conversation
  <2>3. Len(got[c]) \in Nat
    BY <2>2
  <2>4. \A i \in 1 .. Len(got[c]) : i \in 1 .. Len(echoed[c])
    BY <2>1, <2>2, <2>3
  <2> QED BY <1>3, <2>1, <2>2, <2>3, <2>4
<1>4. CASE UNCHANGED <<sent, got>>
  <2>1. ASSUME NEW c \in Conns PROVE Conversation(c)'
    <3>1. Conversation(c) /\ got'[c] = got[c] /\ sent'[c] = sent[c]
      BY <1>4 DEF TalkInv
    <3> QED BY <1>3, <3>1 DEF Conversation
  <2> QED BY <1>4, <2>1 DEF TalkInv
<1>5. ASSUME NEW d \in Conns, sent[d] = << >>, UNCHANGED got,
             sent' = [sent EXCEPT ![d] = Append(@, [text |-> TRUE, body |-> Greeting])]
      PROVE  TalkInv'
  <2> DEFINE m == [text |-> TRUE, body |-> Greeting]
  <2>1. m \in Message /\ m.body = Greeting
    BY DEF Message
  <2>2. sent'[d] = Append(sent[d], m)
    BY <1>1, <1>5
  <2>3. Len(sent'[d]) = 1 /\ sent'[d][1] = m
    <3>1. sent[d] \in Seq(Message) /\ Len(sent[d]) = 0
      BY <1>1, <1>5
    <3>2. Len(Append(sent[d], m)) = Len(sent[d]) + 1 /\ Append(sent[d], m)[Len(sent[d]) + 1] = m
      BY <2>1, <3>1, AppendFacts
    <3> QED BY <2>2, <3>1, <3>2
  <2>4. ASSUME NEW c \in Conns PROVE Conversation(c)'
    <3>1. Conversation(c) /\ got'[c] = got[c]
      BY <1>5 DEF TalkInv
    <3>2. Len(sent'[c]) <= 1 /\ \A i \in 1 .. Len(sent'[c]) : sent'[c][i].body = Greeting
      <4>1. CASE c = d
        <5>1. Len(sent'[c]) = 1 /\ sent'[c][1].body = Greeting
          BY <2>1, <2>3, <4>1
        <5>2. \A i \in 1 .. Len(sent'[c]) : i = 1
          BY <5>1
        <5> QED BY <5>1, <5>2
      <4>2. CASE c # d
        <5>1. sent'[c] = sent[c]
          BY <1>1, <1>5, <4>2
        <5> QED BY <3>1, <5>1 DEF Conversation
      <4> QED BY <4>1, <4>2
    <3> QED BY <1>3, <3>1, <3>2 DEF Conversation
  <2> QED BY <1>5, <2>4 DEF TalkInv
<1>6. ASSUME NEW d \in Conns, Len(got[d]) < Len(echoed[d]), UNCHANGED <<sent, echoed>>,
             got' = [got EXCEPT ![d] = Append(@, echoed[d][Len(got[d]) + 1].body)]
      PROVE  TalkInv'
  <2> DEFINE b == echoed[d][Len(got[d]) + 1].body
  <2>1. /\ got[d] \in Seq(Bodies) /\ Len(got[d]) \in Nat
        /\ echoed[d] \in Seq(Message) /\ Len(echoed[d]) \in Nat
    BY <1>1 DEF TalkInv
  <2>2. b \in Bodies
    <3>1. Len(got[d]) + 1 \in 1 .. Len(echoed[d])
      BY <1>6, <2>1
    <3>2. echoed[d][Len(got[d]) + 1] \in Message
      BY <2>1, <3>1
    <3> QED BY <3>2, MessageParts
  <2>3. got'[d] = Append(got[d], b) /\ \A c \in Conns \ {d} : got'[c] = got[c]
    BY <1>6 DEF TalkInv
  <2> HIDE DEF b
  <2>4. /\ Append(got[d], b) \in Seq(Bodies)
        /\ Len(Append(got[d], b)) = Len(got[d]) + 1
        /\ \A i \in 1 .. Len(got[d]) : Append(got[d], b)[i] = got[d][i]
        /\ Append(got[d], b)[Len(got[d]) + 1] = b
    BY <2>1, <2>2, AppendFacts
  <2>5. got' \in [Conns -> Seq(Bodies)]
    <3>1. got \in [Conns -> Seq(Bodies)]
      BY DEF TalkInv
    <3>2. got' = [got EXCEPT ![d] = Append(got[d], b)]
      BY <1>6 DEF b
    <3> QED BY <2>4, <3>1, <3>2
  <2>6. \A i \in 1 .. Len(got'[d]) : got'[d][i] = echoed[d][i].body
    <3>1. SUFFICES ASSUME NEW i \in 1 .. Len(got[d]) + 1 PROVE got'[d][i] = echoed[d][i].body
      BY <2>3, <2>4
    <3>2. CASE i = Len(got[d]) + 1
      BY <2>3, <2>4, <3>2 DEF b
    <3>3. CASE i # Len(got[d]) + 1
      <4>1. i \in 1 .. Len(got[d])
        BY <2>1, <3>3
      <4>2. got[d][i] = echoed[d][i].body
        BY <4>1 DEF TalkInv, Conversation
      <4> QED BY <2>3, <2>4, <4>1, <4>2
    <3> QED BY <3>2, <3>3
  <2>7. ASSUME NEW c \in Conns PROVE Conversation(c)'
    <3>1. Conversation(c) /\ sent'[c] = sent[c] /\ echoed'[c] = echoed[c]
      BY <1>6 DEF TalkInv
    <3>2. CASE c = d
      <4>1. got'[c] \in Seq(Bodies) /\ Len(got'[c]) <= Len(echoed'[c])
        BY <1>6, <2>1, <2>3, <2>4, <3>1, <3>2
      <4> QED BY <2>6, <3>1, <3>2, <4>1 DEF Conversation
    <3>3. CASE c # d
      <4>1. got'[c] = got[c]
        BY <2>3, <3>3
      <4> QED BY <1>3, <3>1, <4>1 DEF Conversation
    <3> QED BY <3>2, <3>3
  <2> QED BY <2>5, <2>7 DEF TalkInv
<1> QED BY <1>4, <1>5, <1>6, WhoTalks

\* Nothing has been said at first.
LEMMA InitTalk == SystemInit => TalkInv
<1> SUFFICES ASSUME SystemInit PROVE TalkInv
  OBVIOUS
<1>1. << >> \in Seq(Bodies) /\ Len(<< >>) = 0 /\ 1 .. 0 = {}
  OBVIOUS
<1>2. /\ sent = [c \in Conns |-> << >>] /\ got = [c \in Conns |-> << >>]
      /\ echoed = [c \in Conns |-> << >>]
  BY DEF SystemInit, Init, C!Init
<1>3. ASSUME NEW c \in Conns PROVE Conversation(c)
  BY <1>1, <1>2 DEF Conversation
<1> QED BY <1>1, <1>2, <1>3 DEF TalkInv

\* For any number of clients and any capacity of the log queue: a client is
\* given back the greeting it sent, once, and nothing else, and the server
\* never sees the text from before the connection.
\* client main.cpp:20-36, backend main.cpp:69-74.
THEOREM ClientsGetGreetings == SystemSpec => []OnlyGreetings
<1>1. SystemInv /\ TalkInv /\ [SystemNext]_systemVars => TalkInv'
  BY StepTalk
<1>2. SystemInv /\ TalkInv /\ EchoIsPrefix => OnlyGreetings
  <2> SUFFICES ASSUME SystemInv, TalkInv, EchoIsPrefix, NEW c \in Conns
               PROVE  /\ \A i \in DOMAIN sent[c] : sent[c][i].body = Greeting
                      /\ Len(got[c]) <= Len(sent[c]) /\ Len(sent[c]) <= 1
                      /\ \A i \in DOMAIN got[c] : got[c][i] = sent[c][i].body
    BY DEF OnlyGreetings
  <2>1. Conversation(c)
    BY DEF TalkInv
  <2>2. /\ sent[c] \in Seq(Message) /\ echoed[c] \in Seq(Message) /\ got[c] \in Seq(Bodies)
    BY <2>1 DEF SystemInv, TypeOK, Conversation
  <2>3. /\ DOMAIN sent[c] = 1 .. Len(sent[c]) /\ DOMAIN got[c] = 1 .. Len(got[c])
        /\ Len(sent[c]) \in Nat /\ Len(echoed[c]) \in Nat /\ Len(got[c]) \in Nat
    BY <2>2
  <2>4. /\ Len(echoed[c]) <= Len(sent[c])
        /\ \A i \in 1 .. Len(echoed[c]) : echoed[c][i] = sent[c][i]
    BY DEF EchoIsPrefix
  <2>5. Len(got[c]) <= Len(sent[c])
    BY <2>1, <2>3, <2>4 DEF Conversation
  <2>6. ASSUME NEW i \in DOMAIN got[c] PROVE got[c][i] = sent[c][i].body
    <3>1. i \in 1 .. Len(got[c]) /\ i \in 1 .. Len(echoed[c])
      BY <2>1, <2>3 DEF Conversation
    <3> QED BY <2>1, <2>4, <3>1 DEF Conversation
  <2> QED BY <2>1, <2>3, <2>5, <2>6 DEF Conversation
<1> QED
  BY <1>1, <1>2, InitTalk, SystemForever, DeploymentImplementsEchoServer, EchoPrefix, PTL
  DEF SystemSpec, ImplementsEchoServer
=============================================================================
