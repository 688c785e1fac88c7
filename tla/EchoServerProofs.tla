-------------------------- MODULE EchoServerProofs --------------------------
(***************************************************************************)
(* What EchoServer promises for any number of connections, any payloads    *)
(* and any number of messages: the replies are a prefix of what was sent,  *)
(* with at most one message between read and reply, and a session that has *)
(* come past the handshake ends only by its peer.                          *)
(***************************************************************************)
EXTENDS EchoServer, TLAPS

USE EchoServerAssumption

-----------------------------------------------------------------------------
(* Types.                                                                  *)

\* Appending to a sequence, element by element.
LEMMA AppendFacts ==
  ASSUME NEW S, NEW s \in Seq(S), NEW e \in S
  PROVE  /\ Append(s, e) \in Seq(S)
         /\ Len(Append(s, e)) = Len(s) + 1
         /\ Len(s) \in Nat
         /\ \A i \in 1 .. Len(s) : Append(s, e)[i] = s[i]
         /\ Append(s, e)[Len(s) + 1] = e
OBVIOUS

\* The message that async_read delivers next.
LEMMA NextMessage ==
  ASSUME TypeOK, NEW c \in Conns, nread[c] < Len(sent[c])
  PROVE  /\ sent[c][nread[c] + 1] \in Message
         /\ nread[c] + 1 \in 1 .. Len(sent[c])
<1>1. sent[c] \in Seq(Message) /\ nread[c] \in Nat
  BY DEF TypeOK
<1> QED BY <1>1

\* A message is its type and its body.
LEMMA MessageParts ==
  ASSUME NEW m \in Message
  PROVE  m = [text |-> m.text, body |-> m.body] /\ m.text \in BOOLEAN /\ m.body \in Bodies
BY DEF Message

\* The initial state has its types.
LEMMA InitType == Init => TypeOK
BY DEF Init, TypeOK, ListenerState, PeerState, SessionState

\* The top of an iteration: the session reads, or is over.
LEMMA IterationType ==
  ASSUME TypeOK, NEW c \in Conns, IterationStarts(c)
  PROVE  /\ session' \in [Conns -> SessionState]
         /\ buffer' \in [Conns -> Bodies \union {NoBody}]
         /\ session'[c] # "writing"
         /\ \A d \in Conns \ {c} : UNCHANGED <<session[d], buffer[d]>>
         /\ session'[c] \in {"over", "reading"}
         /\ ~JsonThrows => session'[c] = "reading"
BY DEF IterationStarts, SessionEnds, TypeOK, SessionState

\* Every step keeps the types.
LEMMA StepType == TypeOK /\ [Next]_vars => TypeOK'
<1> SUFFICES ASSUME TypeOK, [Next]_vars PROVE TypeOK'
  OBVIOUS
<1> USE DEF peerVars, sessionVars, ListenerState, PeerState, SessionState
<1>0. CASE UNCHANGED vars
  BY <1>0 DEF vars, TypeOK
<1>1. CASE ListenerOpens
  BY <1>1 DEF ListenerOpens, TypeOK
<1>2. CASE ListenerFails
  BY <1>2 DEF ListenerFails, TypeOK
<1>3. ASSUME NEW c \in Conns, Accept(c) PROVE TypeOK'
  BY <1>3 DEF Accept, TypeOK
<1>4. ASSUME NEW c \in Conns, SessionStarts(c) PROVE TypeOK'
  BY <1>4 DEF SessionStarts, TypeOK
<1>5. ASSUME NEW c \in Conns, HandshakeDone(c) PROVE TypeOK'
  <2>1. IterationStarts(c)
    BY <1>5 DEF HandshakeDone
  <2> QED BY <1>5, <2>1, IterationType DEF HandshakeDone, TypeOK
<1>6. ASSUME NEW c \in Conns, HandshakeFails(c) PROVE TypeOK'
  BY <1>6 DEF HandshakeFails, SessionEnds, TypeOK
<1>7. ASSUME NEW c \in Conns, ReadDone(c) PROVE TypeOK'
  <2>1. sent[c][nread[c] + 1].body \in Bodies /\ sent[c][nread[c] + 1].text \in BOOLEAN
    BY <1>7, NextMessage, MessageParts DEF ReadDone
  <2> DEFINE m == sent[c][nread[c] + 1]
  <2>2. /\ nread'    = [nread EXCEPT ![c] = @ + 1]
        /\ buffer'   = [buffer EXCEPT ![c] = m.body]
        /\ textMode' = [textMode EXCEPT ![c] = m.text]
        /\ session'  = [session EXCEPT ![c] = "writing"]
        /\ UNCHANGED <<listener, peer, left, faulty, sent, closed, echoed>>
    BY <1>7 DEF ReadDone
  <2>3. m.body \in Bodies /\ m.text \in BOOLEAN
    BY <2>1
  <2> HIDE DEF m
  <2> QED BY <2>2, <2>3 DEF TypeOK
<1>8. ASSUME NEW c \in Conns, ReadClosed(c) PROVE TypeOK'
  <2>1. IterationStarts(c)
    BY <1>8 DEF ReadClosed
  <2> QED BY <1>8, <2>1, IterationType DEF ReadClosed, TypeOK
<1>9. ASSUME NEW c \in Conns, ReadFails(c) PROVE TypeOK'
  BY <1>9 DEF ReadFails, Unreadable, SessionEnds, TypeOK
<1>10. ASSUME NEW c \in Conns, WriteDone(c) PROVE TypeOK'
  <2>1. IterationStarts(c)
    BY <1>10 DEF WriteDone
  <2>2. [text |-> textMode[c], body |-> buffer[c]] \in Message
    BY <1>10 DEF WriteDone, TypeOK, Message
  <2>3. echoed' \in [Conns -> Seq(Message)]
    <3>1. echoed \in [Conns -> Seq(Message)]
      BY DEF TypeOK
    <3>2. Append(echoed[c], [text |-> textMode[c], body |-> buffer[c]]) \in Seq(Message)
      BY <2>2, <3>1, AppendFacts
    <3> QED BY <1>10, <3>1, <3>2 DEF WriteDone
  <2> QED BY <1>10, <2>1, <2>3, IterationType DEF WriteDone, TypeOK
<1>11. ASSUME NEW c \in Conns, WriteFails(c) PROVE TypeOK'
  BY <1>11 DEF WriteFails, SessionEnds, TypeOK
<1>12. ASSUME NEW c \in Conns, PeerConnects(c) PROVE TypeOK'
  BY <1>12 DEF PeerConnects, TypeOK
<1>13. ASSUME NEW c \in Conns, PeerRequests(c) PROVE TypeOK'
  BY <1>13 DEF PeerRequests, TypeOK
<1>14. ASSUME NEW c \in Conns, PeerCloses(c) PROVE TypeOK'
  BY <1>14 DEF PeerCloses, TypeOK
<1>15. ASSUME NEW c \in Conns, PeerVanishes(c) PROVE TypeOK'
  BY <1>15 DEF PeerVanishes, TypeOK
<1>16. ASSUME NEW c \in Conns, PeerNotices(c) PROVE TypeOK'
  BY <1>16 DEF PeerNotices, TypeOK
<1>17. ASSUME NEW c \in Conns, NEW m \in Message, PeerSends(c, m) PROVE TypeOK'
  <2>1. sent \in [Conns -> Seq(Message)]
    BY DEF TypeOK
  <2>2. Append(sent[c], m) \in Seq(Message)
    BY <2>1, AppendFacts
  <2>3. sent' \in [Conns -> Seq(Message)]
    BY <1>17, <2>1, <2>2 DEF PeerSends
  <2> QED BY <1>17, <2>3 DEF PeerSends, TypeOK
<1>18. ASSUME NEW c \in Conns, PeerErrs(c) PROVE TypeOK'
  BY <1>18 DEF PeerErrs, TypeOK
<1> QED
  BY <1>0, <1>1, <1>2, <1>3, <1>4, <1>5, <1>6, <1>7, <1>8, <1>9, <1>10, <1>11,
     <1>12, <1>13, <1>14, <1>15, <1>16, <1>17, <1>18
  DEF Next, Server, Peer

-----------------------------------------------------------------------------
(* The echo.                                                               *)

\* What has been read, what has been echoed and what is in the buffer.
EchoOf(c) ==
  /\ nread[c] <= Len(sent[c])
  /\ Len(echoed[c]) <= nread[c]
  /\ \A i \in 1 .. Len(echoed[c]) : echoed[c][i] = sent[c][i]
  /\ session[c] # "over" =>
       nread[c] = Len(echoed[c]) + (IF session[c] = "writing" THEN 1 ELSE 0)
  /\ session[c] = "writing" =>
       sent[c][nread[c]] = [text |-> textMode[c], body |-> buffer[c]]

EchoInv == \A c \in Conns : EchoOf(c)

\* Nothing is read or echoed at first.
LEMMA InitEcho == Init => EchoInv
<1> SUFFICES ASSUME Init, NEW c \in Conns PROVE EchoOf(c)
  BY DEF EchoInv
<1>1. sent[c] = << >> /\ echoed[c] = << >> /\ nread[c] = 0 /\ session[c] = "none"
  BY DEF Init
<1>2. Len(<< >>) = 0
  OBVIOUS
<1> QED BY <1>1, <1>2 DEF EchoOf

\* A step that neither reads, nor writes, nor sends.
LEMMA EchoFrame ==
  ASSUME TypeOK, EchoInv, UNCHANGED <<sent, nread, echoed>>,
         \A c \in Conns :
           \/ UNCHANGED <<session[c], buffer[c], textMode[c]>>
           \/ session'[c] = "over"
           \/ session[c] \notin {"writing", "over"} /\ session'[c] # "writing"
  PROVE  EchoInv'
BY DEF EchoInv, EchoOf, TypeOK

\* Every step keeps the invariant.
LEMMA StepEcho == TypeOK /\ EchoInv /\ [Next]_vars => EchoInv'
<1> SUFFICES ASSUME TypeOK, EchoInv, [Next]_vars PROVE EchoInv'
  OBVIOUS
<1> USE DEF peerVars, sessionVars
<1>0. CASE UNCHANGED vars
  BY <1>0, EchoFrame DEF vars
<1>1. CASE ListenerOpens
  BY <1>1, EchoFrame DEF ListenerOpens
<1>2. CASE ListenerFails
  BY <1>2, EchoFrame DEF ListenerFails
<1>3. ASSUME NEW c \in Conns, Accept(c) PROVE EchoInv'
  BY <1>3, EchoFrame DEF Accept, TypeOK
<1>4. ASSUME NEW c \in Conns, SessionStarts(c) PROVE EchoInv'
  BY <1>4, EchoFrame DEF SessionStarts, TypeOK
<1>5. ASSUME NEW c \in Conns, HandshakeDone(c) PROVE EchoInv'
  <2>1. IterationStarts(c) /\ session[c] \notin {"writing", "over"}
    BY <1>5 DEF HandshakeDone
  <2>2. UNCHANGED <<sent, nread, echoed, textMode>>
    BY <1>5 DEF HandshakeDone
  <2> QED BY <2>1, <2>2, IterationType, EchoFrame
<1>6. ASSUME NEW c \in Conns, HandshakeFails(c) PROVE EchoInv'
  BY <1>6, EchoFrame DEF HandshakeFails, SessionEnds, TypeOK
<1>7. ASSUME NEW c \in Conns, ReadDone(c) PROVE EchoInv'
  <2> DEFINE m == sent[c][nread[c] + 1]
  <2>1. m \in Message /\ m = [text |-> m.text, body |-> m.body]
    BY <1>7, NextMessage, MessageParts DEF ReadDone
  <2>2. /\ session[c] = "reading" /\ nread[c] < Len(sent[c])
        /\ nread'[c] = nread[c] + 1 /\ buffer'[c] = m.body
        /\ textMode'[c] = m.text /\ session'[c] = "writing"
        /\ UNCHANGED <<sent, echoed>>
        /\ \A d \in Conns \ {c} :
             UNCHANGED <<nread[d], buffer[d], textMode[d], session[d]>>
    BY <1>7 DEF ReadDone, TypeOK
  <2>3. nread[c] \in Nat /\ Len(sent[c]) \in Nat /\ nread[c] = Len(echoed[c])
    <3>1. nread[c] \in Nat /\ sent[c] \in Seq(Message) /\ echoed[c] \in Seq(Message)
      BY DEF TypeOK
    <3>2. nread[c] = Len(echoed[c]) + 0
      BY <2>2 DEF EchoInv, EchoOf
    <3> QED BY <3>1, <3>2
  <2>4. /\ nread'[c] <= Len(sent'[c]) /\ Len(echoed'[c]) <= nread'[c]
        /\ nread'[c] = Len(echoed'[c]) + 1
    BY <2>2, <2>3
  <2>5. sent'[c][nread'[c]] = [text |-> textMode'[c], body |-> buffer'[c]]
    BY <2>1, <2>2
  <2>6. EchoOf(c)'
    BY <2>2, <2>4, <2>5 DEF EchoInv, EchoOf
  <2>7. ASSUME NEW d \in Conns \ {c} PROVE EchoOf(d)'
    <3>1. UNCHANGED <<sent[d], echoed[d], nread[d], buffer[d], textMode[d], session[d]>>
      BY <2>2
    <3>2. EchoOf(d)
      BY DEF EchoInv
    <3> QED BY <3>1, <3>2 DEF EchoOf
  <2> QED BY <2>6, <2>7 DEF EchoInv
<1>8. ASSUME NEW c \in Conns, ReadClosed(c) PROVE EchoInv'
  <2>1. IterationStarts(c) /\ session[c] \notin {"writing", "over"}
    BY <1>8 DEF ReadClosed
  <2>2. UNCHANGED <<sent, nread, echoed, textMode>>
    BY <1>8 DEF ReadClosed
  <2> QED BY <2>1, <2>2, IterationType, EchoFrame
<1>9. ASSUME NEW c \in Conns, ReadFails(c) PROVE EchoInv'
  BY <1>9, EchoFrame DEF ReadFails, Unreadable, SessionEnds, TypeOK
<1>10. ASSUME NEW c \in Conns, WriteDone(c) PROVE EchoInv'
  <2> DEFINE r == [text |-> textMode[c], body |-> buffer[c]]
  <2>1. IterationStarts(c) /\ session[c] = "writing"
    BY <1>10 DEF WriteDone
  <2>2. r \in Message /\ echoed[c] \in Seq(Message)
    BY <2>1 DEF TypeOK, Message
  <2>3. /\ nread[c] = Len(echoed[c]) + 1 /\ sent[c][nread[c]] = r
        /\ nread[c] <= Len(sent[c])
    BY <2>1 DEF EchoInv, EchoOf
  <2>4. /\ echoed'[c] = Append(echoed[c], r)
        /\ UNCHANGED <<sent, nread, textMode>>
        /\ \A d \in Conns \ {c} : UNCHANGED echoed[d]
    BY <1>10 DEF WriteDone, TypeOK
  <2> HIDE DEF r
  <2>5. /\ Len(echoed'[c]) = nread[c]
        /\ \A i \in 1 .. Len(echoed[c]) : echoed'[c][i] = echoed[c][i]
        /\ echoed'[c][nread[c]] = r
        /\ Len(echoed[c]) \in Nat
    BY <2>2, <2>3, <2>4, AppendFacts
  <2>6. \A i \in 1 .. Len(echoed'[c]) : echoed'[c][i] = sent[c][i]
    <3>1. \A i \in 1 .. Len(echoed[c]) : echoed[c][i] = sent[c][i]
      BY DEF EchoInv, EchoOf
    <3> TAKE i \in 1 .. Len(echoed'[c])
    <3>2. i \in 1 .. Len(echoed[c]) \/ i = nread[c]
      BY <2>3, <2>5
    <3>3. CASE i \in 1 .. Len(echoed[c])
      BY <2>5, <3>1, <3>3
    <3>4. CASE i = nread[c]
      BY <2>3, <2>5, <3>4
    <3> QED BY <3>2, <3>3, <3>4
  <2>7. session'[c] # "writing" /\ nread[c] \in Nat
    BY <2>1, IterationType DEF TypeOK
  <2>8. \A d \in Conns \ {c} : UNCHANGED <<session[d], buffer[d]>>
    BY <2>1, IterationType
  <2>9. EchoOf(c)'
    <3>1. nread'[c] = nread[c] /\ sent'[c] = sent[c]
      BY <2>4
    <3> QED BY <2>3, <2>5, <2>6, <2>7, <3>1 DEF EchoOf
  <2>10. ASSUME NEW d \in Conns \ {c} PROVE EchoOf(d)'
    <3>1. UNCHANGED <<sent[d], nread[d], echoed[d], session[d], buffer[d], textMode[d]>>
      BY <2>4, <2>8
    <3>2. EchoOf(d)
      BY DEF EchoInv
    <3> QED BY <3>1, <3>2 DEF EchoOf
  <2> QED BY <2>9, <2>10 DEF EchoInv
<1>11. ASSUME NEW c \in Conns, WriteFails(c) PROVE EchoInv'
  BY <1>11, EchoFrame DEF WriteFails, SessionEnds, TypeOK
<1>12. ASSUME NEW c \in Conns, PeerConnects(c) PROVE EchoInv'
  BY <1>12, EchoFrame DEF PeerConnects, TypeOK
<1>13. ASSUME NEW c \in Conns, PeerRequests(c) PROVE EchoInv'
  BY <1>13, EchoFrame DEF PeerRequests, TypeOK
<1>14. ASSUME NEW c \in Conns, PeerCloses(c) PROVE EchoInv'
  BY <1>14, EchoFrame DEF PeerCloses, TypeOK
<1>15. ASSUME NEW c \in Conns, PeerVanishes(c) PROVE EchoInv'
  BY <1>15, EchoFrame DEF PeerVanishes, TypeOK
<1>16. ASSUME NEW c \in Conns, PeerNotices(c) PROVE EchoInv'
  BY <1>16, EchoFrame DEF PeerNotices, TypeOK
<1>17. ASSUME NEW c \in Conns, NEW m \in Message, PeerSends(c, m) PROVE EchoInv'
  <2>1. sent[c] \in Seq(Message) /\ nread[c] \in Nat
    BY DEF TypeOK
  <2>2. /\ Len(sent'[c]) = Len(sent[c]) + 1
        /\ Len(sent[c]) \in Nat
        /\ \A i \in 1 .. Len(sent[c]) : sent'[c][i] = sent[c][i]
        /\ \A d \in Conns \ {c} : UNCHANGED sent[d]
    <3>1. sent'[c] = Append(sent[c], m) /\ \A d \in Conns \ {c} : UNCHANGED sent[d]
      BY <1>17 DEF PeerSends, TypeOK
    <3> QED BY <2>1, <3>1, AppendFacts
  <2>3. UNCHANGED <<session, nread, buffer, textMode, echoed>>
    BY <1>17 DEF PeerSends
  <2>4. Len(echoed[c]) \in Nat /\ nread[c] <= Len(sent[c]) /\ Len(echoed[c]) <= nread[c]
    <3>1. echoed[c] \in Seq(Message)
      BY DEF TypeOK
    <3>2. nread[c] <= Len(sent[c]) /\ Len(echoed[c]) <= nread[c]
      BY DEF EchoInv, EchoOf
    <3> QED BY <3>1, <3>2
  <2>5. /\ nread[c] <= Len(sent'[c])
        /\ \A i \in 1 .. Len(echoed[c]) : echoed[c][i] = sent'[c][i]
    <3>1. \A i \in 1 .. Len(echoed[c]) : echoed[c][i] = sent[c][i]
      BY DEF EchoInv, EchoOf
    <3>2. 1 .. Len(echoed[c]) \subseteq 1 .. Len(sent[c]) /\ nread[c] <= Len(sent[c]) + 1
      BY <2>1, <2>2, <2>4
    <3> QED BY <2>2, <3>1, <3>2
  <2>6. session[c] = "writing" => sent'[c][nread[c]] = sent[c][nread[c]]
    <3> SUFFICES ASSUME session[c] = "writing" PROVE sent'[c][nread[c]] = sent[c][nread[c]]
      OBVIOUS
    <3>1. nread[c] = Len(echoed[c]) + 1
      BY DEF EchoInv, EchoOf
    <3>2. nread[c] \in 1 .. Len(sent[c])
      BY <2>1, <2>2, <2>4, <3>1
    <3> QED BY <2>2, <3>2
  <2>7. EchoOf(c)'
    BY <2>3, <2>4, <2>5, <2>6 DEF EchoInv, EchoOf
  <2>8. ASSUME NEW d \in Conns \ {c} PROVE EchoOf(d)'
    <3>1. UNCHANGED <<sent[d], nread[d], echoed[d], session[d], buffer[d], textMode[d]>>
      BY <2>2, <2>3
    <3>2. EchoOf(d)
      BY DEF EchoInv
    <3> QED BY <3>1, <3>2 DEF EchoOf
  <2> QED BY <2>7, <2>8 DEF EchoInv
<1>18. ASSUME NEW c \in Conns, PeerErrs(c) PROVE EchoInv'
  BY <1>18, EchoFrame DEF PeerErrs, TypeOK
<1> QED
  BY <1>0, <1>1, <1>2, <1>3, <1>4, <1>5, <1>6, <1>7, <1>8, <1>9, <1>10, <1>11,
     <1>12, <1>13, <1>14, <1>15, <1>16, <1>17, <1>18
  DEF Next, Server, Peer

-----------------------------------------------------------------------------
(* The life of a session.                                                  *)

\* Where the peer may be while the session is somewhere.
LifeInv ==
  \A c \in Conns :
    /\ session[c] \in {"none", "spawned", "handshake"} => peer[c] \notin {"open", "closing"}
    /\ peer[c] \in {"idle", "tcp", "requested", "bad"} \/ session[c] \in {"none", "spawned", "handshake"} =>
         sent[c] = << >> /\ nread[c] = 0 /\ ~closed[c]
    /\ session[c] = "over" /\ ~faulty[c] => peer[c] \notin {"open", "closing"}
    /\ peer[c] = "closing" => left[c]
    /\ closed[c] => left[c]
    /\ peer[c] = "gone" =>
         left[c] \/ session[c] = "over" \/ (session[c] = "none" /\ listener = "failed")
    /\ (session[c] = "over" /\ sent[c] # << >>) => left[c] \/ faulty[c]
    /\ faulty[c] => session[c] \notin {"none", "spawned", "handshake"}
    /\ nread[c] > 0 => sent[c] # << >>
    /\ session[c] \in {"reading", "writing"} => peer[c] \in {"open", "closing", "gone"}
    /\ closed[c] => peer[c] = "gone"

\* No session lives at first.
LEMMA InitLife == Init => LifeInv
<1> SUFFICES ASSUME Init PROVE LifeInv
  OBVIOUS
<1>1. \A c \in Conns :
        /\ session[c] = "none" /\ peer[c] = "idle" /\ sent[c] = << >>
        /\ nread[c] = 0 /\ ~closed[c] /\ ~faulty[c]
  BY DEF Init
<1>2. ~(0 > 0)
  OBVIOUS
<1> QED BY <1>1, <1>2 DEF LifeInv

\* Every step keeps the invariant, if get_to does not throw.
LEMMA StepLife == ~JsonThrows /\ TypeOK /\ LifeInv /\ [Next]_vars => LifeInv'
<1> SUFFICES ASSUME ~JsonThrows, TypeOK, LifeInv, [Next]_vars PROVE LifeInv'
  OBVIOUS
<1> USE DEF peerVars, sessionVars
<1>0. CASE UNCHANGED vars
  BY <1>0 DEF vars, LifeInv
<1>1. CASE ListenerOpens
  BY <1>1 DEF ListenerOpens, LifeInv
<1>2. CASE ListenerFails
  BY <1>2 DEF ListenerFails, LifeInv, TypeOK
<1>3. ASSUME NEW c \in Conns, Accept(c) PROVE LifeInv'
  BY <1>3 DEF Accept, LifeInv, TypeOK
<1>4. ASSUME NEW c \in Conns, SessionStarts(c) PROVE LifeInv'
  BY <1>4 DEF SessionStarts, LifeInv, TypeOK
<1>5. ASSUME NEW c \in Conns, HandshakeDone(c) PROVE LifeInv'
  <2>1. /\ session'[c] = "reading"
        /\ \A d \in Conns \ {c} : UNCHANGED session[d]
    BY <1>5, IterationType DEF HandshakeDone
  <2> QED BY <1>5, <2>1 DEF HandshakeDone, LifeInv, TypeOK
<1>6. ASSUME NEW c \in Conns, HandshakeFails(c) PROVE LifeInv'
  BY <1>6 DEF HandshakeFails, SessionEnds, LifeInv, TypeOK
<1>7. ASSUME NEW c \in Conns, ReadDone(c) PROVE LifeInv'
  BY <1>7 DEF ReadDone, LifeInv, TypeOK
<1>8. ASSUME NEW c \in Conns, ReadClosed(c) PROVE LifeInv'
  <2>1. /\ session'[c] = "reading"
        /\ \A d \in Conns \ {c} : UNCHANGED session[d]
    BY <1>8, IterationType DEF ReadClosed
  <2> QED BY <1>8, <2>1 DEF ReadClosed, LifeInv, TypeOK
<1>9. ASSUME NEW c \in Conns, ReadFails(c) PROVE LifeInv'
  BY <1>9 DEF ReadFails, Unreadable, SessionEnds, LifeInv, TypeOK
<1>10. ASSUME NEW c \in Conns, WriteDone(c) PROVE LifeInv'
  <2>1. /\ session'[c] = "reading"
        /\ \A d \in Conns \ {c} : UNCHANGED session[d]
    BY <1>10, IterationType DEF WriteDone
  <2> QED BY <1>10, <2>1 DEF WriteDone, LifeInv, TypeOK
<1>11. ASSUME NEW c \in Conns, WriteFails(c) PROVE LifeInv'
  BY <1>11 DEF WriteFails, SessionEnds, LifeInv, TypeOK
<1>12. ASSUME NEW c \in Conns, PeerConnects(c) PROVE LifeInv'
  BY <1>12 DEF PeerConnects, LifeInv, TypeOK
<1>13. ASSUME NEW c \in Conns, PeerRequests(c) PROVE LifeInv'
  BY <1>13 DEF PeerRequests, LifeInv, TypeOK
<1>14. ASSUME NEW c \in Conns, PeerCloses(c) PROVE LifeInv'
  BY <1>14 DEF PeerCloses, LifeInv, TypeOK
<1>15. ASSUME NEW c \in Conns, PeerVanishes(c) PROVE LifeInv'
  BY <1>15 DEF PeerVanishes, LifeInv, TypeOK
<1>16. ASSUME NEW c \in Conns, PeerNotices(c) PROVE LifeInv'
  BY <1>16 DEF PeerNotices, LifeInv, TypeOK
<1>17. ASSUME NEW c \in Conns, NEW m \in Message, PeerSends(c, m) PROVE LifeInv'
  <2>1. sent[c] \in Seq(Message)
    BY DEF TypeOK
  <2>2. Append(sent[c], m) # << >>
    BY <2>1
  <2>3. /\ peer[c] = "open" /\ sent'[c] # << >>
        /\ UNCHANGED <<listener, peer, left, faulty, session, closed, nread>>
        /\ \A d \in Conns \ {c} : UNCHANGED sent[d]
    BY <1>17, <2>2 DEF PeerSends, TypeOK
  <2> QED BY <2>3 DEF LifeInv
<1>18. ASSUME NEW c \in Conns, PeerErrs(c) PROVE LifeInv'
  BY <1>18 DEF PeerErrs, LifeInv, TypeOK
<1> QED
  BY <1>0, <1>1, <1>2, <1>3, <1>4, <1>5, <1>6, <1>7, <1>8, <1>9, <1>10, <1>11,
     <1>12, <1>13, <1>14, <1>15, <1>16, <1>17, <1>18
  DEF Next, Server, Peer

-----------------------------------------------------------------------------
(* The theorems.                                                           *)

\* Every variable has its type in every execution.
THEOREM TypeCorrect == Spec => []TypeOK
BY InitType, StepType, PTL DEF Spec

\* The invariant EchoPrefix and OneInFlight rest on.
LEMMA EchoInvariant == Spec => []EchoInv
BY InitEcho, StepEcho, TypeCorrect, PTL DEF Spec

\* A peer gets back what it sent, in order and with its type, without gaps and
\* without duplicates.
THEOREM EchoPrefix == Spec => []EchoIsPrefix
<1>1. TypeOK /\ EchoInv => EchoIsPrefix
  <2> SUFFICES ASSUME TypeOK, EchoInv, NEW c \in Conns
               PROVE  /\ Len(echoed[c]) <= Len(sent[c])
                      /\ \A i \in 1 .. Len(echoed[c]) : echoed[c][i] = sent[c][i]
    BY DEF EchoIsPrefix
  <2>1. echoed[c] \in Seq(Message) /\ sent[c] \in Seq(Message) /\ nread[c] \in Nat
    BY DEF TypeOK
  <2>2. EchoOf(c)
    BY DEF EchoInv
  <2> QED BY <2>1, <2>2 DEF EchoOf
<1> QED BY <1>1, TypeCorrect, EchoInvariant, PTL

\* A live session has at most one message read and not yet echoed, and it is
\* the one in the buffer.
THEOREM OneInFlight == Spec => []OneMessageInFlight
<1>1. EchoInv => OneMessageInFlight
  <2> SUFFICES ASSUME EchoInv, NEW c \in Conns, session[c] # "over"
               PROVE  /\ nread[c] = Len(echoed[c]) + (IF session[c] = "writing" THEN 1 ELSE 0)
                      /\ session[c] = "writing" => buffer[c] = sent[c][nread[c]].body
    BY DEF OneMessageInFlight
  <2>1. EchoOf(c)
    BY DEF EchoInv
  <2>2. nread[c] = Len(echoed[c]) + (IF session[c] = "writing" THEN 1 ELSE 0)
    BY <2>1 DEF EchoOf
  <2>3. session[c] = "writing" => buffer[c] = sent[c][nread[c]].body
    BY <2>1 DEF EchoOf
  <2> QED BY <2>2, <2>3
<1> QED BY <1>1, EchoInvariant, PTL

\* Without the JSON placeholder's exception a session that has come past the
\* handshake ends only after its peer left or broke the protocol: no other
\* session and no failure of the listener ends it.
THEOREM SessionsOutliveFailures ==
  ASSUME ~JsonThrows
  PROVE  Spec => []EndsOnlyByItsPeer
<1>1. Init => LifeInv
  BY InitLife
<1>2. TypeOK /\ LifeInv /\ [Next]_vars => LifeInv'
  BY StepLife
<1>3. TypeOK /\ LifeInv => EndsOnlyByItsPeer
  <2> SUFFICES ASSUME TypeOK, LifeInv, NEW c \in Conns,
                      session[c] = "over", nread[c] + Len(sent[c]) > 0
               PROVE  left[c] \/ faulty[c]
    BY DEF EndsOnlyByItsPeer
  <2>1. sent[c] # << >>
    <3>1. nread[c] \in Nat /\ sent[c] \in Seq(Message)
      BY DEF TypeOK
    <3>2. CASE sent[c] = << >>
      <4>1. Len(sent[c]) = 0
        BY <3>2
      <4>2. nread[c] > 0
        BY <3>1, <4>1
      <4> QED BY <4>2 DEF LifeInv
    <3> QED BY <3>2
  <2> QED BY <2>1 DEF LifeInv
<1> QED BY <1>1, <1>2, <1>3, TypeCorrect, PTL DEF Spec
=============================================================================
