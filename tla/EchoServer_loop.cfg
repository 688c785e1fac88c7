\* The echo loop as written, with the JSON placeholder out of the way.
SPECIFICATION FairSpec
CONSTANTS
  Conns = {c1, c2}
  Bodies = {b1}
  MaxMsgs = 2
  JsonThrows = FALSE
INVARIANTS TypeOK EchoIsPrefix OneMessageInFlight EndsOnlyByItsPeer
PROPERTIES EchoesAll ClosedSessionEnds ConnectionsGetSessions
\* Every peer may leave and the server then waits for ever.
CHECK_DEADLOCK FALSE
