\* The session as it runs with nlohmann::json 3.11.3.
SPECIFICATION FairSpec
CONSTANTS
  Conns = {c1}
  Bodies = {b1}
  MaxMsgs = 1
  JsonThrows = TRUE
PROPERTIES EchoesAll
CHECK_DEADLOCK FALSE
