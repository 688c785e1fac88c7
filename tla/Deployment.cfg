\* Two clients and a log queue of one entry, so that the second session to end
\* can find it full.
SPECIFICATION SystemSpec
CONSTANTS
  Conns = {c1, c2}
  Bodies = {hello, greeting}
  Hello = hello
  Greeting = greeting
  Backend = backend
  Elided = FALSE
  Capacity = 1
  MaxMsgs = 2
  JsonThrows = FALSE
INVARIANTS OnlyGreetings
PROPERTIES ImplementsEchoServer GreetingAnswered SurvivorsNotice LogOnlyDelays
\* Everybody may have ended.
CHECK_DEADLOCK FALSE
