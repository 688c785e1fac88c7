\* Backend and client in one directory, with a queue, a file and a number of
\* files small enough to fill up.
SPECIFICATION Spec
CONSTANTS
  Procs <- MCProcs
  Capacity = 2
  MaxLines <- MCMaxLines
  MaxSize = 1
  MaxFiles = 2
INVARIANTS TypeOK NothingLostOrSwapped WrittenBeforeExit NewerFilesHoldNewerLines FilesStaySmall LoneLogIsKept
PROPERTY ImplementsLogger
\* Both programs end.
CHECK_DEADLOCK FALSE
